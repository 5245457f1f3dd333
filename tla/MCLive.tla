------------------------------- MODULE MCLive -------------------------------
(***************************************************************************)
(* The runs, the gateway to the broker and the reads of public data for    *)
(* TLC, with fairness.  They share no state here, so a behaviour follows   *)
(* one of them and leaves the others as they started.                      *)
(***************************************************************************)
EXTENDS RunJobs, MxGateway, PublicReads

Surroundings(moves, clears, switches, aborts, calls) ==
  [move |-> moves, clear |-> clears, switch |-> switches, abort |-> aborts, call |-> calls]

\* A fill, a clearing and an abort beside the reads; an edit of the key and a
\* clearing; an order or a query, and an abort.
MCAllowances == {Surroundings(1, 1, 0, 1, 0), Surroundings(0, 1, 1, 0, 0),
                 Surroundings(0, 0, 0, 1, 1)}

\* sentiment.limit_reasons: two interfaces of one host, one request at a time.
MCRoute == <<[lane |-> "ths", reserve |-> TRUE, onEmpty |-> TRUE],
             [lane |-> "ths", reserve |-> FALSE, onEmpty |-> FALSE]>>

VARIABLE part

\* Two analyses that may both be parked, where no owner is held up past its
\* lease; or an analysis and a watch, where one may be.
Cast == [analyses |-> Analyses,
         watch |-> Watches \cup {a \in Analyses : \A b \in Analyses : a <= b}]

FollowsRuns == part \in DOMAIN Cast

LiveInit ==
  /\ Init /\ GateInit /\ PublicInit
  /\ configured = CHOOSE a \in Accounts : TRUE
  /\ part \in DOMAIN Cast \cup {"gateway", "public"}
  /\ part # "gateway" => allowed = Surroundings(0, 1, 1, 0, 0)

LiveNext ==
  /\ \/ /\ FollowsRuns /\ Next /\ UNCHANGED <<gateVars, publicVars>>
        /\ \A r \in Runs \ Cast[part] : run'[r] = "ABSENT"
        /\ part = "analyses" => stalls' = 0
     \/ part = "gateway" /\ GateNext /\ UNCHANGED <<vars, publicVars>>
     \/ part = "public" /\ PublicNext /\ UNCHANGED <<vars, gateVars>>
  /\ UNCHANGED part

\* Fairness of RunJobs, where a process that has yet to start could start; nothing
\* of the gateways is under way in a behaviour that does not follow them.
CoreFairness ==
  /\ \A p \in Procs : /\ WF_vars(FollowsRuns /\ WorkerStep(p))
                      /\ WF_vars(FollowsRuns /\ LaneStep(p))
                      /\ WF_vars(FollowsRuns /\ RestartStep(p))
                      /\ WF_vars(FollowsRuns /\ \E r \in Runs : Claim(p, r))
  /\ \A r \in Runs : WF_vars(FollowsRuns /\ LeaseRunsOut(r))

LiveSpec ==
  /\ LiveInit /\ [][LiveNext]_<<vars, gateVars, publicVars, part>>
  /\ CoreFairness /\ GateFairness /\ PublicFairness

\* Nobody who asks a gateway, the broker's or the public one, waits for ever: the
\* locks, the gates and the queues are left by whoever fails or gives up.
GatewaysAnswer == CallsReturn /\ PublicReadsReturn
=============================================================================
