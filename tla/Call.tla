-------------------------------- MODULE Call --------------------------------
(***************************************************************************)
(* What one econn record promises its application, whatever the messages, *)
(* the timers and the glare in between: a record goes from idle through   *)
(* call setup into the call and is finally closed, never backwards; it    *)
(* enters the call only once its peer has left idle; and the application  *)
(* is told of the close (closeh) only after the record has closed.  No    *)
(* setup lasts for ever, and a closed record's application is told.      *)
(*                                                                         *)
(* Econn.tla implements this specification under the refinement mapping  *)
(* given there (CallRefinement).                                          *)
(***************************************************************************)
CONSTANT Parties

VARIABLES
    phase,   \* phase[p]: "idle", "setup", "call" or "closed"
    told     \* told[p]: the application of p was told that p closed

vars == <<phase, told>>

Phases == {"idle", "setup", "call", "closed"}

TypeOK ==
    /\ phase \in [Parties -> Phases]
    /\ told \in [Parties -> BOOLEAN]

Init ==
    /\ phase = [p \in Parties |-> "idle"]
    /\ told = [p \in Parties |-> FALSE]

\* p offers a call or is offered one.
Offer(p) ==
    /\ phase[p] = "idle"
    /\ phase' = [phase EXCEPT ![p] = "setup"]
    /\ UNCHANGED told

\* The offer/answer exchange of p completes: p is in the call.  A party
\* can only have exchanged offer and answer with a party that left idle.
Connect(p) ==
    /\ phase[p] = "setup"
    /\ \E q \in Parties \ {p} : phase[q] # "idle"
    /\ phase' = [phase EXCEPT ![p] = "call"]
    /\ UNCHANGED told

\* p closes from any phase; its application may be told at once.
Close(p) ==
    /\ phase[p] # "closed"
    /\ phase' = [phase EXCEPT ![p] = "closed"]
    /\ told' \in {told, [told EXCEPT ![p] = TRUE]}

\* The application of a closed p is told (a close deferred to a timer).
Tell(p) ==
    /\ phase[p] = "closed" /\ ~told[p]
    /\ told' = [told EXCEPT ![p] = TRUE]
    /\ UNCHANGED phase

Next == \E p \in Parties : Offer(p) \/ Connect(p) \/ Close(p) \/ Tell(p)

Spec == Init /\ [][Next]_vars

\* A setup ends: the party enters the call or closes.
LeaveSetup(p) == phase[p] = "setup" /\ (Connect(p) \/ Close(p))

\* No party stays in setup for ever, and the application of a closed party
\* is told in the end.  A call itself may last for ever.
FairSpec == Spec /\ \A p \in Parties : WF_vars(LeaveSetup(p)) /\ WF_vars(Tell(p))

=============================================================================
