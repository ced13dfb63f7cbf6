------------------------------- MODULE Inbox -------------------------------
(***************************************************************************)
(* What durable admission promises of an item (a message of an execution   *)
(* client, or the resume cursor of a hello): once admitted it is consumed  *)
(* at most once.  Either its facts are committed, all of them and once, or *)
(* it is given up and leaves none.  (crates/gateway/src/inbound.rs, the    *)
(* contract of InboundMessagePort and SessionResumePort.)                  *)
(***************************************************************************)
EXTENDS Naturals

CONSTANT Items

VARIABLES
    state,          \* item -> where it stands
    facts           \* item -> how often its facts were committed

vars == <<state, facts>>

Init ==
    /\ state = [i \in Items |-> "absent"]
    /\ facts = [i \in Items |-> 0]

Admit(i) ==
    /\ state[i] = "absent"
    /\ state' = [state EXCEPT ![i] = "waiting"]
    /\ UNCHANGED facts

Consume(i) ==
    /\ state[i] = "waiting"
    /\ state' = [state EXCEPT ![i] = "handled"]
    /\ facts' = [facts EXCEPT ![i] = 1]

GiveUp(i) ==
    /\ state[i] = "waiting"
    /\ state' = [state EXCEPT ![i] = "failed"]
    /\ UNCHANGED facts

Next == \E i \in Items : Admit(i) \/ Consume(i) \/ GiveUp(i)

Spec == Init /\ [][Next]_vars
=============================================================================
