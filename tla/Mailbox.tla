------------------------------ MODULE Mailbox ------------------------------
(***************************************************************************)
(* What a RunLoop promises to the users of its messages, with no threads,  *)
(* locks, or loop iterations: the users are the pairs of a worker and a    *)
(* delegate that share the fields around one ActiveMsg.                    *)
(*                                                                         *)
(* A slot (a message with those fields) belongs to one side at a time.     *)
(* The worker takes a free slot, fills it, and posts it; posted slots are  *)
(* handled one at a time, in the order they were posted, each once per     *)
(* post; a slot that is destroyed is never handled again.                  *)
(***************************************************************************)
EXTENDS Deques

CONSTANT Slots

VARIABLES phase,    \* phase[s]: who has the slot s
          fifo      \* the posted slots, the oldest first

mailbox == <<phase, fifo>>

Phases == {"none", "free", "filling", "posted", "handling", "gone"}

MailboxTypeOK ==
    /\ phase \in [Slots -> Phases]
    /\ fifo \in Seq(Slots)

MailboxInit == phase = [s \in Slots |-> "none"] /\ fifo = <<>>

Move(s, from, to) == phase[s] = from /\ phase' = [phase EXCEPT ![s] = to]

Open(s)   == Move(s, "none", "free") /\ UNCHANGED fifo
Fill(s)   == Move(s, "free", "filling") /\ UNCHANGED fifo
Post(s)   == Move(s, "filling", "posted") /\ fifo' = Append(fifo, s)
Done(s)   == Move(s, "handling", "free") /\ UNCHANGED fifo

Handle(s) ==
    /\ \A o \in Slots : phase[o] # "handling"
    /\ fifo # <<>> /\ s = Head(fifo)
    /\ Move(s, "posted", "handling")
    /\ fifo' = Tail(fifo)

(* The worker is never inside the slot when it goes.                       *)
Close(s) ==
    /\ phase[s] \in {"free", "posted"}
    /\ phase' = [phase EXCEPT ![s] = "gone"]
    /\ fifo' = Erase(fifo, s)

MailboxNext ==
    \E s \in Slots : Open(s) \/ Fill(s) \/ Post(s) \/ Handle(s) \/ Done(s) \/ Close(s)

MailboxSpec == MailboxInit /\ [][MailboxNext]_mailbox
=============================================================================
