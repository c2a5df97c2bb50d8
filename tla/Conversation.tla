---------------------------- MODULE Conversation ----------------------------
(* What a chat session promises, without screen, queue or threads: messages *)
(* are asked one at a time, each ends once, an ended one is on the tape and *)
(* (when it was answered or stopped) in the history, and a closed session   *)
(* never moves again. ChatSession implements it.                            *)
EXTENDS Naturals, Sequences

CONSTANT Messages        \* how many messages may be asked

VARIABLES
    asked,               \* the messages handed to the session so far
    open,                \* the message the session is answering, 0 for none
    sent,                \* the messages the server was asked, in order
    kept,                \* the messages of the history, in order
    closed
vars == <<asked, open, sent, kept, closed>>

Init == asked = 0 /\ open = 0 /\ sent = <<>> /\ kept = <<>> /\ closed = FALSE

Ask == /\ open = 0 /\ ~closed /\ asked < Messages
       /\ asked' = asked + 1
       /\ open' = asked'
       /\ UNCHANGED <<sent, kept, closed>>

\* Answered, or stopped by the caller: on the tape and in the history.
Keep == /\ open # 0 /\ ~closed
        /\ sent' = Append(sent, open) /\ kept' = Append(kept, open)
        /\ open' = 0
        /\ UNCHANGED <<asked, closed>>

\* Failed by the server: on the tape, the history unchanged.
Fail == /\ open # 0 /\ ~closed
        /\ sent' = Append(sent, open)
        /\ open' = 0
        /\ UNCHANGED <<asked, kept, closed>>

\* Nothing was sent: the context is full, or the caller gave up first.
Drop == /\ open # 0
        /\ open' = 0
        /\ UNCHANGED <<asked, sent, kept, closed>>

\* A session with an answer outstanding is never closed.
Close == /\ open = 0 /\ ~closed
         /\ closed' = TRUE
         /\ UNCHANGED <<asked, open, sent, kept>>

Next == Ask \/ Keep \/ Fail \/ Drop \/ Close
Spec == Init /\ [][Next]_vars
=============================================================================
