---------------------------- MODULE MailTransport ----------------------------
(***************************************************************************)
(* What MailfsService may expect of its transport (IMailTransport): while   *)
(* an operation works in a mailbox, each command it gives is run by the     *)
(* server in that mailbox, perhaps several times and perhaps without the    *)
(* service learning of it, but not more often than the retries allow; and   *)
(* a call that returns has seen its last command run.                       *)
(***************************************************************************)
EXTENDS Naturals

CONSTANTS
    Mailboxes,
    NoMailbox,
    Retries,      \* of a command whose reply was lost
    BusyRetries   \* of a command the server was too busy for

VARIABLES
    mailbox,      \* the mailbox of the service's operation, once it is selected
    command,      \* the command given and not yet finished, or NoCommand
    ran           \* command, mailbox -> runs on the server during the last call

vars == <<mailbox, command, ran>>

NoCommand == "none"
Commands == {"UID SEARCH", "UID FETCH", "UID STORE", "EXPUNGE", "APPEND"}
Given == Commands \ {"EXPUNGE"}
MayBeBusy == {"UID STORE", "EXPUNGE", "APPEND"}

MaxRuns(c) == IF c \in MayBeBusy THEN Retries * (BusyRetries + 1) + 1 ELSE Retries + 1

NothingRan == [c \in Commands |-> [m \in Mailboxes |-> 0]]

(* delete_message_by_uid is one call and two commands. *)
After(c) == IF c = "UID STORE" THEN "EXPUNGE" ELSE NoCommand

Init ==
    /\ mailbox = NoMailbox
    /\ command = NoCommand
    /\ ran = NothingRan

Begin(m) ==
    /\ mailbox = NoMailbox
    /\ mailbox' = m
    /\ UNCHANGED <<command, ran>>

Give(c) ==
    /\ mailbox # NoMailbox /\ command = NoCommand
    /\ command' = c
    /\ ran' = NothingRan
    /\ UNCHANGED mailbox

Run ==
    /\ command # NoCommand
    /\ ran[command][mailbox] < MaxRuns(command)
    /\ ran' = [ran EXCEPT ![command][mailbox] = @ + 1]

(* The operation is over: its calls are done, or one of them threw. *)
Over == mailbox' = NoMailbox /\ command' = NoCommand

Unheard == Run /\ (UNCHANGED <<mailbox, command>> \/ Over)

Answered == Run /\ command' = After(command) /\ UNCHANGED mailbox

End == mailbox # NoMailbox /\ Over /\ UNCHANGED ran

Next ==
    \/ \E m \in Mailboxes : Begin(m)
    \/ \E c \in Given : Give(c)
    \/ Unheard \/ Answered \/ End

Spec == Init /\ [][Next]_vars
=============================================================================
