------------------------------ MODULE ImapClient ------------------------------
(***************************************************************************)
(* The IMAP client under MailfsService: the session with the server, the    *)
(* selected mailbox, and the retries.  execute calls itself: a command      *)
(* whose connection fails reconnects, the reconnect selects the mailbox     *)
(* again, and that takes two commands that may fail in turn.  `stack' holds *)
(* these calls; those below the top wait in reconnect_after_connection_     *)
(* failure.                                                                 *)
(*                                                                         *)
(* One action is one round trip, or one new session.  An exception leaves   *)
(* every call on the stack, since those below the top are in their catch    *)
(* handler already.                                                         *)
(***************************************************************************)
EXTENDS Naturals, Sequences, SequencesExt

CONSTANTS
    Mailboxes,
    NoMailbox,
    Retries,       \* kMaxRetries of connect and of execute
    BusyRetries,   \* kMaxBusyRetries
    MaxLosses      \* connections that break and answers that come too late: a
                   \* bound on the runs, not of the code

ASSUME RetriesAssumption == Retries \in Nat /\ BusyRetries \in Nat
ASSUME LossesAssumption == MaxLosses \in Nat
ASSUME MailboxAssumption == NoMailbox \notin Mailboxes

VARIABLES
    session,            \* the socket: "closed", "broken", "open", or "in" after LOGIN
    open,               \* the mailbox the server has open in this session
    selected_mailbox_,
    connected_,         \* of MailfsService
    asked,              \* the mailbox of the service's operation
    stack,              \* the calls of execute, the innermost last
    busy,               \* attempt of the loop around execute that waits for a busy server
    ran,                \* command, mailbox -> runs on the server during the last call
    losses              \* connections that broke, answers that came too late

client == <<selected_mailbox_, connected_, asked, stack, busy>>
vars == <<session, open, client, ran, losses>>

(* Commands that work on the open mailbox, and those that are tried again   *)
(* after NO System busy.                                                    *)
InMailbox == {"UID SEARCH", "UID FETCH", "UID STORE", "EXPUNGE"}
Counted == InMailbox \cup {"APPEND"}
MayBeBusy == {"UID STORE", "EXPUNGE", "APPEND"}
Commands == Counted \cup {"LIST", "SELECT", "LOGOUT"}

NothingRan == [c \in Counted |-> [m \in Mailboxes |-> 0]]

Call(c, m) == [cmd |-> c, mailbox |-> m, attempt |-> 0, at |-> "send"]

Top == stack[Len(stack)]
Running == stack # <<>>
Sending == Running /\ Top.at = "send" /\ Top.cmd # "CONNECT"
Replace(c) == [stack EXCEPT ![Len(stack)] = c]

Init ==
    /\ session = "closed"
    /\ open = NoMailbox
    /\ selected_mailbox_ = NoMailbox
    /\ connected_ = FALSE
    /\ asked = NoMailbox
    /\ stack = <<>>
    /\ busy = 0
    /\ ran = NothingRan
    /\ losses = 0

-----------------------------------------------------------------------------
(* The service: an operation asks for a connection and its mailbox, gives   *)
(* commands and is done.                                                    *)

(* ensure_mailbox_selected, or list_mailboxes where there is no mailbox.    *)
EnsureMailboxSelected(m) ==
    /\ ~Running /\ asked = NoMailbox
    /\ asked' = m
    /\ stack' = <<Call(IF connected_ THEN "LIST" ELSE "CONNECT", m)>>
    /\ selected_mailbox_' = IF connected_ THEN selected_mailbox_ ELSE NoMailbox
    /\ UNCHANGED <<session, open, connected_, busy, ran, losses>>

Command(c) ==
    /\ ~Running /\ asked # NoMailbox
    /\ stack' = <<Call(c, asked)>>
    /\ busy' = 0
    /\ ran' = NothingRan
    /\ UNCHANGED <<session, open, selected_mailbox_, connected_, asked, losses>>

Done ==
    /\ ~Running /\ asked # NoMailbox
    /\ asked' = NoMailbox
    /\ UNCHANGED <<session, open, selected_mailbox_, connected_, stack, busy, ran, losses>>

Disconnect ==
    /\ ~Running /\ asked = NoMailbox
    /\ session # "closed"
    /\ stack' = <<Call("LOGOUT", NoMailbox)>>
    /\ UNCHANGED <<session, open, selected_mailbox_, connected_, asked, busy, ran, losses>>

-----------------------------------------------------------------------------
(* How a call of the client ends, or goes on.  The session is s from now on. *)

Session(s) ==
    /\ session' = s
    /\ open' = IF s = session THEN open ELSE NoMailbox

(* The end of disconnect, whatever became of LOGOUT. *)
Close ==
    /\ Session("closed")
    /\ selected_mailbox_' = NoMailbox
    /\ connected_' = FALSE
    /\ stack' = <<>>
    /\ UNCHANGED <<asked, busy>>

(* An exception that nobody retries: the service's operation ends, too.  A  *)
(* SELECT that was refused has closed the mailbox on the server.            *)
Throw(s) ==
    IF stack[1].cmd = "LOGOUT" THEN Close
    ELSE /\ session' = s
         /\ open' = IF s = session /\ Top.cmd # "SELECT" THEN open ELSE NoMailbox
         /\ stack' = <<>>
         /\ asked' = NoMailbox
         /\ busy' = 0
         /\ UNCHANGED <<selected_mailbox_, connected_>>

(* Mutant: one more attempt. *)
RetryOnceMore ==
    IF Top.attempt > Retries THEN Throw("broken")
    ELSE /\ Session("broken")
         /\ stack' = Replace([Top EXCEPT !.at = "reopen"])
         /\ UNCHANGED <<selected_mailbox_, connected_, asked, busy>>

(* The catch handler of execute: a failed connection is worth a new one     *)
(* until the attempts of this call are used up.                             *)
Retry ==
    IF Top.attempt >= Retries THEN Throw("broken")
    ELSE /\ Session("broken")
         /\ stack' = Replace([Top EXCEPT !.at = "reopen"])
         /\ UNCHANGED <<selected_mailbox_, connected_, asked, busy>>

(* The read of the last attempt times out: the exception leaves the socket  *)
(* open, and the server works on in the session.  Its late answer has an    *)
(* older tag: later commands read past it and take it for no status.  (An   *)
(* APPEND that timed out before the server asked for its mail leaves a      *)
(* session that answers nothing more; that is "broken", as Retry has it.)   *)
TooLate ==
    /\ Top.attempt >= Retries /\ stack[1].cmd # "LOGOUT"
    /\ open' = IF Top.cmd = "SELECT" THEN Top.mailbox ELSE open
    /\ stack' = <<>>
    /\ asked' = NoMailbox
    /\ busy' = 0
    /\ UNCHANGED <<session, selected_mailbox_, connected_>>

(* The loop of execute goes round: the command is sent again. *)
NextAttempt(c) ==
    [cmd |-> c.cmd, mailbox |-> c.mailbox, attempt |-> c.attempt + 1, at |-> "send"]
Again(s) == [s EXCEPT ![Len(s)] = NextAttempt(@)]

(* Mutant: what was selected is not recorded. *)
SelectedForgotten ==
    /\ UNCHANGED selected_mailbox_
    /\ stack' = IF Len(stack) = 1 THEN <<>> ELSE Again(Front(stack))

(* SELECT is done: select_mailbox returns, or the reconnect does and the    *)
(* command under it is sent again.                                          *)
Selected ==
    /\ selected_mailbox_' = Top.mailbox
    /\ stack' = IF Len(stack) = 1 THEN <<>> ELSE Again(Front(stack))

-----------------------------------------------------------------------------
(* execute_once: the command goes out and the tagged answer comes in, or    *)
(* the connection fails.                                                    *)

(* The server works on the open mailbox, or on the one that APPEND names.   *)
Place == IF Top.cmd = "APPEND" THEN Top.mailbox ELSE open

Serve ==
    /\ session = "in"
    /\ Top.cmd \in InMailbox => open # NoMailbox
    /\ ran' = IF Top.cmd \in Counted THEN [ran EXCEPT ![Top.cmd][Place] = @ + 1] ELSE ran

Ok == Sending /\ Serve /\ UNCHANGED losses

(* select_mailbox_once: LIST gives the server's name for the mailbox. *)
ListOk ==
    /\ Ok /\ Top.cmd = "LIST" /\ Top.mailbox # NoMailbox
    /\ stack' = Replace(Call("SELECT", Top.mailbox))
    /\ UNCHANGED <<session, open, selected_mailbox_, connected_, asked, busy>>

SelectOk ==
    /\ Ok /\ Top.cmd = "SELECT"
    /\ open' = Top.mailbox
    /\ Selected
    /\ UNCHANGED <<session, connected_, asked, busy>>

(* delete_message_by_uid goes on with EXPUNGE. *)
StoreOk ==
    /\ Ok /\ Top.cmd = "UID STORE"
    /\ stack' = <<Call("EXPUNGE", asked)>>
    /\ busy' = 0
    /\ UNCHANGED <<session, open, selected_mailbox_, connected_, asked>>

LogoutOk == Ok /\ Top.cmd = "LOGOUT" /\ Close

(* The call returns to the service. *)
CallOk ==
    /\ Ok
    /\ \/ Top.cmd \in Counted \ {"UID STORE"}
       \/ Top.cmd = "LIST" /\ Top.mailbox = NoMailbox
    /\ stack' = <<>>
    /\ UNCHANGED <<session, open, selected_mailbox_, connected_, asked, busy>>

(* NO or BAD: ensure_ok throws. *)
No ==
    /\ Sending /\ session \in {"open", "in"}
    /\ Throw(session)
    /\ UNCHANGED <<ran, losses>>

(* Mutant: after the last attempt the answer is not looked at. *)
SystemBusyIgnored ==
    /\ Sending /\ session = "in"
    /\ Top.cmd \in MayBeBusy
    /\ IF busy >= BusyRetries
       THEN /\ stack' = IF Top.cmd = "UID STORE" THEN <<Call("EXPUNGE", asked)>> ELSE <<>>
            /\ busy' = 0
       ELSE /\ busy' = busy + 1
            /\ stack' = <<Call(Top.cmd, asked)>>
    /\ UNCHANGED <<session, open, selected_mailbox_, connected_, asked, ran, losses>>

(* Mutant: the last attempt starts the count anew. *)
SystemBusyForever ==
    /\ Sending /\ session = "in"
    /\ Top.cmd \in MayBeBusy
    /\ busy' = (busy + 1) % (BusyRetries + 1)
    /\ stack' = <<Call(Top.cmd, asked)>>
    /\ UNCHANGED <<session, open, selected_mailbox_, connected_, asked, ran, losses>>

(* NO System busy: another call of execute, so with fresh attempts. *)
SystemBusy ==
    /\ Sending /\ session = "in"
    /\ Top.cmd \in MayBeBusy
    /\ IF busy >= BusyRetries THEN Throw(session)
       ELSE /\ busy' = busy + 1
            /\ stack' = <<Call(Top.cmd, asked)>>
            /\ UNCHANGED <<session, open, selected_mailbox_, connected_, asked>>
    /\ UNCHANGED <<ran, losses>>

(* The server did it, but its answer is lost or too late. *)
Unheard ==
    /\ Sending /\ Serve
    /\ losses < MaxLosses /\ losses' = losses + 1
    /\ Retry \/ TooLate

(* The connection was broken before the command arrived. *)
Unsent ==
    /\ Sending /\ session \in {"closed", "broken"}
    /\ Retry
    /\ UNCHANGED <<ran, losses>>

-----------------------------------------------------------------------------
(* connect and reconnect_after_connection_failure: a new session. *)

Lost == losses < MaxLosses /\ losses' = losses + 1

(* connect: every failure closes the socket; a greeting or a LOGIN that is  *)
(* refused, or a CA file that cannot be read, is not tried again.           *)
Connect ==
    /\ Running /\ Top.cmd = "CONNECT"
    /\ \/ /\ Session("in")
          /\ connected_' = TRUE
          /\ stack' = <<Call("LIST", asked)>>
          /\ UNCHANGED <<selected_mailbox_, asked, busy, losses>>
       \/ /\ Lost
          /\ IF Top.attempt >= Retries THEN Throw("closed")
             ELSE /\ Session("closed")
                  /\ stack' = Again(stack)
                  /\ UNCHANGED <<selected_mailbox_, connected_, asked, busy>>
       \/ /\ Throw("closed")
          /\ UNCHANGED losses
    /\ UNCHANGED ran

(* The new session selects what the old one had selected; a failure here    *)
(* leaves the socket as it is: broken, open but not logged in, or logged in *)
(* by a LOGIN whose answer is too late.                                     *)
Reconnect ==
    /\ Running /\ Top.at = "reopen"
    /\ \/ /\ Session("in")
          /\ stack' = IF selected_mailbox_ = NoMailbox THEN Again(stack)
                      ELSE Append(stack, Call("LIST", selected_mailbox_))
          /\ UNCHANGED <<selected_mailbox_, connected_, asked, busy, losses>>
       \/ Lost /\ (Throw("broken") \/ Throw("in"))
       \/ Throw("open") /\ UNCHANGED losses
    /\ UNCHANGED ran

(* The server or the network ends the session. *)
Drop ==
    /\ session \in {"open", "in"}
    /\ Lost
    /\ Session("broken")
    /\ UNCHANGED <<client, ran>>

-----------------------------------------------------------------------------
Step ==
    \/ ListOk \/ SelectOk \/ StoreOk \/ LogoutOk \/ CallOk
    \/ No \/ SystemBusy \/ Unheard \/ Unsent \/ Connect \/ Reconnect

Next ==
    \/ \E m \in Mailboxes \cup {NoMailbox} : EnsureMailboxSelected(m)
    \/ \E c \in Counted \ {"EXPUNGE"} : Command(c)
    \/ Done \/ Disconnect
    \/ Step
    \/ Drop

Spec == Init /\ [][Next]_vars

(* A round trip ends: TLS reads time out, the sleeps are three seconds. *)
FairSpec == Spec /\ WF_vars(Step)

-----------------------------------------------------------------------------
Calls == [cmd : Commands \cup {"CONNECT"}, mailbox : Mailboxes \cup {NoMailbox},
          attempt : 0..Retries, at : {"send", "reopen"}]

(* Every variable has its type, and no call makes an attempt too many. *)
TypeOK ==
    /\ session \in {"closed", "broken", "open", "in"}
    /\ open \in Mailboxes \cup {NoMailbox}
    /\ selected_mailbox_ \in Mailboxes \cup {NoMailbox}
    /\ connected_ \in BOOLEAN
    /\ asked \in Mailboxes \cup {NoMailbox}
    /\ stack \in Seq(Calls)
    /\ busy \in 0..BusyRetries
    /\ ran \in [Counted -> [Mailboxes -> Nat]]
    /\ losses \in 0..MaxLosses

(* However often the client reconnected in between, and whatever was        *)
(* selected before: a command that works on the open mailbox goes only to   *)
(* a server that has the mailbox of the service's operation open.           *)
RightMailbox ==
    Sending /\ session = "in" /\ Top.cmd \in InMailbox => open = asked

(* To the service the client is a MailTransport: commands run where they    *)
(* should, not too often, and a call that returns has happened.             *)
Selecting == Running /\ stack[1].cmd \notin Counted

Transport == INSTANCE MailTransport WITH
    mailbox <- IF Selecting THEN NoMailbox ELSE asked,
    command <- IF Running /\ ~Selecting THEN stack[1].cmd ELSE "none"

ImplementsMailTransport == Transport!Spec

(* Connections break only so often; then every call of the client comes to  *)
(* its end, whatever answers the server gives.                              *)
CallsEnd == Running ~> ~Running
=============================================================================
