--------------------------- MODULE ImapClientProofs ---------------------------
(***************************************************************************)
(* Proofs about ImapClient for any mailboxes, numbers of retries and number *)
(* of broken connections.                                                   *)
(***************************************************************************)
EXTENDS ImapClient, SequenceTheorems, TLAPS

MailboxOrNone == Mailboxes \cup {NoMailbox}

(* Above the bottom of the stack there are only the two commands of a       *)
(* reconnect that selects a mailbox, and the calls below them wait.         *)
StackInv ==
    /\ \A i \in 1..Len(stack) : i # Len(stack) => stack[i].at = "reopen"
    /\ \A i \in 1..Len(stack) : stack[i].at = "reopen" => stack[i].attempt < Retries
    /\ \A i \in 2..Len(stack) :
         /\ stack[i].cmd \in {"LIST", "SELECT"}
         /\ stack[i].mailbox = selected_mailbox_
         /\ selected_mailbox_ # NoMailbox

(* What the bottom call says of the service's operation. *)
BottomInv ==
    /\ Running =>
         /\ stack[1].cmd = "LOGOUT" => asked = NoMailbox
         /\ stack[1].cmd # "LOGOUT" => stack[1].mailbox = asked
         /\ stack[1].cmd = "CONNECT" => Len(stack) = 1 /\ stack[1].at = "send"
         /\ stack[1].cmd \in Counted => asked # NoMailbox /\ asked = selected_mailbox_
         /\ stack[1].cmd = "SELECT" => asked # NoMailbox
    /\ ~Running /\ asked # NoMailbox => asked = selected_mailbox_

(* Where a command of the service is next, its mailbox is open. *)
ReadyInv ==
    session = "in" /\ asked # NoMailbox /\ (Running => Top.cmd \in Counted /\ Top.at = "send")
      => open = asked

SafetyInv == TypeOK /\ StackInv /\ BottomInv /\ ReadyInv

(* How often the server can have run the command of the service so far. *)
CountInv ==
    Running /\ stack[1].cmd \in Counted =>
        /\ stack[1].cmd \notin MayBeBusy => busy = 0
        /\ stack[1].at = "send" =>
             ran[stack[1].cmd][asked] <= busy * Retries + stack[1].attempt
        /\ stack[1].at = "reopen" =>
             ran[stack[1].cmd][asked] <= busy * Retries + stack[1].attempt + 1
        /\ stack[1].cmd = "UID STORE" => ran["EXPUNGE"][asked] = 0

IInv == SafetyInv /\ CountInv

-----------------------------------------------------------------------------
(* Operators on the stack. *)

LEMMA CallLemma ==
    ASSUME NEW c \in Commands \cup {"CONNECT"}, NEW m \in MailboxOrNone
    PROVE  Call(c, m) \in Calls
BY RetriesAssumption DEF Call, Calls, MailboxOrNone

LEMMA SingleLemma ==
    ASSUME NEW c \in Calls
    PROVE  <<c>> \in Seq(Calls) /\ Len(<<c>>) = 1 /\ <<c>>[1] = c /\ <<c>> # <<>>
OBVIOUS

LEMMA LenLemma ==
    ASSUME NEW s \in Seq(Calls), s # <<>>
    PROVE  Len(s) \in Nat \ {0} /\ s[Len(s)] \in Calls /\ s[1] \in Calls
OBVIOUS

LEMMA ReplaceLemma ==
    ASSUME NEW s \in Seq(Calls), s # <<>>, NEW c \in Calls
    PROVE  LET r == [s EXCEPT ![Len(s)] = c]
           IN  /\ r \in Seq(Calls) /\ Len(r) = Len(s) /\ r # <<>>
               /\ r[Len(s)] = c
               /\ \A i \in 1..Len(s) : i # Len(s) => r[i] = s[i]
OBVIOUS

LEMMA NextAttemptLemma ==
    ASSUME NEW c \in Calls, c.attempt < Retries
    PROVE  /\ NextAttempt(c) \in Calls
           /\ NextAttempt(c).at = "send" /\ NextAttempt(c).attempt = c.attempt + 1
           /\ NextAttempt(c).cmd = c.cmd /\ NextAttempt(c).mailbox = c.mailbox
BY RetriesAssumption DEF Calls, NextAttempt

LEMMA AgainLemma ==
    ASSUME NEW s \in Seq(Calls), s # <<>>, s[Len(s)].attempt < Retries
    PROVE  /\ Again(s) \in Seq(Calls) /\ Len(Again(s)) = Len(s) /\ Again(s) # <<>>
           /\ Again(s)[Len(s)].at = "send"
           /\ Again(s)[Len(s)].cmd = s[Len(s)].cmd
           /\ Again(s)[Len(s)].mailbox = s[Len(s)].mailbox
           /\ Again(s)[Len(s)].attempt = s[Len(s)].attempt + 1
           /\ \A i \in 1..Len(s) : i # Len(s) => Again(s)[i] = s[i]
<1> DEFINE c == NextAttempt(s[Len(s)])
<1>1. s[Len(s)] \in Calls
  BY LenLemma
<1>2. /\ c \in Calls /\ c.at = "send" /\ c.attempt = s[Len(s)].attempt + 1
      /\ c.cmd = s[Len(s)].cmd /\ c.mailbox = s[Len(s)].mailbox
  BY <1>1, NextAttemptLemma
<1>3. Again(s) = [s EXCEPT ![Len(s)] = c]
  BY DEF Again
<1> HIDE DEF c
<1>4. LET r == [s EXCEPT ![Len(s)] = c]
      IN  /\ r \in Seq(Calls) /\ Len(r) = Len(s) /\ r # <<>>
          /\ r[Len(s)] = c
          /\ \A i \in 1..Len(s) : i # Len(s) => r[i] = s[i]
  BY <1>2, ReplaceLemma
<1> QED
  BY <1>2, <1>3, <1>4

LEMMA FrontLemma ==
    ASSUME NEW s \in Seq(Calls), Len(s) > 1
    PROVE  /\ Front(s) \in Seq(Calls) /\ Len(Front(s)) = Len(s) - 1 /\ Front(s) # <<>>
           /\ \A i \in 1..(Len(s) - 1) : Front(s)[i] = s[i]
<1> DEFINE f == SubSeq(s, 1, Len(s) - 1)
<1>1. /\ f \in Seq(Calls)
      /\ Len(f) = IF 1 <= Len(s) - 1 THEN (Len(s) - 1) - 1 + 1 ELSE 0
      /\ \A i \in 1..((Len(s) - 1) - 1 + 1) : f[i] = s[1 + i - 1]
  <2>1. 1 \in Int /\ Len(s) - 1 \in Int /\ \A i \in 1..(Len(s) - 1) : s[i] \in Calls
    OBVIOUS
  <2> QED
    BY ONLY <2>1, SubSeqProperties
<1>2. Front(s) = f
  BY DEF Front
<1> HIDE DEF f
<1>3. Len(s) \in Nat
  OBVIOUS
<1> QED
  BY <1>1, <1>2, <1>3

LEMMA PushLemma ==
    ASSUME NEW s \in Seq(Calls), NEW c \in Calls
    PROVE  /\ Append(s, c) \in Seq(Calls) /\ Len(Append(s, c)) = Len(s) + 1
           /\ Append(s, c) # <<>>
           /\ Append(s, c)[Len(s) + 1] = c
           /\ \A i \in 1..Len(s) : Append(s, c)[i] = s[i]
OBVIOUS

-----------------------------------------------------------------------------
(* The top of the stack. *)

LEMMA TopLemma ==
    ASSUME TypeOK, Running
    PROVE  /\ Top \in Calls /\ stack \in Seq(Calls) /\ Len(stack) \in Nat \ {0}
           /\ 1 \in 1..Len(stack) /\ Len(stack) \in 1..Len(stack)
BY LenLemma DEF TypeOK, Running, Top

(* A command of the service is alone on the stack, and if it can reach the  *)
(* server, the server has its mailbox open.                                 *)
LEMMA CountedLemma ==
    ASSUME SafetyInv, Running, Top.cmd \in Counted
    PROVE  /\ Len(stack) = 1 /\ stack[1] = Top
           /\ asked \in Mailboxes /\ asked = selected_mailbox_ /\ Top.mailbox = asked
           /\ Sending /\ session = "in" => open = asked
<1>1. Len(stack) = 1
  <2>1. SUFFICES ASSUME Len(stack) # 1 PROVE FALSE
    OBVIOUS
  <2>2. Len(stack) \in Nat \ {0}
    BY TopLemma DEF SafetyInv
  <2>3. Len(stack) \in 2..Len(stack)
    <3> DEFINE n == Len(stack)
    <3>1. n \in Nat \ {0} /\ n # 1
      BY <2>1, <2>2
    <3> HIDE DEF n
    <3>2. n \in 2..n
      BY <3>1
    <3> QED
      BY <3>2 DEF n
  <2>4. Top.cmd \in {"LIST", "SELECT"}
    BY <2>3 DEF SafetyInv, StackInv, Top
  <2> QED
    BY <2>4 DEF Counted, InMailbox
<1>2. stack[1] = Top
  BY <1>1 DEF Top
<1>3. Top.cmd # "LOGOUT"
  BY DEF Counted, InMailbox
<1>4. asked # NoMailbox /\ asked = selected_mailbox_ /\ Top.mailbox = asked
  BY <1>2, <1>3 DEF SafetyInv, BottomInv
<1>5. asked \in Mailboxes
  BY <1>4 DEF SafetyInv, TypeOK
<1>6. Sending /\ session = "in" => open = asked
  BY <1>4 DEF SafetyInv, ReadyInv, Sending
<1> QED
  BY <1>1, <1>2, <1>4, <1>5, <1>6

LEMMA ServeLemma ==
    ASSUME SafetyInv, Sending, Serve
    PROVE  /\ ran' \in [Counted -> [Mailboxes -> Nat]]
           /\ Top.cmd \in Counted => ran' = [ran EXCEPT ![Top.cmd][asked] = @ + 1]
           /\ Top.cmd \notin Counted => ran' = ran
<1>1. CASE Top.cmd \in Counted
  <2>1. asked \in Mailboxes /\ Place = asked
    BY <1>1, CountedLemma DEF Place, Serve, Sending
  <2>2. ran' = [ran EXCEPT ![Top.cmd][asked] = @ + 1]
    BY <1>1, <2>1 DEF Serve
  <2>3. ran \in [Counted -> [Mailboxes -> Nat]]
    BY DEF SafetyInv, TypeOK
  <2> QED
    BY <1>1, <2>1, <2>2, <2>3
<1>2. CASE Top.cmd \notin Counted
  BY <1>2 DEF Serve, SafetyInv, TypeOK
<1> QED
  BY <1>1, <1>2

(* What an action does besides counting runs and losses. *)
CountersOK ==
    /\ ran \in [Counted -> [Mailboxes -> Nat]]
    /\ losses \in 0..MaxLosses

LocalOK ==
    /\ session \in {"closed", "broken", "open", "in"}
    /\ open \in MailboxOrNone
    /\ selected_mailbox_ \in MailboxOrNone
    /\ asked \in MailboxOrNone
    /\ stack \in Seq(Calls)
    /\ busy \in 0..BusyRetries

LEMMA TypeLemma == TypeOK <=> LocalOK /\ CountersOK /\ connected_ \in BOOLEAN
BY DEF TypeOK, LocalOK, CountersOK, MailboxOrNone

(* With an empty stack and no operation there is nothing to keep. *)
LEMMA OverLemma ==
    ASSUME stack' = <<>>, asked' = NoMailbox
    PROVE  StackInv' /\ BottomInv' /\ ReadyInv' /\ CountInv'
BY DEF StackInv, BottomInv, ReadyInv, CountInv, Running

LEMMA CloseLemma ==
    ASSUME SafetyInv, Running, stack[1].cmd = "LOGOUT", Close
    PROVE  LocalOK' /\ stack' = <<>> /\ asked' = NoMailbox
BY DEF SafetyInv, TypeOK, BottomInv, Close, Session, LocalOK, MailboxOrNone

LEMMA ThrowLemma ==
    ASSUME SafetyInv, Running, NEW s \in {"closed", "broken", "open", "in"}, Throw(s)
    PROVE  LocalOK' /\ stack' = <<>> /\ asked' = NoMailbox
<1>1. CASE stack[1].cmd = "LOGOUT"
  BY <1>1, CloseLemma DEF Throw
<1>2. CASE stack[1].cmd # "LOGOUT"
  BY <1>2, RetriesAssumption DEF Throw, SafetyInv, TypeOK, LocalOK, MailboxOrNone
<1> QED
  BY <1>1, <1>2

(* An answer that is too late ends the operation, the session stays. *)
LEMMA TooLateLemma ==
    ASSUME SafetyInv, Sending, TooLate
    PROVE  LocalOK' /\ stack' = <<>> /\ asked' = NoMailbox
<1>1. Top \in Calls
  BY TopLemma DEF SafetyInv, Sending
<1>2. Top.mailbox \in MailboxOrNone
  BY <1>1 DEF Calls, MailboxOrNone
<1> QED
  BY <1>2, RetriesAssumption DEF TooLate, SafetyInv, TypeOK, LocalOK, MailboxOrNone

-----------------------------------------------------------------------------
(* What the operators on the stack do to the invariants about it. *)

LEMMA SingleInv ==
    ASSUME NEW c \in Commands \cup {"CONNECT"}, NEW m \in MailboxOrNone, stack' = <<Call(c, m)>>,
           c = "LOGOUT" => asked' = NoMailbox,
           c # "LOGOUT" => m = asked',
           c # "SELECT",
           c \in Counted => asked' # NoMailbox /\ asked' = selected_mailbox_'
    PROVE  stack' \in Seq(Calls) /\ StackInv' /\ BottomInv' /\ Running' /\ Top' = Call(c, m)
<1> DEFINE d == Call(c, m)
<1>1. d \in Calls
  BY CallLemma
<1>2. d.cmd = c /\ d.mailbox = m /\ d.at = "send"
  BY DEF Call
<1>3. stack' = <<d>>
  OBVIOUS
<1> HIDE DEF d
<1>4. stack' \in Seq(Calls) /\ Len(stack') = 1 /\ stack'[1] = d /\ stack' # <<>>
  BY <1>1, <1>3, SingleLemma
<1>5. Running' /\ Top' = d
  BY <1>4 DEF Running, Top
<1>6. StackInv'
  BY <1>2, <1>4 DEF StackInv
<1>7. BottomInv'
  BY <1>2, <1>4, <1>5 DEF BottomInv
<1> QED
  BY <1>4, <1>5, <1>6, <1>7 DEF d

LEMMA ReplaceInv ==
    ASSUME SafetyInv, Running, Top.cmd # "CONNECT", NEW c \in Calls, stack' = Replace(c),
           UNCHANGED <<selected_mailbox_, asked>>,
           c.mailbox = Top.mailbox,
           \/ c.cmd = Top.cmd
           \/ c.cmd = "SELECT" /\ Top.cmd = "LIST" /\ c.mailbox # NoMailbox,
           c.at = "reopen" => c.attempt < Retries
    PROVE  /\ stack' \in Seq(Calls) /\ StackInv' /\ BottomInv' /\ Running' /\ Top' = c
           /\ Len(stack') = Len(stack) /\ (Len(stack) # 1 => stack'[1] = stack[1])
<1> DEFINE n == Len(stack)
<1>1. n \in Nat \ {0} /\ stack \in Seq(Calls) /\ stack # <<>> /\ 1 \in 1..n /\ n \in 1..n
  BY TopLemma DEF SafetyInv, Running
<1>2. /\ stack' \in Seq(Calls) /\ Len(stack') = n /\ stack' # <<>>
      /\ stack'[n] = c
      /\ \A i \in 1..n : i # n => stack'[i] = stack[i]
  BY <1>1, ReplaceLemma DEF Replace
<1>3. stack[n] = Top
  BY DEF Top
<1> HIDE DEF n
<1>4. Running' /\ Top' = c
  BY <1>2 DEF Running, Top
<1>5. n # 1 => stack'[1] = stack[1]
  BY <1>1, <1>2
<1>6. n = Len(stack)
  BY DEF n
<1>7. StackInv'
  <2>1. ASSUME NEW i \in 1..n, i # n
        PROVE  stack'[i].at = "reopen"
    BY <1>2, <1>6, <2>1 DEF SafetyInv, StackInv
  <2>2. ASSUME NEW i \in 1..n, stack'[i].at = "reopen"
        PROVE  stack'[i].attempt < Retries
    BY <1>2, <1>6, <2>2 DEF SafetyInv, StackInv
  <2>3. ASSUME NEW i \in 2..n
        PROVE  /\ stack'[i].cmd \in {"LIST", "SELECT"}
               /\ stack'[i].mailbox = selected_mailbox_'
               /\ selected_mailbox_' # NoMailbox
    BY <1>1, <1>2, <1>3, <1>6 DEF SafetyInv, StackInv
  <2> QED
    BY <1>2, <2>1, <2>2, <2>3 DEF StackInv
<1>8. BottomInv'
  <2>1. CASE n = 1
    BY <1>2, <1>3, <1>4, <2>1 DEF SafetyInv, BottomInv, Counted, InMailbox
  <2>2. CASE n # 1
    BY <1>2, <1>4, <1>5, <1>6, <2>2 DEF SafetyInv, BottomInv
  <2> QED
    BY <2>1, <2>2
<1> QED
  BY <1>2, <1>4, <1>5, <1>6, <1>7, <1>8

(* A reconnect is done and the call under it goes on. *)
LEMMA PopInv ==
    ASSUME SafetyInv, Running, Len(stack) # 1, stack' = Again(Front(stack)),
           UNCHANGED <<selected_mailbox_, asked>>
    PROVE  /\ stack' \in Seq(Calls) /\ StackInv' /\ BottomInv' /\ Running'
           /\ Top'.cmd \in Counted => asked = selected_mailbox_
           /\ Len(stack) = 2 => stack'[1] = NextAttempt(stack[1]) /\ stack[1].at = "reopen"
           /\ Len(stack) # 2 => stack'[1] = stack[1]
<1> DEFINE n == Len(stack)  f == Front(stack)
<1>1. n \in Nat /\ n > 1 /\ stack \in Seq(Calls)
  <2>1. n \in Nat \ {0} /\ n # 1 /\ stack \in Seq(Calls)
    BY TopLemma DEF SafetyInv
  <2> HIDE DEF n
  <2> QED
    BY <2>1
<1>2. /\ f \in Seq(Calls) /\ Len(f) = n - 1 /\ f # <<>>
      /\ \A i \in 1..(n - 1) : f[i] = stack[i]
  BY <1>1, FrontLemma
<1>3. \A i \in 1..(n - 1) : stack[i].at = "reopen" /\ stack[i].attempt < Retries
  BY <1>1 DEF SafetyInv, StackInv
<1>4. n - 1 \in 1..(n - 1) /\ 1 \in 1..(n - 1)
  BY <1>1
<1> HIDE DEF n, f
<1>5. f[Len(f)].attempt < Retries
  BY <1>2, <1>3, <1>4
<1>6. /\ stack' \in Seq(Calls) /\ Len(stack') = n - 1 /\ stack' # <<>>
      /\ stack'[n - 1].at = "send"
      /\ stack'[n - 1].cmd = stack[n - 1].cmd
      /\ stack'[n - 1].mailbox = stack[n - 1].mailbox
      /\ \A i \in 1..(n - 1) : i # n - 1 => stack'[i] = stack[i]
  <2>1. stack' = Again(f)
    BY DEF f
  <2> QED
    BY <1>2, <1>4, <1>5, <2>1, AgainLemma
<1>7. n = Len(stack)
  BY DEF n
<1>8. StackInv'
  <2>1. \A i \in 2..(n - 1) : i \in 2..n /\ i \in 1..(n - 1)
    BY <1>1
  <2>2. ASSUME NEW i \in 1..(n - 1), i # n - 1
        PROVE  stack'[i].at = "reopen"
    BY <1>3, <1>6, <2>2
  <2>3. ASSUME NEW i \in 1..(n - 1), stack'[i].at = "reopen"
        PROVE  stack'[i].attempt < Retries
    BY <1>3, <1>6, <2>3
  <2>4. ASSUME NEW i \in 2..(n - 1)
        PROVE  /\ stack'[i].cmd \in {"LIST", "SELECT"}
               /\ stack'[i].mailbox = selected_mailbox_'
               /\ selected_mailbox_' # NoMailbox
    BY <1>6, <1>7, <2>1, ZenonT(60) DEF SafetyInv, StackInv
  <2> QED
    BY <1>6, <2>2, <2>3, <2>4 DEF StackInv
<1>9. Running' /\ Top' = stack'[n - 1]
  BY <1>6 DEF Running, Top
<1>10. stack'[1].cmd = stack[1].cmd /\ stack'[1].mailbox = stack[1].mailbox
  BY <1>4, <1>6
<1>11. BottomInv'
  <2>1. stack[1].cmd # "CONNECT"
    BY <1>7, <1>1 DEF SafetyInv, BottomInv, Running
  <2> QED
    BY <1>9, <1>10, <2>1 DEF SafetyInv, BottomInv
<1>12. Top'.cmd \in Counted => asked = selected_mailbox_
  <2>1. CASE n = 2
    BY <1>9, <1>10, <2>1 DEF SafetyInv, BottomInv
  <2>2. CASE n # 2
    <3>1. n - 1 \in 2..n
      BY <1>1, <2>2
    <3> QED
      BY <1>6, <1>7, <1>9, <3>1 DEF SafetyInv, StackInv, Counted, InMailbox
  <2> QED
    BY <2>1, <2>2
<1>13. n = 2 => stack'[1] = NextAttempt(stack[1]) /\ stack[1].at = "reopen"
  <2>1. SUFFICES ASSUME n = 2 PROVE stack'[1] = NextAttempt(stack[1])
    BY <1>3, <1>4
  <2>2. stack' = [f EXCEPT ![1] = NextAttempt(f[1])] /\ Len(f) = 1
    BY <1>2, <2>1 DEF Again, f
  <2> QED
    BY <1>2, <1>4, <2>2
<1>14. n # 2 => stack'[1] = stack[1]
  BY <1>1, <1>4, <1>6
<1> QED
  BY <1>6, <1>7, <1>8, <1>9, <1>11, <1>12, <1>13, <1>14

(* A reconnect selects the mailbox again. *)
LEMMA PushInv ==
    ASSUME SafetyInv, Running, Top.at = "reopen", selected_mailbox_ # NoMailbox,
           stack' = Append(stack, Call("LIST", selected_mailbox_)),
           UNCHANGED <<selected_mailbox_, asked>>
    PROVE  /\ stack' \in Seq(Calls) /\ StackInv' /\ BottomInv' /\ Running'
           /\ Top'.cmd = "LIST" /\ stack'[1] = stack[1]
<1> DEFINE n == Len(stack)  c == Call("LIST", selected_mailbox_)
<1>1. n \in Nat \ {0} /\ stack \in Seq(Calls) /\ 1 \in 1..n
  BY TopLemma DEF SafetyInv
<1>2. c \in Calls /\ c.cmd = "LIST" /\ c.mailbox = selected_mailbox_ /\ c.at = "send"
  <2>1. selected_mailbox_ \in MailboxOrNone
    BY DEF SafetyInv, TypeOK, MailboxOrNone
  <2> QED
    BY <2>1, CallLemma DEF Call, Commands
<1>3. stack' = Append(stack, c)
  OBVIOUS
<1>4. n = Len(stack) /\ Top = stack[n]
  BY DEF Top
<1> HIDE DEF n, c
<1>5. /\ stack' \in Seq(Calls) /\ Len(stack') = n + 1 /\ stack' # <<>>
      /\ stack'[n + 1] = c
      /\ \A i \in 1..n : stack'[i] = stack[i]
  BY <1>1, <1>2, <1>3, <1>4, PushLemma
<1>6. StackInv'
  <2>1. ASSUME NEW i \in 1..(n + 1), i # n + 1
        PROVE  stack'[i].at = "reopen" /\ i \in 1..n
    <3>1. i \in 1..n
      BY <1>1, <2>1
    <3> QED
      BY <1>4, <1>5, <3>1 DEF SafetyInv, StackInv
  <2>2. ASSUME NEW i \in 1..(n + 1), stack'[i].at = "reopen"
        PROVE  stack'[i].attempt < Retries
    <3>1. i # n + 1
      BY <1>2, <1>5, <2>2
    <3> QED
      BY <1>4, <1>5, <2>1, <2>2, <3>1 DEF SafetyInv, StackInv
  <2>3. ASSUME NEW i \in 2..(n + 1)
        PROVE  /\ stack'[i].cmd \in {"LIST", "SELECT"}
               /\ stack'[i].mailbox = selected_mailbox_'
               /\ selected_mailbox_' # NoMailbox
    <3>1. CASE i = n + 1
      BY <1>2, <1>5, <3>1
    <3>2. CASE i # n + 1
      <4>1. i \in 2..n /\ i \in 1..n
        BY <1>1, <3>2
      <4> QED
        BY <1>4, <1>5, <4>1 DEF SafetyInv, StackInv
    <3> QED
      BY <3>1, <3>2
  <2> QED
    BY <1>5, <2>1, <2>2, <2>3 DEF StackInv
<1>7. Running' /\ Top' = c /\ stack'[1] = stack[1]
  BY <1>1, <1>5 DEF Running, Top
<1>8. BottomInv'
  <2>1. stack[1].cmd # "CONNECT"
    BY <1>1, <1>4 DEF SafetyInv, BottomInv
  <2> QED
    BY <1>7, <2>1 DEF SafetyInv, BottomInv
<1> QED
  BY <1>2, <1>5, <1>6, <1>7, <1>8

-----------------------------------------------------------------------------
(* The steps. *)

LEMMA RetryLemma ==
    ASSUME IInv, Sending, Retry,
           Top.cmd \in Counted =>
             \/ UNCHANGED ran
             \/ ran' = [ran EXCEPT ![Top.cmd][asked] = @ + 1],
           Top.cmd \notin Counted => UNCHANGED ran
    PROVE  LocalOK' /\ StackInv' /\ BottomInv' /\ ReadyInv' /\ CountInv'
<1>1. SafetyInv /\ CountInv /\ Running /\ Top.cmd # "CONNECT"
  BY DEF IInv, Sending
<1>2. CASE Top.attempt >= Retries
  <2>1. Throw("broken")
    BY <1>2 DEF Retry
  <2> QED
    BY <1>1, <2>1, ThrowLemma, OverLemma
<1>3. CASE ~(Top.attempt >= Retries)
  <2> DEFINE c == [Top EXCEPT !.at = "reopen"]
  <2>1. /\ Session("broken")
        /\ stack' = Replace(c)
        /\ UNCHANGED <<selected_mailbox_, connected_, asked, busy>>
    BY <1>3 DEF Retry
  <2>2. /\ Top \in Calls /\ c \in Calls /\ c.cmd = Top.cmd /\ c.mailbox = Top.mailbox
        /\ c.attempt = Top.attempt /\ c.at = "reopen" /\ c.attempt < Retries
    BY <1>1, <1>3, TopLemma, RetriesAssumption DEF Calls, SafetyInv
  <2> HIDE DEF c
  <2>3. /\ stack' \in Seq(Calls) /\ StackInv' /\ BottomInv' /\ Running' /\ Top' = c
        /\ Len(stack') = Len(stack) /\ (Len(stack) # 1 => stack'[1] = stack[1])
    BY <1>1, <2>1, <2>2, ReplaceInv
  <2>4. LocalOK'
    BY <1>1, <2>1, <2>3 DEF SafetyInv, TypeOK, LocalOK, Session, MailboxOrNone
  <2>5. ReadyInv'
    BY <2>1 DEF Session, ReadyInv
  <2>6. CountInv'
    <3>1. CASE Top.cmd \in Counted
      <4>1. Len(stack) = 1 /\ stack[1] = Top /\ asked \in Mailboxes
        BY <1>1, <3>1, CountedLemma
      <4>2. stack'[1] = c
        BY <2>3, <4>1 DEF Top
      <4>3. /\ Top.cmd \notin MayBeBusy => busy = 0
            /\ ran[Top.cmd][asked] <= busy * Retries + Top.attempt
            /\ Top.cmd = "UID STORE" => ran["EXPUNGE"][asked] = 0
        BY <1>1, <3>1, <4>1 DEF CountInv, Sending
      <4>4. /\ ran'[Top.cmd][asked] <= busy * Retries + Top.attempt + 1
            /\ Top.cmd = "UID STORE" => ran'["EXPUNGE"][asked] = 0
        <5>1. ran \in [Counted -> [Mailboxes -> Nat]] /\ "EXPUNGE" \in Counted
          BY <1>1 DEF SafetyInv, TypeOK, Counted, InMailbox
        <5>2. busy * Retries \in Nat /\ Top.attempt \in Nat
          BY <1>1, <2>2, RetriesAssumption DEF SafetyInv, TypeOK, Calls
        <5> DEFINE b == busy * Retries
        <5> HIDE DEF b
        <5>3. ran[Top.cmd][asked] <= b + Top.attempt /\ b \in Nat
          BY <4>3, <5>2 DEF b
        <5>4. CASE UNCHANGED ran
          <6>1. ran'[Top.cmd][asked] <= b + Top.attempt + 1
            BY <3>1, <4>1, <5>1, <5>2, <5>3, <5>4
          <6> QED
            BY <4>3, <5>4, <6>1 DEF b
        <5>5. CASE ran' = [ran EXCEPT ![Top.cmd][asked] = @ + 1]
          <6>1. ran'[Top.cmd][asked] = ran[Top.cmd][asked] + 1
            BY <3>1, <4>1, <5>1, <5>5
          <6>2. Top.cmd = "UID STORE" => ran'["EXPUNGE"][asked] = ran["EXPUNGE"][asked]
            BY <3>1, <4>1, <5>1, <5>5
          <6>3. ran'[Top.cmd][asked] <= b + Top.attempt + 1
            BY <3>1, <4>1, <5>1, <5>2, <5>3, <6>1
          <6> QED
            BY <4>3, <6>2, <6>3 DEF b
        <5> QED
          BY <3>1, <5>4, <5>5
      <4> QED
        BY <2>1, <2>2, <4>2, <4>3, <4>4 DEF CountInv
    <3>2. CASE Top.cmd \notin Counted
      <4>1. CASE Len(stack) = 1
        <5>1. stack'[1].cmd = Top.cmd
          BY <2>2, <2>3, <4>1 DEF Top
        <5> QED
          BY <3>2, <5>1 DEF CountInv
      <4>2. CASE Len(stack) # 1
        BY <1>1, <2>1, <2>3, <3>2, <4>2 DEF CountInv
      <4> QED
        BY <4>1, <4>2
    <3> QED
      BY <3>1, <3>2
  <2> QED
    BY <2>3, <2>4, <2>5, <2>6
<1> QED
  BY <1>2, <1>3

LEMMA EnsureMailboxSelectedLemma ==
    ASSUME IInv, NEW m \in MailboxOrNone, EnsureMailboxSelected(m)
    PROVE  LocalOK' /\ StackInv' /\ BottomInv' /\ ReadyInv' /\ CountInv'
<1> DEFINE c == IF connected_ THEN "LIST" ELSE "CONNECT"
<1>1. /\ stack' = <<Call(c, m)>> /\ asked' = m /\ c \in {"LIST", "CONNECT"}
      /\ selected_mailbox_' \in {selected_mailbox_, NoMailbox}
      /\ UNCHANGED <<session, open, connected_, busy, ran, losses>>
  BY DEF EnsureMailboxSelected
<1> HIDE DEF c
<1>2. c \in Commands \cup {"CONNECT"} /\ c \notin Counted /\ c # "LOGOUT" /\ c # "SELECT"
  BY <1>1 DEF Commands, Counted, InMailbox
<1>3. stack' \in Seq(Calls) /\ StackInv' /\ BottomInv' /\ Running' /\ Top' = Call(c, m)
  BY <1>1, <1>2, SingleInv
<1>4. Top'.cmd \notin Counted /\ stack'[1].cmd \notin Counted
  BY <1>1, <1>2, <1>3 DEF Call
<1>5. LocalOK'
  BY <1>1, <1>3 DEF IInv, SafetyInv, TypeOK, LocalOK, MailboxOrNone
<1> QED
  BY <1>3, <1>4, <1>5 DEF ReadyInv, CountInv

LEMMA CommandLemma ==
    ASSUME IInv, NEW c \in Counted \ {"EXPUNGE"}, Command(c)
    PROVE  /\ LocalOK' /\ ran' \in [Counted -> [Mailboxes -> Nat]]
           /\ StackInv' /\ BottomInv' /\ ReadyInv' /\ CountInv'
<1>1. /\ ~Running /\ asked # NoMailbox /\ stack' = <<Call(c, asked)>> /\ busy' = 0 /\ ran' = NothingRan
      /\ UNCHANGED <<session, open, selected_mailbox_, connected_, asked, losses>>
  BY DEF Command
<1>2. asked \in Mailboxes /\ asked = selected_mailbox_ /\ asked \in MailboxOrNone
  BY <1>1 DEF IInv, SafetyInv, TypeOK, BottomInv, MailboxOrNone
<1>3. c \in Commands \cup {"CONNECT"} /\ c # "LOGOUT" /\ c # "SELECT"
  BY DEF Commands, Counted, InMailbox
<1>4. stack' \in Seq(Calls) /\ StackInv' /\ BottomInv' /\ Running' /\ Top' = Call(c, asked)
  BY <1>1, <1>2, <1>3, SingleInv
<1>5. LocalOK'
  BY <1>1, <1>4, RetriesAssumption DEF IInv, SafetyInv, TypeOK, LocalOK, MailboxOrNone
<1>6. ReadyInv'
  BY <1>1 DEF IInv, SafetyInv, ReadyInv
<1>7. ran' \in [Counted -> [Mailboxes -> Nat]]
  BY <1>1 DEF NothingRan
<1>8. CountInv'
  <2>1. stack'[1].cmd = c /\ stack'[1].attempt = 0 /\ stack'[1].at = "send"
    BY <1>1 DEF Call
  <2>2. ran'[c][asked'] = 0 /\ ran'["EXPUNGE"][asked'] = 0
    BY <1>1, <1>2 DEF NothingRan, Counted, InMailbox
  <2>3. busy' * Retries = 0
    BY <1>1, RetriesAssumption
  <2> QED
    BY <1>1, <2>1, <2>2, <2>3 DEF CountInv
<1> QED
  BY <1>4, <1>5, <1>6, <1>7, <1>8

Kept == LocalOK /\ StackInv /\ BottomInv /\ ReadyInv /\ CountInv

LEMMA IdleLemma ==
    ASSUME IInv, Done \/ Disconnect
    PROVE  Kept'
<1>1. CASE Done
  <2>1. stack = <<>> /\ stack' = <<>> /\ asked' = NoMailbox
    BY <1>1 DEF Done, Running
  <2> QED
    BY <1>1, <2>1, OverLemma DEF Done, IInv, SafetyInv, TypeOK, LocalOK, MailboxOrNone, Kept
<1>2. CASE Disconnect
  <2> DEFINE c == "LOGOUT"
  <2>1. /\ stack' = <<Call(c, NoMailbox)>> /\ asked' = NoMailbox
        /\ UNCHANGED <<session, open, selected_mailbox_, connected_, asked, busy, ran, losses>>
    BY <1>2 DEF Disconnect
  <2>2. c \in Commands \cup {"CONNECT"} /\ c \notin Counted /\ c # "SELECT" /\ c = "LOGOUT"
    BY DEF Commands, Counted, InMailbox
  <2>3. NoMailbox \in MailboxOrNone
    BY DEF MailboxOrNone
  <2> HIDE DEF c
  <2>4. stack' \in Seq(Calls) /\ StackInv' /\ BottomInv' /\ Running' /\ Top' = Call(c, NoMailbox)
    BY <2>1, <2>2, <2>3, SingleInv
  <2>5. stack'[1].cmd \notin Counted
    BY <2>1, <2>2 DEF Call
  <2> QED
    BY <2>1, <2>4, <2>5 DEF IInv, SafetyInv, TypeOK, LocalOK, MailboxOrNone, ReadyInv, CountInv, Kept
<1> QED
  BY <1>1, <1>2

LEMMA ListOkLemma ==
    ASSUME IInv, ListOk
    PROVE  Kept'
<1> DEFINE c == Call("SELECT", Top.mailbox)
<1>1. /\ SafetyInv /\ CountInv /\ Running /\ Top.cmd = "LIST" /\ Top.mailbox # NoMailbox
      /\ stack' = Replace(c)
      /\ UNCHANGED <<session, open, selected_mailbox_, connected_, asked, busy, losses>>
  BY DEF ListOk, Ok, Sending, IInv
<1>2. Top.cmd \notin Counted /\ "SELECT" \notin Counted /\ "SELECT" \in Commands
  BY <1>1 DEF Counted, InMailbox, Commands
<1>3. UNCHANGED ran
  BY <1>2 DEF ListOk, Ok, Serve
<1>4. Top.mailbox \in MailboxOrNone
  BY <1>1, TopLemma DEF SafetyInv, Calls, MailboxOrNone
<1>5. c \in Calls /\ c.cmd = "SELECT" /\ c.mailbox = Top.mailbox /\ c.at = "send"
  BY <1>2, <1>4, CallLemma DEF Call
<1> HIDE DEF c
<1>6. /\ stack' \in Seq(Calls) /\ StackInv' /\ BottomInv' /\ Running' /\ Top' = c
      /\ Len(stack') = Len(stack) /\ (Len(stack) # 1 => stack'[1] = stack[1])
  BY <1>1, <1>5, ReplaceInv
<1>7. LocalOK'
  BY <1>1, <1>6 DEF SafetyInv, TypeOK, LocalOK, MailboxOrNone
<1>8. ReadyInv'
  BY <1>2, <1>5, <1>6 DEF ReadyInv
<1>9. CountInv'
  <2>1. CASE Len(stack) = 1
    <3>1. stack'[1].cmd = "SELECT"
      BY <1>5, <1>6, <2>1 DEF Top
    <3> QED
      BY <1>2, <3>1 DEF CountInv
  <2>2. CASE Len(stack) # 1
    BY <1>1, <1>3, <1>6, <2>2 DEF CountInv
  <2> QED
    BY <2>1, <2>2
<1> QED
  BY <1>6, <1>7, <1>8, <1>9 DEF Kept

LEMMA SelectOkLemma ==
    ASSUME IInv, SelectOk
    PROVE  Kept'
<1>1. /\ SafetyInv /\ CountInv /\ Running /\ Top.cmd = "SELECT" /\ open' = Top.mailbox
      /\ selected_mailbox_' = Top.mailbox
      /\ stack' = IF Len(stack) = 1 THEN <<>> ELSE Again(Front(stack))
      /\ UNCHANGED <<session, connected_, asked, busy, losses>>
  BY DEF SelectOk, Selected, Ok, Sending, IInv
<1>2. UNCHANGED ran
  BY <1>1 DEF SelectOk, Ok, Serve, Counted, InMailbox
<1>3. Top.mailbox \in MailboxOrNone
  BY <1>1, TopLemma DEF SafetyInv, Calls, MailboxOrNone
<1>4. CASE Len(stack) = 1
  <2>1. stack' = <<>> /\ Top.mailbox = asked /\ ~Running'
    BY <1>1, <1>4 DEF SafetyInv, BottomInv, Top, Running
  <2>2. StackInv' /\ CountInv'
    BY <2>1 DEF StackInv, CountInv, Running
  <2>3. BottomInv' /\ ReadyInv'
    BY <1>1, <2>1 DEF BottomInv, ReadyInv
  <2>4. stack' \in Seq(Calls)
    BY <2>1
  <2> QED
    BY <1>1, <1>3, <2>2, <2>3, <2>4 DEF SafetyInv, TypeOK, LocalOK, MailboxOrNone, Kept
<1>5. CASE Len(stack) # 1
  <2>1. UNCHANGED selected_mailbox_
    <3> DEFINE n == Len(stack)
    <3>1. n \in Nat \ {0} /\ n # 1
      BY <1>1, <1>5, TopLemma DEF SafetyInv
    <3>2. Top = stack[n] /\ n = Len(stack)
      BY DEF Top
    <3> HIDE DEF n
    <3>3. n \in 2..n
      BY <3>1
    <3> QED
      BY <1>1, <3>2, <3>3 DEF SafetyInv, StackInv
  <2>2. stack' = Again(Front(stack))
    BY <1>1, <1>5
  <2>3. /\ stack' \in Seq(Calls) /\ StackInv' /\ BottomInv' /\ Running'
        /\ Top'.cmd \in Counted => asked = selected_mailbox_
        /\ Len(stack) = 2 => stack'[1] = NextAttempt(stack[1]) /\ stack[1].at = "reopen"
        /\ Len(stack) # 2 => stack'[1] = stack[1]
    BY <1>1, <1>5, <2>1, <2>2, PopInv
  <2>4. LocalOK'
    BY <1>1, <1>3, <2>3 DEF SafetyInv, TypeOK, LocalOK, MailboxOrNone
  <2>5. ReadyInv'
    BY <1>1, <2>1, <2>3 DEF ReadyInv
  <2>6. CountInv'
    <3>1. CASE Len(stack) = 2
      <4>1. SUFFICES ASSUME stack'[1].cmd \in Counted PROVE CountInv'
        BY DEF CountInv
      <4>2. /\ stack'[1].cmd = stack[1].cmd /\ stack'[1].attempt = stack[1].attempt + 1
            /\ stack'[1].at = "send" /\ stack[1].at = "reopen"
        BY <2>3, <3>1 DEF NextAttempt
      <4>3. /\ stack[1].cmd \notin MayBeBusy => busy = 0
            /\ ran[stack[1].cmd][asked] <= busy * Retries + stack[1].attempt + 1
            /\ stack[1].cmd = "UID STORE" => ran["EXPUNGE"][asked] = 0
        BY <1>1, <4>1, <4>2 DEF CountInv
      <4>4. busy * Retries \in Nat /\ stack[1].attempt \in Nat
        <5>1. stack[1] \in Calls
          BY <1>1, TopLemma DEF SafetyInv, TypeOK
        <5>2. busy \in Nat /\ Retries \in Nat
          BY <1>1, RetriesAssumption DEF SafetyInv, TypeOK
        <5> QED
          BY <5>1, <5>2 DEF Calls
      <4>5. busy * Retries + stack[1].attempt + 1 = busy * Retries + (stack[1].attempt + 1)
        <5> DEFINE b == busy * Retries  a == stack[1].attempt
        <5>1. b \in Nat /\ a \in Nat
          BY <4>4
        <5> HIDE DEF a, b
        <5>2. b + a + 1 = b + (a + 1)
          BY <5>1
        <5> QED
          BY <5>2 DEF a, b
      <4> QED
        BY <1>1, <1>2, <4>2, <4>3, <4>5 DEF CountInv
    <3>2. CASE Len(stack) # 2
      BY <1>1, <1>2, <2>3, <3>2 DEF CountInv
    <3> QED
      BY <3>1, <3>2
  <2> QED
    BY <2>3, <2>4, <2>5, <2>6 DEF Kept
<1> QED
  BY <1>4, <1>5

LEMMA StoreOkLemma ==
    ASSUME IInv, StoreOk
    PROVE  Kept'
<1> DEFINE c == "EXPUNGE"
<1>1. SafetyInv /\ CountInv /\ Running /\ Sending /\ Serve /\ Top.cmd = "UID STORE"
  BY DEF StoreOk, Ok, Sending, IInv
<1>2. /\ stack' = <<Call(c, asked)>>
      /\ UNCHANGED <<session, open, selected_mailbox_, connected_, asked, losses>>
  BY DEF StoreOk, Ok
<1>3. busy' = 0
  BY DEF StoreOk
<1>4. "UID STORE" \in Counted /\ c \in Counted /\ c \in Commands
  BY DEF Counted, InMailbox, Commands
<1>5. /\ Len(stack) = 1 /\ stack[1] = Top
      /\ asked \in Mailboxes /\ asked = selected_mailbox_ /\ Top.mailbox = asked
      /\ Sending /\ session = "in" => open = asked
  BY <1>1, <1>4, CountedLemma
<1>6. ran["EXPUNGE"][asked] = 0
  BY <1>1, <1>4, <1>5 DEF CountInv
<1>7. ran' = [ran EXCEPT !["UID STORE"][asked] = @ + 1]
  BY <1>1, <1>4, ServeLemma
<1>8. ran \in [Counted -> [Mailboxes -> Nat]]
  BY <1>1 DEF SafetyInv, TypeOK
<1>9. ran'["EXPUNGE"][asked] = 0
  BY <1>4, <1>5, <1>6, <1>7, <1>8
<1>10. c # "LOGOUT" /\ c # "SELECT" /\ asked \in MailboxOrNone /\ asked # NoMailbox /\ c = "EXPUNGE"
  BY <1>5, MailboxAssumption DEF MailboxOrNone
<1> HIDE DEF c
<1>11. stack' \in Seq(Calls) /\ StackInv' /\ BottomInv' /\ Running' /\ Top' = Call(c, asked)
  BY <1>2, <1>4, <1>5, <1>10, SingleInv
<1>12. LocalOK'
  <2>1. busy' \in 0..BusyRetries
    BY <1>3, RetriesAssumption
  <2>2. TypeOK
    BY <1>1 DEF SafetyInv
  <2> QED
    BY <1>2, <1>11, <2>1, <2>2 DEF TypeOK, LocalOK, MailboxOrNone
<1>13. ReadyInv'
  BY <1>1, <1>2, <1>5 DEF ReadyInv, Serve
<1>14. CountInv'
  <2>1. stack'[1].cmd = "EXPUNGE" /\ stack'[1].attempt = 0 /\ stack'[1].at = "send"
    BY <1>2, <1>10 DEF Call
  <2>2. busy' * Retries = 0
    BY <1>3, RetriesAssumption
  <2> QED
    BY <1>2, <1>3, <1>9, <2>1, <2>2 DEF CountInv, MayBeBusy
<1> QED
  BY <1>11, <1>12, <1>13, <1>14 DEF Kept

LEMMA CallOkLemma ==
    ASSUME IInv, CallOk
    PROVE  Kept'
<1>1. /\ SafetyInv /\ Running /\ Sending /\ Serve /\ stack' = <<>> /\ ~Running'
      /\ Top.cmd \in Counted \/ (Top.cmd = "LIST" /\ Top.mailbox = NoMailbox)
      /\ UNCHANGED <<session, open, selected_mailbox_, connected_, asked, busy, losses>>
  BY DEF CallOk, Ok, Sending, IInv, Running
<1>2. LocalOK' /\ StackInv' /\ CountInv'
  <2>1. stack' \in Seq(Calls)
    BY <1>1
  <2> QED
    BY <1>1, <2>1 DEF SafetyInv, TypeOK, LocalOK, MailboxOrNone, StackInv, CountInv, Running
<1>3. CASE Top.cmd \in Counted
  <2>1. asked = selected_mailbox_ /\ open = asked
    BY <1>1, <1>3, CountedLemma DEF Serve
  <2> QED
    BY <1>1, <1>2, <2>1 DEF BottomInv, ReadyInv, Kept
<1>4. CASE Top.cmd = "LIST" /\ Top.mailbox = NoMailbox
  <2>1. asked = NoMailbox
    <3> DEFINE n == Len(stack)
    <3>1. n \in Nat \ {0} /\ Top = stack[n] /\ n = Len(stack)
      BY <1>1, TopLemma DEF SafetyInv, Top
    <3> HIDE DEF n
    <3>2. n = 1 \/ n \in 2..n
      BY <3>1
    <3> QED
      BY <1>1, <1>4, <3>1, <3>2 DEF SafetyInv, StackInv, BottomInv
  <2> QED
    BY <1>1, <1>2, <2>1 DEF BottomInv, ReadyInv, Kept
<1> QED
  BY <1>1, <1>3, <1>4

LEMMA LogoutOkLemma ==
    ASSUME IInv, LogoutOk
    PROVE  Kept'
<1>1. SafetyInv /\ Running /\ Top.cmd = "LOGOUT" /\ Close
  BY DEF LogoutOk, Ok, Sending, IInv
<1>2. stack[1].cmd = "LOGOUT"
  <2> DEFINE n == Len(stack)
  <2>1. n \in Nat \ {0} /\ Top = stack[n] /\ n = Len(stack)
    BY <1>1, TopLemma DEF SafetyInv, Top
  <2> HIDE DEF n
  <2>2. n = 1 \/ n \in 2..n
    BY <2>1
  <2> QED
    BY <1>1, <2>1, <2>2 DEF SafetyInv, StackInv
<1> QED
  BY <1>1, <1>2, CloseLemma, OverLemma DEF Kept

LEMMA NoLemma ==
    ASSUME IInv, No
    PROVE  Kept'
<1>1. SafetyInv /\ Running /\ Throw(session) /\ session \in {"closed", "broken", "open", "in"}
  BY DEF No, Sending, IInv, SafetyInv, TypeOK
<1> QED
  BY <1>1, ThrowLemma, OverLemma DEF Kept

LEMMA SystemBusyLemma ==
    ASSUME IInv, SystemBusy
    PROVE  Kept'
<1>1. /\ SafetyInv /\ CountInv /\ Running /\ Sending /\ session = "in"
      /\ Top.cmd \in MayBeBusy /\ Top.at = "send" /\ UNCHANGED ran
  BY DEF SystemBusy, Sending, IInv
<1>2. Top.cmd \in Counted /\ Top.cmd # "LOGOUT" /\ Top.cmd # "SELECT" /\ Top.cmd \in Commands
  BY <1>1 DEF MayBeBusy, Counted, InMailbox, Commands
<1>3. CASE busy >= BusyRetries
  <2>1. Throw(session) /\ session \in {"closed", "broken", "open", "in"}
    BY <1>1, <1>3 DEF SystemBusy
  <2> QED
    BY <1>1, <2>1, ThrowLemma, OverLemma DEF Kept
<1>4. CASE ~(busy >= BusyRetries)
  <2> DEFINE c == Top.cmd
  <2>1. /\ stack' = <<Call(c, asked)>>
        /\ UNCHANGED <<session, open, selected_mailbox_, connected_, asked>>
    BY <1>4 DEF SystemBusy
  <2>2. busy' = busy + 1
    BY <1>4 DEF SystemBusy
  <2>3. /\ Len(stack) = 1 /\ stack[1] = Top
        /\ asked \in Mailboxes /\ asked = selected_mailbox_ /\ open = asked
    BY <1>1, <1>2, CountedLemma
  <2>4. /\ c \in Counted /\ c # "LOGOUT" /\ c # "SELECT" /\ c \in Commands
        /\ c \in MayBeBusy /\ c = stack[1].cmd
    BY <1>1, <1>2, <2>3
  <2>5. asked \in MailboxOrNone /\ asked # NoMailbox
    BY <2>3, MailboxAssumption DEF MailboxOrNone
  <2>6. /\ stack[1].at = "send" /\ ran[c][asked] <= busy * Retries + Top.attempt
        /\ c = "UID STORE" => ran["EXPUNGE"][asked] = 0
    BY <1>1, <2>3, <2>4 DEF CountInv
  <2> HIDE DEF c
  <2>7. stack' \in Seq(Calls) /\ StackInv' /\ BottomInv' /\ Running' /\ Top' = Call(c, asked)
    BY <2>1, <2>3, <2>4, <2>5, SingleInv
  <2>8. busy \in Nat /\ Retries \in Nat /\ BusyRetries \in Nat /\ Top.attempt \in 0..Retries
    BY <1>1, RetriesAssumption, TopLemma DEF SafetyInv, TypeOK, Calls
  <2>9. LocalOK'
    <3>1. busy' \in 0..BusyRetries
      BY <1>4, <2>2, <2>8
    <3>2. TypeOK
      BY <1>1 DEF SafetyInv
    <3> QED
      BY <2>1, <2>7, <3>1, <3>2 DEF TypeOK, LocalOK, MailboxOrNone
  <2>10. ReadyInv'
    BY <2>1, <2>3 DEF ReadyInv
  <2>11. CountInv'
    <3>1. stack'[1].cmd = c /\ stack'[1].attempt = 0 /\ stack'[1].at = "send"
      BY <2>1 DEF Call
    <3>2. ran[c][asked] \in Nat
      BY <1>1, <2>3, <2>4 DEF SafetyInv, TypeOK
    <3>3. ran[c][asked] <= (busy + 1) * Retries + 0
      <4> DEFINE b == busy * Retries  r == ran[c][asked]  t == Top.attempt
      <4>1. (busy + 1) * Retries = b + Retries
        BY <2>8
      <4>2. b \in Nat
        BY <2>8
      <4>3. r \in Nat /\ t \in 0..Retries /\ r <= b + t
        BY <2>6, <2>8, <3>2
      <4> HIDE DEF b, r, t
      <4>4. r <= b + Retries + 0
        BY <2>8, <4>2, <4>3
      <4> QED
        BY <4>1, <4>4 DEF r
    <3> QED
      BY <1>1, <2>1, <2>2, <2>4, <2>6, <3>1, <3>3 DEF CountInv
  <2> QED
    BY <2>7, <2>9, <2>10, <2>11 DEF Kept
<1> QED
  BY <1>3, <1>4

(* The connection fails, before or after the server did it. *)
LEMMA FailedLemma ==
    ASSUME IInv, Unheard \/ Unsent
    PROVE  Kept'
<1>1. SafetyInv /\ Sending
  BY DEF Unheard, Unsent, IInv
<1>2. CASE Unheard
  <2>1. Serve /\ (Retry \/ TooLate)
    BY <1>2 DEF Unheard
  <2>2. CASE Retry
    BY <1>1, <2>1, <2>2, ServeLemma, RetryLemma DEF Kept
  <2>3. CASE TooLate
    BY <1>1, <2>3, TooLateLemma, OverLemma DEF Kept
  <2> QED
    BY <2>1, <2>2, <2>3
<1>3. CASE Unsent
  BY <1>1, <1>3, RetryLemma DEF Unsent, Kept
<1> QED
  BY <1>2, <1>3

LEMMA ConnectLemma ==
    ASSUME IInv, Connect
    PROVE  Kept'
<1>1. SafetyInv /\ CountInv /\ Running /\ Top.cmd = "CONNECT" /\ UNCHANGED ran
  BY DEF Connect, IInv
<1>2. Len(stack) = 1 /\ stack[1] = Top /\ Top.at = "send"
  <2> DEFINE n == Len(stack)
  <2>1. n \in Nat \ {0} /\ Top = stack[n] /\ n = Len(stack)
    BY <1>1, TopLemma DEF SafetyInv, Top
  <2> HIDE DEF n
  <2>2. n = 1 \/ n \in 2..n
    BY <2>1
  <2>3. n = 1
    BY <1>1, <2>1, <2>2 DEF SafetyInv, StackInv
  <2> QED
    BY <1>1, <2>1, <2>3 DEF SafetyInv, BottomInv
<1>3. TypeOK /\ stack[1].mailbox = asked /\ asked \in MailboxOrNone /\ stack \in Seq(Calls) /\ stack # <<>>
  BY <1>1, <1>2 DEF SafetyInv, TypeOK, BottomInv, MailboxOrNone, Running
<1>4. ASSUME Throw("closed")
      PROVE  Kept'
  BY <1>1, <1>4, ThrowLemma, OverLemma DEF Kept
<1>5. ASSUME Session("in"), stack' = <<Call("LIST", asked)>>, UNCHANGED <<selected_mailbox_, asked, busy>>
      PROVE  Kept'
  <2> DEFINE c == "LIST"
  <2>1. c \in Commands \cup {"CONNECT"} /\ c \notin Counted /\ c # "LOGOUT" /\ c # "SELECT"
    BY DEF Commands, Counted, InMailbox
  <2>2. stack' = <<Call(c, asked)>>
    BY <1>5
  <2> HIDE DEF c
  <2>3. stack' \in Seq(Calls) /\ StackInv' /\ BottomInv' /\ Running' /\ Top' = Call(c, asked)
    BY <1>3, <1>5, <2>1, <2>2, SingleInv
  <2>4. Top'.cmd \notin Counted /\ stack'[1].cmd \notin Counted
    BY <2>1, <2>2, <2>3 DEF Call
  <2>5. LocalOK'
    BY <1>3, <1>5, <2>3 DEF TypeOK, LocalOK, Session, MailboxOrNone
  <2> QED
    BY <2>3, <2>4, <2>5 DEF ReadyInv, CountInv, Kept
<1>6. ASSUME ~(Top.attempt >= Retries), Session("closed"), stack' = Again(stack),
             UNCHANGED <<selected_mailbox_, connected_, asked, busy>>
      PROVE  Kept'
  <2>1. Top \in Calls /\ Top = stack[Len(stack)]
    BY <1>1, TopLemma DEF SafetyInv, Top
  <2>2. Top.attempt < Retries
    BY <1>6, <2>1, RetriesAssumption DEF Calls
  <2>3. /\ stack' \in Seq(Calls) /\ Len(stack') = 1 /\ stack' # <<>>
        /\ stack'[1].at = "send" /\ stack'[1].cmd = "CONNECT" /\ stack'[1].mailbox = asked
    BY <1>1, <1>2, <1>3, <1>6, <2>1, <2>2, AgainLemma
  <2>4. StackInv'
    BY <2>3 DEF StackInv
  <2>5. BottomInv'
    BY <2>3, <1>6 DEF BottomInv, Running, Counted, InMailbox
  <2>6. ReadyInv'
    BY <1>6 DEF ReadyInv, Session
  <2>7. CountInv'
    BY <2>3 DEF CountInv, Counted, InMailbox
  <2>8. LocalOK'
    BY <1>3, <1>6, <2>3 DEF TypeOK, LocalOK, Session, MailboxOrNone
  <2> QED
    BY <2>4, <2>5, <2>6, <2>7, <2>8 DEF Kept
<1> QED
  BY <1>4, <1>5, <1>6 DEF Connect

LEMMA ReconnectLemma ==
    ASSUME IInv, Reconnect
    PROVE  Kept'
<1>1. SafetyInv /\ CountInv /\ Running /\ Top.at = "reopen" /\ UNCHANGED ran
  BY DEF Reconnect, IInv
<1>2. TypeOK /\ stack \in Seq(Calls) /\ stack # <<>> /\ Top \in Calls /\ Top = stack[Len(stack)]
  BY <1>1, TopLemma DEF SafetyInv, TypeOK, Running, Top
<1>3. ASSUME NEW s \in {"broken", "open", "in"}, Throw(s)
      PROVE  Kept'
  BY <1>1, <1>3, ThrowLemma, OverLemma DEF Kept
<1>4. ASSUME Session("in"), UNCHANGED <<selected_mailbox_, connected_, asked, busy>>,
             selected_mailbox_ # NoMailbox, stack' = Append(stack, Call("LIST", selected_mailbox_))
      PROVE  Kept'
  <2>1. /\ stack' \in Seq(Calls) /\ StackInv' /\ BottomInv' /\ Running'
        /\ Top'.cmd = "LIST" /\ stack'[1] = stack[1]
    BY <1>1, <1>4, PushInv
  <2>2. LocalOK'
    BY <1>2, <1>4, <2>1 DEF TypeOK, LocalOK, Session, MailboxOrNone
  <2>3. ReadyInv'
    BY <2>1 DEF ReadyInv, Counted, InMailbox
  <2>4. CountInv'
    BY <1>1, <1>4, <2>1 DEF CountInv
  <2> QED
    BY <2>1, <2>2, <2>3, <2>4 DEF Kept
<1>5. ASSUME Session("in"), UNCHANGED <<selected_mailbox_, connected_, asked, busy>>,
             selected_mailbox_ = NoMailbox, stack' = Again(stack)
      PROVE  Kept'
  <2>1. Len(stack) = 1
    <3> DEFINE n == Len(stack)
    <3>1. n \in Nat \ {0} /\ n = Len(stack)
      BY <1>1, TopLemma DEF SafetyInv
    <3> HIDE DEF n
    <3>2. n = 1 \/ n \in 2..n
      BY <3>1
    <3> QED
      BY <1>1, <1>5, <3>1, <3>2 DEF SafetyInv, StackInv
  <2>2. Top = stack[1]
    BY <2>1 DEF Top
  <2>3. stack[1].cmd \notin Counted /\ stack[1].cmd # "CONNECT"
    BY <1>1, <1>5, <2>2 DEF SafetyInv, BottomInv
  <2>4. stack[1].attempt < Retries
    BY <1>1, <2>1, <2>2 DEF SafetyInv, StackInv
  <2>5. /\ stack' \in Seq(Calls) /\ Len(stack') = 1 /\ stack' # <<>>
        /\ stack'[1].at = "send" /\ stack'[1].cmd = stack[1].cmd /\ stack'[1].mailbox = stack[1].mailbox
    BY <1>2, <1>5, <2>1, <2>4, AgainLemma
  <2>6. Top' = stack'[1]
    BY <2>5 DEF Top
  <2>7. StackInv'
    BY <2>5 DEF StackInv
  <2>8. BottomInv'
    BY <1>1, <1>5, <2>3, <2>5 DEF SafetyInv, BottomInv, Running
  <2>9. ReadyInv' /\ CountInv'
    BY <2>3, <2>5, <2>6 DEF ReadyInv, CountInv, Running
  <2>10. LocalOK'
    BY <1>2, <1>5, <2>5 DEF TypeOK, LocalOK, Session, MailboxOrNone
  <2> QED
    BY <2>7, <2>8, <2>9, <2>10 DEF Kept
<1> QED
  BY <1>3, <1>4, <1>5 DEF Reconnect

LEMMA DropLemma ==
    ASSUME IInv, Drop
    PROVE  Kept'
<1>1. SafetyInv /\ CountInv /\ session' = "broken" /\ open' \in {open, NoMailbox}
  BY DEF Drop, Session, IInv
<1>2. UNCHANGED <<selected_mailbox_, connected_, asked, stack, busy, ran>>
  BY DEF Drop, client
<1>3. LocalOK'
  BY <1>1, <1>2 DEF SafetyInv, TypeOK, LocalOK, MailboxOrNone
<1>4. StackInv' /\ BottomInv' /\ CountInv'
  BY <1>1, <1>2 DEF SafetyInv, StackInv, BottomInv, CountInv, Running
<1>5. ReadyInv'
  BY <1>1 DEF ReadyInv
<1> QED
  BY <1>3, <1>4, <1>5 DEF Kept

(* What is counted. *)
LEMMA RanLemma ==
    ASSUME IInv, Next
    PROVE  ran' \in [Counted -> [Mailboxes -> Nat]]
<1>1. ran \in [Counted -> [Mailboxes -> Nat]]
  BY DEF IInv, SafetyInv, TypeOK
<1>2. CASE UNCHANGED ran
  BY <1>1, <1>2
<1>3. CASE Sending /\ Serve
  BY <1>3, ServeLemma DEF IInv
<1>4. CASE ran' = NothingRan
  BY <1>4 DEF NothingRan
<1>5. UNCHANGED ran \/ (Sending /\ Serve) \/ ran' = NothingRan
  BY DEF Next, Step, EnsureMailboxSelected, Command, Done, Disconnect, Ok, ListOk, SelectOk, StoreOk,
     LogoutOk, CallOk, No, SystemBusy, Unheard, Unsent, Connect, Reconnect, Drop
<1> QED
  BY <1>2, <1>3, <1>4, <1>5

LEMMA LossesLemma ==
    ASSUME IInv, Next
    PROVE  losses' \in 0..MaxLosses
<1>1. losses \in 0..MaxLosses
  BY DEF IInv, SafetyInv, TypeOK
<1>2. UNCHANGED losses \/ (losses < MaxLosses /\ losses' = losses + 1)
  BY DEF Next, Step, EnsureMailboxSelected, Command, Done, Disconnect, Ok, ListOk, SelectOk, StoreOk,
     LogoutOk, CallOk, No, SystemBusy, Unheard, Unsent, Connect, Reconnect, Drop, Lost
<1> QED
  BY <1>1, <1>2, LossesAssumption

LEMMA ConnectedLemma ==
    ASSUME IInv, Next
    PROVE  connected_' \in BOOLEAN
<1>1. connected_ \in BOOLEAN
  BY ZenonT(30) DEF IInv, SafetyInv, TypeOK
<1>2. CASE UNCHANGED connected_
  BY <1>1, <1>2, Zenon
<1>3. CASE connected_' = TRUE
  BY <1>3, Zenon
<1>4. CASE connected_' = FALSE
  BY <1>4, Zenon
<1>5. UNCHANGED connected_ \/ connected_' = TRUE \/ connected_' = FALSE
  BY DEF Next, Step, EnsureMailboxSelected, Command, Done, Disconnect, ListOk, SelectOk, Selected,
     StoreOk, LogoutOk, Close, CallOk, No, SystemBusy, Unheard, Unsent, Throw, Retry, TooLate, Connect,
     Reconnect, Drop, client
<1> QED
  BY <1>2, <1>3, <1>4, <1>5

LEMMA Initial == Init => IInv
<1> SUFFICES ASSUME Init PROVE IInv
  OBVIOUS
<1>1. connected_ \in BOOLEAN
  BY Zenon DEF Init
<1>2. LocalOK /\ CountersOK
  BY RetriesAssumption, LossesAssumption
     DEF Init, LocalOK, CountersOK, MailboxOrNone, NothingRan
<1>3. StackInv /\ BottomInv /\ ReadyInv /\ CountInv
  BY DEF Init, StackInv, BottomInv, ReadyInv, CountInv, Running
<1> QED
  BY <1>1, <1>2, <1>3, TypeLemma DEF IInv, SafetyInv

LEMMA Inductive == IInv /\ [Next]_vars => IInv'
<1> SUFFICES ASSUME IInv, [Next]_vars PROVE IInv'
  OBVIOUS
<1>0. (TypeOK <=> LocalOK /\ CountersOK /\ connected_ \in BOOLEAN)'
  BY TypeLemma, PTL
<1>1. CASE UNCHANGED vars
  <2>1. /\ session' = session /\ open' = open /\ selected_mailbox_' = selected_mailbox_
        /\ connected_' = connected_ /\ asked' = asked /\ stack' = stack /\ busy' = busy
        /\ ran' = ran /\ losses' = losses
    BY <1>1 DEF vars, client
  <2>2. connected_' \in BOOLEAN
    BY <2>1, ZenonT(30) DEF IInv, SafetyInv, TypeOK
  <2>3. LocalOK' /\ CountersOK'
    BY <2>1 DEF IInv, SafetyInv, TypeOK, LocalOK, CountersOK, MailboxOrNone
  <2>4. StackInv' /\ BottomInv' /\ ReadyInv' /\ CountInv'
    BY <2>1 DEF IInv, SafetyInv, StackInv, BottomInv, ReadyInv, CountInv, Running, Top
  <2> QED
    BY <1>0, <2>2, <2>3, <2>4 DEF IInv, SafetyInv
<1>2. CASE Next
  <2>1. ran' \in [Counted -> [Mailboxes -> Nat]] /\ losses' \in 0..MaxLosses
    BY <1>2, RanLemma, LossesLemma
  <2>2. connected_' \in BOOLEAN
    BY <1>2, ConnectedLemma
  <2>3. Kept'
    <3>1. ASSUME NEW m \in Mailboxes \cup {NoMailbox}, EnsureMailboxSelected(m)
          PROVE  Kept'
      BY <3>1, EnsureMailboxSelectedLemma DEF Kept, MailboxOrNone
    <3>2. ASSUME NEW c \in Counted \ {"EXPUNGE"}, Command(c)
          PROVE  Kept'
      BY <3>2, CommandLemma DEF Kept
    <3>3. CASE Done \/ Disconnect
      BY <3>3, IdleLemma
    <3>4. CASE ListOk \/ SelectOk \/ StoreOk \/ LogoutOk \/ CallOk
      BY <3>4, ListOkLemma, SelectOkLemma, StoreOkLemma, LogoutOkLemma, CallOkLemma
    <3>5. CASE No \/ SystemBusy \/ Unheard \/ Unsent
      BY <3>5, NoLemma, SystemBusyLemma, FailedLemma
    <3>6. CASE Connect \/ Reconnect \/ Drop
      BY <3>6, ConnectLemma, ReconnectLemma, DropLemma
    <3> QED
      BY <1>2, <3>1, <3>2, <3>3, <3>4, <3>5, <3>6 DEF Next, Step
  <2>4. CountersOK'
    BY <2>1 DEF CountersOK
  <2>5. TypeOK'
    BY <1>0, <2>2, <2>3, <2>4 DEF Kept
  <2> QED
    BY <2>3, <2>5 DEF Kept, IInv, SafetyInv
<1> QED
  BY <1>1, <1>2

(* The invariant, which the theorems rest on. *)
LEMMA Invariant == Spec => []IInv
BY Initial, Inductive, PTL DEF Spec

-----------------------------------------------------------------------------
(* Every variable has its type, and no call of execute or of connect makes  *)
(* an attempt too many, however deep the calls are nested.                  *)
THEOREM TypeCorrect == Spec => []TypeOK
<1>1. IInv => TypeOK
  BY DEF IInv, SafetyInv
<1> QED
  BY <1>1, Invariant, PTL

(* After any sequence of broken connections, a command that works on the    *)
(* open mailbox reaches only a server that has the mailbox of the service's *)
(* operation open.                                                          *)
THEOREM RightMailboxHolds == Spec => []RightMailbox
<1>1. IInv => RightMailbox
  BY CountedLemma DEF IInv, Sending, RightMailbox, Counted
<1> QED
  BY <1>1, Invariant, PTL

-----------------------------------------------------------------------------
(* The client implements MailTransport: what the transport shows of it.     *)

TransportMailbox == IF Selecting THEN NoMailbox ELSE asked
TransportCommand == IF Running /\ ~Selecting THEN stack[1].cmd ELSE "none"
TransportStep == [Transport!Next]_(Transport!vars)

LEMMA ShownLemma ==
    ASSUME UNCHANGED <<TransportMailbox, TransportCommand, ran>>
    PROVE  TransportStep
BY DEF TransportMailbox, TransportCommand, TransportStep, Transport!vars

(* The server never runs a command more often than the transport allows.    *)
LEMMA TimesLemma ==
    ASSUME NEW a \in Nat, NEW b \in Nat, NEW r \in Nat, a <= b
    PROVE  a * r \in Nat /\ r * b \in Nat /\ a * r <= r * b
<1>1. PICK d \in Nat : b = a + d
  <2>1. b - a \in Nat /\ b = a + (b - a)
    OBVIOUS
  <2> QED
    BY <2>1
<1>2. a * r \in Nat /\ d * r \in Nat
  OBVIOUS
<1>3. (a + d) * r = a * r + d * r
  OBVIOUS
<1>4. r * b = b * r /\ b * r = a * r + d * r
  BY <1>1, <1>3
<1> QED
  BY <1>2, <1>4

LEMMA RunLemma ==
    ASSUME IInv, Sending, Serve, Top.cmd \in Counted
    PROVE  /\ Transport!Run /\ ~Selecting /\ Running
           /\ stack[1] = Top /\ asked \in Mailboxes
<1>1. SafetyInv /\ CountInv /\ Running /\ Top.at = "send" /\ Top.cmd # "none"
  BY DEF IInv, Sending, Counted, InMailbox
<1>2. Len(stack) = 1 /\ stack[1] = Top /\ asked \in Mailboxes
  BY <1>1, CountedLemma
<1>3. ~Selecting
  BY <1>2 DEF Selecting
<1>4. ran' = [ran EXCEPT ![Top.cmd][asked] = @ + 1]
  BY <1>1, ServeLemma
<1>5. ran[Top.cmd][asked] < Transport!MaxRuns(Top.cmd)
  <2> DEFINE r == ran[Top.cmd][asked]  t == Top.attempt  p == busy * Retries  q == Retries * BusyRetries
  <2>1. busy \in 0..BusyRetries /\ Retries \in Nat /\ BusyRetries \in Nat /\ t \in 0..Retries
    BY <1>1, RetriesAssumption, TopLemma DEF SafetyInv, TypeOK, Calls
  <2>2. r <= p + t /\ (Top.cmd \notin MayBeBusy => busy = 0)
    BY <1>1, <1>2 DEF CountInv
  <2>3. r \in Nat
    BY <1>1, <1>2 DEF SafetyInv, TypeOK
  <2>4. p \in Nat /\ q \in Nat /\ p <= q
    BY <2>1, TimesLemma
  <2>5. busy = 0 => p = 0
    BY <2>1
  <2>6. Retries * (BusyRetries + 1) = q + Retries
    BY <2>1
  <2> HIDE DEF r, t, p, q
  <2>7. CASE Top.cmd \in MayBeBusy
    <3>1. Transport!MaxRuns(Top.cmd) = q + Retries + 1
      BY <2>6, <2>7 DEF Transport!MaxRuns, Transport!MayBeBusy, MayBeBusy
    <3>2. r < q + Retries + 1
      BY <2>1, <2>2, <2>3, <2>4
    <3> QED
      BY <3>1, <3>2 DEF r
  <2>8. CASE Top.cmd \notin MayBeBusy
    <3>1. Transport!MaxRuns(Top.cmd) = Retries + 1
      BY <2>8 DEF Transport!MaxRuns, Transport!MayBeBusy, MayBeBusy
    <3>2. r < Retries + 1
      BY <2>1, <2>2, <2>3, <2>5, <2>8
    <3> QED
      BY <3>1, <3>2 DEF r
  <2> QED
    BY <2>7, <2>8
<1> QED
  BY <1>1, <1>2, <1>3, <1>4, <1>5 DEF Transport!Run, Transport!NoCommand

(* The operation is over, with its call or by an exception. *)
LEMMA OverShown ==
    ASSUME IInv, Running, stack' = <<>>, asked' = NoMailbox, UNCHANGED ran
    PROVE  TransportStep
<1>1. stack' = <<>> /\ asked' = NoMailbox
  OBVIOUS
<1>2. TransportMailbox' = NoMailbox /\ TransportCommand' = "none"
  BY <1>1 DEF TransportMailbox, TransportCommand, Selecting, Running
<1>3. CASE TransportMailbox = NoMailbox
  <2>1. TransportCommand = "none"
    BY <1>3, MailboxAssumption
       DEF TransportMailbox, TransportCommand, Selecting, IInv, SafetyInv, BottomInv
  <2> QED
    BY <1>2, <1>3, <2>1, ShownLemma
<1>4. CASE TransportMailbox # NoMailbox
  <2>1. Transport!End
    BY <1>2, <1>4
       DEF Transport!End, Transport!Over, Transport!NoCommand, TransportMailbox, TransportCommand
  <2> QED
    BY <2>1 DEF Transport!Next, TransportStep
<1> QED
  BY <1>3, <1>4

(* An exception ends the operation. *)
LEMMA ThrownShown ==
    ASSUME IInv, Running, NEW s \in {"closed", "broken", "open", "in"}, Throw(s), UNCHANGED ran
    PROVE  TransportStep
BY ThrowLemma, OverShown DEF IInv

(* The bottom call goes on with the same command, or with another one that  *)
(* is none of the service's.                                                *)
LEMMA GoesOnShown ==
    ASSUME Running, Running', UNCHANGED <<asked, ran>>,
           \/ stack'[1].cmd = stack[1].cmd
           \/ stack[1].cmd \notin Counted /\ stack'[1].cmd \notin Counted
    PROVE  TransportStep
<1>1. UNCHANGED <<TransportMailbox, TransportCommand>>
  BY DEF TransportMailbox, TransportCommand, Selecting
<1> QED
  BY <1>1, ShownLemma

(* With no operation there is nothing to show. *)
LEMMA NothingShown ==
    ASSUME asked = NoMailbox, asked' = NoMailbox, UNCHANGED ran,
           Running => Selecting, Running' => Selecting'
    PROVE  TransportStep
<1>1. UNCHANGED <<TransportMailbox, TransportCommand>>
  BY DEF TransportMailbox, TransportCommand
<1> QED
  BY <1>1, ShownLemma

LEMMA ServiceShown ==
    ASSUME IInv, \/ \E m \in Mailboxes \cup {NoMailbox} : EnsureMailboxSelected(m)
                 \/ \E c \in Counted \ {"EXPUNGE"} : Command(c)
                 \/ Done \/ Disconnect
    PROVE  TransportStep
<1>1. ASSUME NEW m \in Mailboxes \cup {NoMailbox}, EnsureMailboxSelected(m)
      PROVE  TransportStep
  <2> DEFINE c == IF connected_ THEN "LIST" ELSE "CONNECT"
  <2>1. ~Running /\ asked = NoMailbox /\ stack' = <<Call(c, m)>> /\ UNCHANGED ran
        /\ c \in {"LIST", "CONNECT"}
    BY <1>1 DEF EnsureMailboxSelected
  <2> HIDE DEF c
  <2>2. Selecting'
    BY <2>1 DEF Selecting, Running, Call, Counted, InMailbox
  <2>3. UNCHANGED <<TransportMailbox, TransportCommand>>
    BY <2>1, <2>2 DEF TransportMailbox, TransportCommand, Selecting
  <2> QED
    BY <2>1, <2>3, ShownLemma
<1>2. ASSUME NEW c \in Counted \ {"EXPUNGE"}, Command(c)
      PROVE  TransportStep
  <2>1. /\ ~Running /\ asked # NoMailbox /\ stack' = <<Call(c, asked)>> /\ ran' = NothingRan
        /\ UNCHANGED asked
    BY <1>2 DEF Command
  <2>2. Running' /\ stack'[1].cmd = c /\ ~Selecting /\ ~Selecting'
    BY <2>1 DEF Selecting, Running, Call
  <2>3. TransportMailbox = asked /\ TransportMailbox' = asked /\ TransportCommand = "none"
        /\ TransportCommand' = c
    BY <2>1, <2>2 DEF TransportMailbox, TransportCommand
  <2>4. ran' = Transport!NothingRan /\ c \in Transport!Given
    BY <2>1 DEF Transport!NothingRan, Transport!Commands, Transport!Given, NothingRan, Counted, InMailbox
  <2>5. Transport!Give(c)
    BY <2>1, <2>3, <2>4
       DEF Transport!Give, Transport!NoCommand, TransportMailbox, TransportCommand
  <2> QED
    BY <2>4, <2>5 DEF Transport!Next, TransportStep
<1>3. CASE Done
  <2>1. TransportMailbox # NoMailbox /\ TransportMailbox' = NoMailbox /\ TransportCommand' = "none"
        /\ UNCHANGED ran
    BY <1>3 DEF Done, Running, TransportMailbox, TransportCommand, Selecting
  <2>2. Transport!End
    BY <2>1
       DEF Transport!End, Transport!Over, Transport!NoCommand, TransportMailbox, TransportCommand
  <2> QED
    BY <2>2 DEF Transport!Next, TransportStep
<1>4. CASE Disconnect
  <2>1. ~Running /\ asked = NoMailbox /\ asked' = NoMailbox /\ UNCHANGED ran
        /\ stack' = <<Call("LOGOUT", NoMailbox)>>
    BY <1>4 DEF Disconnect
  <2>2. Running' => Selecting'
    BY <2>1 DEF Selecting, Call, Counted, InMailbox
  <2> QED
    BY <2>1, <2>2, NothingShown
<1> QED
  BY <1>1, <1>2, <1>3, <1>4

LEMMA ListOkShown ==
    ASSUME IInv, ListOk
    PROVE  TransportStep
<1> DEFINE c == Call("SELECT", Top.mailbox)
<1>1. /\ SafetyInv /\ Running /\ Top.cmd = "LIST" /\ Top.mailbox # NoMailbox
      /\ stack' = Replace(c) /\ UNCHANGED asked
  BY DEF ListOk, Ok, Sending, IInv
<1>2. "LIST" \notin Counted /\ "SELECT" \notin Counted /\ "SELECT" \in Commands
  BY DEF Counted, InMailbox, Commands
<1>3. UNCHANGED ran
  BY <1>1, <1>2 DEF ListOk, Ok, Serve
<1>4. c \in Calls /\ c.cmd = "SELECT"
  <2>1. Top.mailbox \in MailboxOrNone
    BY <1>1, TopLemma DEF SafetyInv, Calls, MailboxOrNone
  <2> QED
    BY <1>2, <2>1, CallLemma DEF Call
<1> HIDE DEF c
<1>5. /\ stack \in Seq(Calls) /\ stack # <<>>
      /\ stack' # <<>> /\ stack'[Len(stack)] = c
      /\ \A i \in 1..Len(stack) : i # Len(stack) => stack'[i] = stack[i]
      /\ 1 \in 1..Len(stack) /\ Len(stack) \in 1..Len(stack)
  BY <1>1, <1>4, TopLemma, ReplaceLemma DEF SafetyInv, Running, Replace
<1>6. CASE Len(stack) = 1
  <2>1. stack[1].cmd \notin Counted /\ stack'[1].cmd \notin Counted
    BY <1>1, <1>2, <1>4, <1>5, <1>6 DEF Top
  <2> QED
    BY <1>1, <1>3, <1>5, <2>1, GoesOnShown DEF Running
<1>7. CASE Len(stack) # 1
  BY <1>1, <1>3, <1>5, <1>7, GoesOnShown DEF Running
<1> QED
  BY <1>6, <1>7

LEMMA SelectOkShown ==
    ASSUME IInv, SelectOk
    PROVE  TransportStep
<1>1. /\ SafetyInv /\ Running /\ Top.cmd = "SELECT" /\ selected_mailbox_' = Top.mailbox
      /\ stack' = IF Len(stack) = 1 THEN <<>> ELSE Again(Front(stack))
      /\ UNCHANGED asked
  BY DEF SelectOk, Selected, Ok, Sending, IInv
<1>2. UNCHANGED ran
  BY <1>1 DEF SelectOk, Ok, Serve, Counted, InMailbox
<1>3. CASE Len(stack) = 1
  <2>1. stack' = <<>> /\ asked # NoMailbox /\ asked \in Mailboxes /\ Selecting
    BY <1>1, <1>3 DEF SafetyInv, TypeOK, BottomInv, Top, Running, Selecting, Counted, InMailbox
  <2>2. ~Running' /\ ~Selecting'
    BY <2>1 DEF Running, Selecting
  <2>3. TransportMailbox = NoMailbox /\ TransportMailbox' = asked
        /\ TransportCommand = "none" /\ TransportCommand' = "none"
    BY <1>1, <2>1, <2>2 DEF TransportMailbox, TransportCommand
  <2>4. Transport!Begin(asked)
    BY <1>2, <2>3 DEF Transport!Begin, TransportMailbox, TransportCommand
  <2> QED
    BY <2>1, <2>4 DEF Transport!Next, TransportStep
<1>4. CASE Len(stack) # 1
  <2>1. UNCHANGED selected_mailbox_
    <3> DEFINE n == Len(stack)
    <3>1. n \in Nat \ {0} /\ n # 1
      BY <1>1, <1>4, TopLemma DEF SafetyInv
    <3>2. Top = stack[n] /\ n = Len(stack)
      BY DEF Top
    <3> HIDE DEF n
    <3>3. n \in 2..n
      BY <3>1
    <3> QED
      BY <1>1, <3>2, <3>3 DEF SafetyInv, StackInv
  <2>2. stack' = Again(Front(stack))
    BY <1>1, <1>4
  <2>3. /\ Running'
        /\ Len(stack) = 2 => stack'[1] = NextAttempt(stack[1])
        /\ Len(stack) # 2 => stack'[1] = stack[1]
    BY <1>1, <1>4, <2>1, <2>2, PopInv
  <2>4. stack'[1].cmd = stack[1].cmd
    BY <2>3 DEF NextAttempt
  <2> QED
    BY <1>1, <1>2, <2>3, <2>4, GoesOnShown
<1> QED
  BY <1>3, <1>4

(* UID STORE is followed by EXPUNGE, any other command of the service by    *)
(* none.                                                                    *)
LEMMA AnsweredShown ==
    ASSUME IInv, StoreOk \/ CallOk
    PROVE  TransportStep
<1>1. SafetyInv /\ Sending /\ Running /\ Serve /\ UNCHANGED asked
  BY DEF StoreOk, CallOk, Ok, Sending, IInv
<1>2. CASE Top.cmd \in Counted
  <2>1. Transport!Run /\ ~Selecting /\ stack[1] = Top /\ asked \in Mailboxes
    BY <1>1, <1>2, RunLemma
  <2>2. ~Selecting' /\ TransportCommand' = IF Top.cmd = "UID STORE" THEN "EXPUNGE" ELSE "none"
    <3>1. CASE StoreOk
      <4>1. stack' = <<Call("EXPUNGE", asked)>> /\ Top.cmd = "UID STORE"
        BY <3>1 DEF StoreOk
      <4>2. stack'[1].cmd = "EXPUNGE" /\ Running'
        BY <4>1 DEF Call, Running
      <4> QED
        BY <4>1, <4>2 DEF TransportCommand, Selecting, Counted, InMailbox
    <3>2. CASE CallOk
      <4>1. stack' = <<>> /\ Top.cmd # "UID STORE"
        BY <3>2 DEF CallOk, Counted, InMailbox
      <4> QED
        BY <4>1 DEF TransportCommand, Selecting, Running
    <3> QED
      BY <3>1, <3>2
  <2>3. TransportMailbox' = TransportMailbox /\ TransportCommand = Top.cmd
    BY <1>1, <2>1, <2>2 DEF TransportMailbox, TransportCommand
  <2>4. Transport!Answered
    BY <2>1, <2>2, <2>3
       DEF Transport!Answered, Transport!After, Transport!NoCommand, TransportMailbox, TransportCommand
  <2> QED
    BY <2>4 DEF Transport!Next, TransportStep
<1>3. CASE Top.cmd \notin Counted
  <2>1. Top.cmd = "LIST" /\ Top.mailbox = NoMailbox /\ stack' = <<>> /\ UNCHANGED ran
    BY <1>3 DEF StoreOk, CallOk, Ok, Serve, Counted, InMailbox
  <2>2. Len(stack) = 1
    <3> DEFINE n == Len(stack)
    <3>1. n \in Nat \ {0} /\ Top = stack[n] /\ n = Len(stack)
      BY <1>1, TopLemma DEF SafetyInv, Top
    <3> HIDE DEF n
    <3>2. n = 1 \/ n \in 2..n
      BY <3>1
    <3> QED
      BY <2>1, <1>1, <3>1, <3>2 DEF SafetyInv, StackInv
  <2>3. stack[1] = Top /\ asked = NoMailbox
    BY <1>1, <2>1, <2>2 DEF SafetyInv, BottomInv, Top
  <2> QED
    BY <1>1, <1>3, <2>1, <2>3, NothingShown DEF Selecting, Running
<1> QED
  BY <1>2, <1>3

LEMMA LogoutOkShown ==
    ASSUME IInv, LogoutOk
    PROVE  TransportStep
<1>1. SafetyInv /\ Running /\ Top.cmd = "LOGOUT" /\ Close
  BY DEF LogoutOk, Ok, Sending, IInv
<1>2. UNCHANGED ran
  BY <1>1 DEF LogoutOk, Ok, Serve, Counted, InMailbox
<1>3. stack[1].cmd = "LOGOUT"
  <2> DEFINE n == Len(stack)
  <2>1. n \in Nat \ {0} /\ Top = stack[n] /\ n = Len(stack)
    BY <1>1, TopLemma DEF SafetyInv, Top
  <2> HIDE DEF n
  <2>2. n = 1 \/ n \in 2..n
    BY <2>1
  <2> QED
    BY <1>1, <2>1, <2>2 DEF SafetyInv, StackInv
<1>4. stack' = <<>> /\ asked' = NoMailbox /\ asked = NoMailbox
  BY <1>1, <1>3 DEF Close, SafetyInv, BottomInv
<1> QED
  BY <1>2, <1>3, <1>4, NothingShown DEF Selecting, Running, Counted, InMailbox

LEMMA RetryGoesOn ==
    ASSUME IInv, Sending, Retry, Top.attempt < Retries
    PROVE  Running' /\ UNCHANGED asked /\ stack'[1].cmd = stack[1].cmd
<1> DEFINE c == [Top EXCEPT !.at = "reopen"]
<1>1. SafetyInv /\ Running /\ Top \in Calls /\ stack \in Seq(Calls) /\ stack # <<>> /\ 1 \in 1..Len(stack)
  BY TopLemma DEF IInv, SafetyInv, Sending, Running
<1>2. ~(Top.attempt >= Retries)
  BY <1>1, RetriesAssumption DEF Calls
<1>3. stack' = Replace(c) /\ UNCHANGED asked
  BY <1>2 DEF Retry
<1>4. c \in Calls /\ c.cmd = Top.cmd
  BY <1>1 DEF Calls
<1> HIDE DEF c
<1>5. /\ stack' # <<>> /\ stack'[Len(stack)] = c
      /\ \A i \in 1..Len(stack) : i # Len(stack) => stack'[i] = stack[i]
  BY <1>1, <1>3, <1>4, ReplaceLemma DEF Replace
<1>6. stack'[1].cmd = stack[1].cmd
  BY <1>1, <1>4, <1>5 DEF Top
<1> QED
  BY <1>3, <1>5, <1>6 DEF Running

LEMMA UnheardShown ==
    ASSUME IInv, Unheard
    PROVE  TransportStep
<1>1. SafetyInv /\ Sending /\ Running /\ Serve /\ (Retry \/ TooLate)
  BY DEF Unheard, Sending, IInv
<1>2. CASE Top.cmd \in Counted
  <2>1. Transport!Run /\ ~Selecting /\ stack[1] = Top /\ asked \in Mailboxes
    BY <1>1, <1>2, RunLemma
  <2>2. CASE Top.attempt >= Retries
    <3>1. Throw("broken") \/ TooLate
      BY <1>1, <2>2 DEF Retry
    <3>2. stack' = <<>> /\ asked' = NoMailbox
      BY <1>1, <3>1, ThrowLemma, TooLateLemma
    <3>3. Transport!Over
      BY <3>2 DEF Transport!Over, Transport!NoCommand, Selecting, Running
    <3> QED
      BY <2>1, <3>3 DEF Transport!Unheard, Transport!Next, TransportStep
  <2>3. CASE ~(Top.attempt >= Retries)
    <3>1. Top.attempt < Retries /\ Retry
      BY <1>1, <2>3, TopLemma, RetriesAssumption DEF SafetyInv, Calls, TooLate
    <3>2. Running' /\ UNCHANGED asked /\ stack'[1].cmd = stack[1].cmd
      BY <1>1, <3>1, RetryGoesOn
    <3>3. UNCHANGED <<TransportMailbox, TransportCommand>>
      BY <1>1, <3>2 DEF TransportMailbox, TransportCommand, Selecting
    <3>4. Transport!Unheard
      BY <2>1, <3>3 DEF Transport!Unheard, TransportMailbox, TransportCommand
    <3> QED
      BY <3>4 DEF Transport!Next, TransportStep
  <2> QED
    BY <2>2, <2>3
<1>3. CASE Top.cmd \notin Counted
  <2>1. UNCHANGED ran
    BY <1>1, <1>3 DEF Serve
  <2>2. CASE Top.attempt >= Retries
    <3>1. Throw("broken") \/ TooLate
      BY <1>1, <2>2 DEF Retry
    <3>2. stack' = <<>> /\ asked' = NoMailbox
      BY <1>1, <3>1, ThrowLemma, TooLateLemma
    <3> QED
      BY <1>1, <2>1, <3>2, OverShown
  <2>3. CASE ~(Top.attempt >= Retries)
    <3>1. Top.attempt < Retries /\ Retry
      BY <1>1, <2>3, TopLemma, RetriesAssumption DEF SafetyInv, Calls, TooLate
    <3> QED
      BY <1>1, <2>1, <3>1, RetryGoesOn, GoesOnShown
  <2> QED
    BY <2>2, <2>3
<1> QED
  BY <1>2, <1>3

LEMMA UnsentShown ==
    ASSUME IInv, Unsent
    PROVE  TransportStep
<1>1. SafetyInv /\ Sending /\ Running /\ Retry /\ UNCHANGED ran
  BY DEF Unsent, Sending, IInv
<1>2. CASE Top.attempt >= Retries
  <2>1. Throw("broken")
    BY <1>1, <1>2 DEF Retry
  <2> QED
    BY <1>1, <2>1, ThrownShown
<1>3. CASE ~(Top.attempt >= Retries)
  <2>1. Top.attempt < Retries
    BY <1>1, <1>3, TopLemma, RetriesAssumption DEF SafetyInv, Calls
  <2> QED
    BY <1>1, <2>1, RetryGoesOn, GoesOnShown
<1> QED
  BY <1>2, <1>3

LEMMA RefusedShown ==
    ASSUME IInv, No \/ SystemBusy
    PROVE  TransportStep
<1>1. SafetyInv /\ Running /\ Sending /\ UNCHANGED ran /\ session \in {"closed", "broken", "open", "in"}
  BY DEF No, SystemBusy, Sending, IInv, SafetyInv, TypeOK
<1>2. CASE Throw(session)
  BY <1>1, <1>2, ThrownShown
<1>3. CASE ~Throw(session)
  <2>1. Top.cmd \in MayBeBusy /\ stack' = <<Call(Top.cmd, asked)>> /\ UNCHANGED asked
    BY <1>3 DEF No, SystemBusy
  <2>2. Running' /\ stack'[1].cmd = Top.cmd
    BY <2>1 DEF Running, Call
  <2>3. stack[1] = Top
    BY <1>1, <2>1, CountedLemma DEF MayBeBusy, Counted, InMailbox
  <2> QED
    BY <1>1, <2>1, <2>2, <2>3, GoesOnShown
<1> QED
  BY <1>2, <1>3

LEMMA ConnectShown ==
    ASSUME IInv, Connect
    PROVE  TransportStep
<1>1. SafetyInv /\ Running /\ Top.cmd = "CONNECT" /\ UNCHANGED ran
  BY DEF Connect, IInv
<1>2. Len(stack) = 1 /\ stack[1] = Top
  <2> DEFINE n == Len(stack)
  <2>1. n \in Nat \ {0} /\ Top = stack[n] /\ n = Len(stack)
    BY <1>1, TopLemma DEF SafetyInv, Top
  <2> HIDE DEF n
  <2>2. n = 1 \/ n \in 2..n
    BY <2>1
  <2> QED
    BY <1>1, <2>1, <2>2 DEF SafetyInv, StackInv
<1>3. ASSUME Throw("closed")
      PROVE  TransportStep
  BY <1>1, <1>3, ThrownShown
<1>4. ASSUME stack' = <<Call("LIST", asked)>>, UNCHANGED asked
      PROVE  TransportStep
  <2>1. Running' /\ stack'[1].cmd = "LIST"
    BY <1>4 DEF Running, Call
  <2>2. stack[1].cmd \notin Counted /\ stack'[1].cmd \notin Counted
    BY <1>1, <1>2, <2>1 DEF Counted, InMailbox
  <2> QED
    BY <1>1, <1>4, <2>1, <2>2, GoesOnShown
<1>5. ASSUME ~(Top.attempt >= Retries), stack' = Again(stack), UNCHANGED asked
      PROVE  TransportStep
  <2>1. Top \in Calls /\ Top = stack[Len(stack)] /\ stack \in Seq(Calls) /\ stack # <<>>
    BY <1>1, TopLemma DEF SafetyInv, Top, Running
  <2>2. Top.attempt < Retries
    BY <1>5, <2>1, RetriesAssumption DEF Calls
  <2>3. stack' # <<>> /\ stack'[1].cmd = stack[1].cmd
    BY <1>2, <1>5, <2>1, <2>2, AgainLemma
  <2> QED
    BY <1>1, <1>5, <2>3, GoesOnShown DEF Running
<1> QED
  BY <1>3, <1>4, <1>5 DEF Connect

LEMMA ReconnectShown ==
    ASSUME IInv, Reconnect
    PROVE  TransportStep
<1>1. SafetyInv /\ Running /\ Top.at = "reopen" /\ UNCHANGED ran
  BY DEF Reconnect, IInv
<1>2. ASSUME NEW s \in {"broken", "open", "in"}, Throw(s)
      PROVE  TransportStep
  BY <1>1, <1>2, ThrownShown
<1>3. ASSUME UNCHANGED <<selected_mailbox_, asked>>, selected_mailbox_ # NoMailbox,
             stack' = Append(stack, Call("LIST", selected_mailbox_))
      PROVE  TransportStep
  <2>1. Running' /\ stack'[1] = stack[1]
    BY <1>1, <1>3, PushInv
  <2> QED
    BY <1>1, <1>3, <2>1, GoesOnShown
<1>4. ASSUME UNCHANGED asked, stack' = Again(stack), selected_mailbox_ = NoMailbox
      PROVE  TransportStep
  <2>1. Len(stack) \in 1..Len(stack) /\ 1 \in 1..Len(stack) /\ stack \in Seq(Calls) /\ stack # <<>>
    BY <1>1, TopLemma DEF SafetyInv, Running
  <2>2. stack[Len(stack)].attempt < Retries
    BY <1>1, <2>1 DEF SafetyInv, StackInv, Top
  <2>3. stack' # <<>> /\ stack'[1].cmd = stack[1].cmd
    BY <1>4, <2>1, <2>2, AgainLemma
  <2> QED
    BY <1>1, <1>4, <2>3, GoesOnShown DEF Running
<1> QED
  BY <1>2, <1>3, <1>4 DEF Reconnect

LEMMA DropShown ==
    ASSUME Drop
    PROVE  TransportStep
<1>1. UNCHANGED <<TransportMailbox, TransportCommand, ran>>
  BY DEF Drop, client, TransportMailbox, TransportCommand, Selecting, Running
<1> QED
  BY <1>1, ShownLemma

LEMMA StepShown == IInv /\ [Next]_vars => TransportStep
<1> SUFFICES ASSUME IInv, [Next]_vars PROVE TransportStep
  OBVIOUS
<1>1. CASE UNCHANGED vars
  <2>1. UNCHANGED <<TransportMailbox, TransportCommand, ran>>
    BY <1>1 DEF vars, client, TransportMailbox, TransportCommand, Selecting, Running
  <2> QED
    BY <2>1, ShownLemma
<1>2. CASE Next
  <2>1. CASE \/ \E m \in Mailboxes \cup {NoMailbox} : EnsureMailboxSelected(m)
             \/ \E c \in Counted \ {"EXPUNGE"} : Command(c)
             \/ Done \/ Disconnect
    BY <2>1, ServiceShown
  <2>2. CASE ListOk \/ SelectOk \/ StoreOk \/ LogoutOk \/ CallOk
    BY <2>2, ListOkShown, SelectOkShown, AnsweredShown, LogoutOkShown
  <2>3. CASE No \/ SystemBusy \/ Unheard \/ Unsent
    BY <2>3, RefusedShown, UnheardShown, UnsentShown
  <2>4. CASE Connect \/ Reconnect \/ Drop
    BY <2>4, ConnectShown, ReconnectShown, DropShown
  <2> QED
    BY <1>2, <2>1, <2>2, <2>3, <2>4 DEF Next, Step
<1> QED
  BY <1>1, <1>2

(* To the service the client is a MailTransport: a command runs in the      *)
(* mailbox of the operation, at most once per attempt, and a call that      *)
(* returns has happened.                                                    *)
THEOREM ClientImplementsMailTransport == Spec => ImplementsMailTransport
<1>1. Init => Transport!Init
  BY DEF Init, Transport!Init, Transport!NoCommand, Transport!NothingRan, Transport!Commands,
     NothingRan, Counted, InMailbox, Selecting, Running
<1>2. IInv /\ [Next]_vars => [Transport!Next]_(Transport!vars)
  BY StepShown DEF TransportStep
<1> QED
  BY <1>1, <1>2, Invariant, PTL DEF Spec, ImplementsMailTransport, Transport!Spec

=============================================================================
