--------------------------- MODULE Notifications ---------------------------
(***************************************************************************)
(* Notifications (blocks/notifications): POST /notify with preferences and *)
(* quiet hours, the cron runs POST /send and POST /digest, and the partial *)
(* unique index on dedupe keys of live rows.                               *)
(*                                                                         *)
(* One statement is one action.  All messages belong to one user and       *)
(* category, the group a digest collapses.  /send is modelled as meant:    *)
(* its SELECT ... LEFT JOIN ... FOR UPDATE locks a nullable side, which    *)
(* Postgres rejects.                                                       *)
(***************************************************************************)
EXTENDS Naturals, FiniteSets

CONSTANTS Messages, KeyOf,   \* message -> its dedupe key or NoKey
          NoKey,
          Senders,           \* overlapping runs of /send and /digest
          BatchSize, MaxAttempts,
          Runs               \* bound on the cron runs

VARIABLES note,      \* message -> status of its row, "none" before /notify
          tries,     \* message -> attempts column
          quiet,     \* is it inside the quiet window
          task,      \* sender -> "idle", "send" or "digest"
          letters,   \* sender -> rows it selected and has not come to
          mailing,   \* sender -> rows the message it is sending stands for
          receipt,   \* sender -> what the provider did: "none", "ok" or "error"
          mailed,    \* history: message -> times the provider accepted it
          refusals,  \* history: message -> sends of it that ended in the catch block
          cronRuns

vars == <<note, tries, quiet, task, letters, mailing, receipt, mailed, refusals, cronRuns>>
senderVars == <<task, letters, mailing, receipt>>

Init ==
    /\ note = [m \in Messages |-> "none"]
    /\ tries = [m \in Messages |-> 0]
    /\ quiet = FALSE
    /\ task = [s \in Senders |-> "idle"]
    /\ letters = [s \in Senders |-> {}]
    /\ mailing = [s \in Senders |-> {}]
    /\ receipt = [s \in Senders |-> "none"]
    /\ mailed = [m \in Messages |-> 0]
    /\ refusals = [m \in Messages |-> 0]
    /\ cronRuns = 0

Live == {"pending", "deferred", "sent"}

SameKey(m) == {n \in Messages \ {m} : KeyOf[n] = KeyOf[m] /\ KeyOf[m] # NoKey}

\* An index that looks at open rows only.
AdmitsUnlessOpen(S) ==
    \A m \in S : \A n \in SameKey(m) : n \notin S /\ note[n] \notin {"pending", "deferred"}

\* notifications_dedupe_uniq: may the rows S become live, all at once?
IndexAdmits(S) == \A m \in S : \A n \in SameKey(m) : n \notin S /\ note[n] \notin Live

-----------------------------------------------------------------------------
(* POST /notify                                                            *)

\* Preference first: a disabled pairing is recorded as suppressed, a digest is
\* collected, a quiet hour defers.
Notify(m, preference) ==
    /\ note[m] = "none"
    /\ LET status == CASE preference = "disabled"  -> "suppressed"
                       [] preference = "digest"    -> "digested"
                       [] preference = "immediate" -> IF quiet THEN "deferred" ELSE "pending"
       IN  IF status \in Live => IndexAdmits({m})
           THEN note' = [note EXCEPT ![m] = status]
           ELSE note' = [note EXCEPT ![m] = "deduplicated"]  \* no row
    /\ UNCHANGED <<tries, quiet, senderVars, mailed, refusals, cronRuns>>

QuietHours ==
    /\ quiet' = ~quiet
    /\ UNCHANGED <<note, tries, senderVars, mailed, refusals, cronRuns>>

-----------------------------------------------------------------------------
(* POST /send                                                              *)

\* UPDATE: deferred rows whose window has ended become pending.
Release(s) ==
    /\ task[s] = "idle" /\ cronRuns < Runs
    /\ cronRuns' = cronRuns + 1
    /\ task' = [task EXCEPT ![s] = "release"]
    /\ note' = [m \in Messages |-> IF note[m] = "deferred" /\ ~quiet THEN "pending" ELSE note[m]]
    /\ UNCHANGED <<tries, quiet, letters, mailing, receipt, mailed, refusals>>

\* SELECT: nothing marks the rows; fewer than the limit only if there are no more.
Select(s) ==
    /\ task[s] = "release"
    /\ LET due == {m \in Messages : note[m] = "pending"}
       IN  \E S \in SUBSET due :
              /\ Cardinality(S) = BatchSize \/ (S = due /\ Cardinality(S) < BatchSize)
              /\ letters' = [letters EXCEPT ![s] = S]
    /\ task' = [task EXCEPT ![s] = "send"]
    /\ UNCHANGED <<note, tries, quiet, mailing, receipt, mailed, refusals, cronRuns>>

\* POST /digest: all digested rows, collapsed into one message.
SelectDigest(s) ==
    /\ task[s] = "idle" /\ cronRuns < Runs
    /\ cronRuns' = cronRuns + 1
    /\ LET items == {m \in Messages : note[m] = "digested"}
       IN  /\ items # {}
           /\ mailing' = [mailing EXCEPT ![s] = items]
    /\ task' = [task EXCEPT ![s] = "digest"]
    /\ UNCHANGED <<note, tries, quiet, letters, receipt, mailed, refusals>>

TakeLetter(s) ==
    /\ task[s] = "send" /\ mailing[s] = {}
    /\ \E m \in letters[s] : /\ mailing' = [mailing EXCEPT ![s] = {m}]
                             /\ letters' = [letters EXCEPT ![s] = @ \ {m}]
    /\ UNCHANGED <<note, tries, quiet, task, receipt, mailed, refusals, cronRuns>>

\* The provider accepts the message, or the adapter throws.
Mail(s) ==
    /\ mailing[s] # {} /\ receipt[s] = "none"
    /\ \/ /\ receipt' = [receipt EXCEPT ![s] = "ok"]
          /\ mailed' = [m \in Messages |-> mailed[m] + IF m \in mailing[s] THEN 1 ELSE 0]
       \/ /\ receipt' = [receipt EXCEPT ![s] = "error"]
          /\ UNCHANGED mailed
    /\ UNCHANGED <<note, tries, quiet, task, letters, mailing, refusals, cronRuns>>

Done(s) ==
    /\ mailing' = [mailing EXCEPT ![s] = {}]
    /\ receipt' = [receipt EXCEPT ![s] = "none"]
    /\ task' = [task EXCEPT ![s] = IF @ = "digest" THEN "idle" ELSE @]

\* UPDATE to 'sent' by id.  The index, or the database, may reject it: that ends
\* in the catch block as well.
MarkSent(s) ==
    /\ receipt[s] = "ok"
    /\ \/ /\ IndexAdmits(mailing[s])
          /\ note' = [m \in Messages |-> IF m \in mailing[s] THEN "sent" ELSE note[m]]
          /\ Done(s)
       \/ /\ receipt' = [receipt EXCEPT ![s] = "error"]
          /\ UNCHANGED <<note, task, mailing>>
    /\ UNCHANGED <<tries, quiet, letters, mailed, refusals, cronRuns>>

\* One attempt less than it should be.
GivesUpEarly(m) == tries[m] + 2 >= MaxAttempts

GivesUp(m) == tries[m] + 1 >= MaxAttempts

\* The catch block: count, and give up at the third failure.  That of /digest
\* only notes the error.
MarkFailed(s) ==
    /\ receipt[s] = "error"
    /\ refusals' = [m \in Messages |-> refusals[m] + IF m \in mailing[s] THEN 1 ELSE 0]
    /\ IF task[s] = "digest" THEN UNCHANGED <<note, tries>>
       ELSE LET m == CHOOSE x \in mailing[s] : TRUE
            IN  /\ tries' = [tries EXCEPT ![m] = @ + 1]
                /\ note' = [note EXCEPT ![m] = IF GivesUp(m) THEN "failed" ELSE @]
    /\ Done(s)
    /\ UNCHANGED <<quiet, letters, mailed, cronRuns>>

\* The batch is done, or the function dies.
EndRun(s) ==
    /\ task[s] # "idle"
    /\ task' = [task EXCEPT ![s] = "idle"]
    /\ letters' = [letters EXCEPT ![s] = {}]
    /\ mailing' = [mailing EXCEPT ![s] = {}]
    /\ receipt' = [receipt EXCEPT ![s] = "none"]
    /\ UNCHANGED <<note, tries, quiet, mailed, refusals, cronRuns>>

Next ==
    \/ \E m \in Messages, p \in {"disabled", "digest", "immediate"} : Notify(m, p)
    \/ QuietHours
    \/ \E s \in Senders : \/ Release(s) \/ Select(s) \/ SelectDigest(s) \/ TakeLetter(s)
                          \/ Mail(s) \/ MarkSent(s) \/ MarkFailed(s) \/ EndRun(s)

Spec == Init /\ [][Next]_vars

-----------------------------------------------------------------------------
TypeOK ==
    /\ note \in [Messages -> {"none", "pending", "deferred", "sent", "failed", "suppressed",
                              "digested", "deduplicated"}]
    /\ tries \in [Messages -> Nat] /\ mailed \in [Messages -> Nat]
    /\ refusals \in [Messages -> Nat]
    /\ quiet \in BOOLEAN
    /\ task \in [Senders -> {"idle", "release", "send", "digest"}]
    /\ letters \in [Senders -> SUBSET Messages] /\ mailing \in [Senders -> SUBSET Messages]
    /\ receipt \in [Senders -> {"none", "ok", "error"}]
    /\ cronRuns \in 0..Runs

\* A row says 'sent' only if the provider took the message, and 'failed' only
\* after MaxAttempts failed sends of it: overlapping runs that overwrite each
\* other, and acceptances whose UPDATE is rejected, do not change that.
StatusIsEarned ==
    \A m \in Messages : /\ note[m] = "sent" => mailed[m] > 0
                        /\ note[m] = "failed" => refusals[m] >= MaxAttempts

\* At most one message per dedupe key is live, also when a row that was failed,
\* or collected for a digest, is marked as sent late.
OneLivePerKey ==
    \A m \in Messages : note[m] \in Live => \A n \in SameKey(m) : note[n] \notin Live

Safety == TypeOK /\ StatusIsEarned /\ OneLivePerKey

\* Ten comments become one email: a digest the provider took is not sent again by
\* a run that starts after that.
DigestedOnce ==
    [][\A s \in Senders : SelectDigest(s) => \A m \in mailing'[s] : mailed[m] = 0]_vars
-----------------------------------------------------------------------------
(* Safety for any number of messages, keys and overlapping runs.  A status *)
(* is earned because the sender that writes it has a receipt, and because  *)
(* the attempts column never counts more than the sends that failed.       *)

\* What a sender holds and what the history has of it.
Accounts ==
    /\ \A s \in Senders : /\ task[s] = "idle" => mailing[s] = {}
                          /\ receipt[s] # "none" => mailing[s] # {}
                          /\ receipt[s] = "ok" => \A m \in mailing[s] : mailed[m] > 0
    /\ \A m \in Messages : refusals[m] >= tries[m]

IInv == Safety /\ Accounts

Sane == Runs \in Nat /\ MaxAttempts \in Nat
=============================================================================
