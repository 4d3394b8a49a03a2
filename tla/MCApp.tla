-------------------------------- MODULE MCApp -------------------------------
(* Instances of the blocks of App for TLC, each the smallest in which the  *)
(* races of its block happen.                                              *)
EXTENDS App

\* InboundWebhooks: two deliveries of a charge around a rotation of the secret, and a push.
MCEventOf == [c \in Calls |-> IF c = "c3" THEN "push" ELSE "charge"]
MCProvider == [e \in {"charge", "push"} |-> IF e = "charge" THEN "stripe" ELSE "generic"]
MCSignedWith == [c \in Calls |-> CASE c = "c1" -> {"old"}
                                   [] c = "c2" -> {"old", "new"}
                                   [] c = "c3" -> {"new"}]

\* Notifications: two rows with one dedupe key.
MCDedupeKeyOf == [m \in Messages |-> "k"]

\* Billing: one subscription that is late, pays and ends, and one that is past due.
MCSub == [p \in Payloads |-> IF p = "team" THEN "s2" ELSE "s1"]
MCStamp == [p \in Payloads |-> CASE p = "late" -> 1 [] p = "paid" -> 2 [] OTHER -> 3]
MCStatus == [p \in Payloads |-> CASE p \in {"late", "team"} -> "past_due"
                                  [] p = "paid" -> "active"
                                  [] p = "ended" -> "canceled"]
MCPaidTo == [p \in Payloads |-> IF p \in {"late", "ended"} THEN 0 ELSE 1]
MCSchedule == [i \in 0..1 |-> i]

MCStreams == 1..2

\* FeatureFlags: two variants, the second with twice the weight.
MCWeights == <<1, 2>>
MCSlips == {<<2, 1, 6>>}

\* Chat: a turn, its retry, and the same key from another caller.
MCCaller == <<"ann", "ann", "bob">>
MCMessageId == <<"k", "k", "k">>

\* SemanticCache: prompts 1 and 2 are near enough to share an answer, models are not shared.
MCTokensOf == <<5, 7, 9>>
MCAskOf == LET Ask(m, p) == [namespace |-> "n", model |-> m, prompt |-> p]
           IN  <<Ask("m", 1), Ask("m", 1), Ask("o", 2), Ask("m", 1), Ask("m", 2)>>

\* Analytics: a fact that is delivered twice and one that is late.
MCNameOf == <<"view", "buy", "buy">>
MCAt == <<2, 1, 3>>
MCFactKeyOf == <<"a", NoKey, NoKey>>
MCFunnels == {<<"view", "buy">>, <<"buy", "view">>}

\* Migrations: an old release and two copies of a new one.
MCRelease == [old |-> 2, new |-> 3, twin |-> 3]

\* SubjectRequests: each row names the subject twice, under different handlings.
MCSubjectRows == [a |-> [table |-> "orders", columns |-> {"buyer", "payer"}],
                  b |-> [table |-> "orders", columns |-> {"buyer", "seller"}]]
MCLinks == LET Link(c, h) == [table |-> "orders", column |-> c, handling |-> h]
           IN  <<Link("buyer", "anonymize"), Link("payer", "erase"), Link("seller", "export")>>
MCInquiries == [x |-> "erase", z |-> "export"]

\* PiiAnonymizer: one table with a primary key and one without.
MCFilled == {<<"users", 1>>, <<"users", 2>>, <<"users", 3>>, <<"logs", 1>>, <<"visits", 1>>}
MCWritten == {<<"users", 3>>}

=============================================================================
