---------------------------- MODULE SemanticCache ----------------------------
(***************************************************************************)
(* The cache of model answers (blocks/semantic-cache): POST /lookup, first *)
(* by the hash and then by similarity, POST /store, POST /sweep (cron).    *)
(* Each is a few statements with the embedding call between them, while    *)
(* the clock runs and other requests and the sweep work on the same rows.  *)
(*                                                                         *)
(* A response is known by the request that stored it.  promptHash is taken *)
(* to be injective; a prompt is a number, its distance to another one is   *)
(* that of the numbers.                                                    *)
(***************************************************************************)
EXTENDS Integers, FiniteSets, SequencesExt

CONSTANTS Stores, Lookups,   \* requests
          AskOf,             \* request -> [namespace, model, prompt]
          TokensOf,          \* store -> tokens of the call it caches
          Ttl, LastNow,      \* CACHE_TTL_HOURS; bound of the clock
          Reach              \* prompts this far apart meet the threshold

VARIABLES entries,  \* key -> [response, tokens, expires], or the key is not there
          store,    \* store -> "new", "embedded", "stored"
          lookup,   \* lookup -> [at, kind, response, saved, and what it saw]
          stats,    \* [hits, misses, saved]
          now,
          written,  \* history: stores in the order in which they wrote
          expiry    \* history: store -> when what it wrote expires

vars == <<entries, store, lookup, stats, now, written, expiry>>

Distance(p, q) == IF p < q THEN q - p ELSE p - q
Key(x) == AskOf[x]
IsLive(k) == entries[k].expires > now
None == 0

Init ==
    /\ entries = << >> /\ now = 0 /\ written = << >>
    /\ store = [s \in Stores |-> "new"] /\ expiry = [s \in Stores |-> 0]
    /\ lookup = [l \in Lookups |-> [at |-> "new", response |-> None, saved |-> 0,
                                    owed |-> {}, begun |-> 0]]
    /\ stats = [hits |-> 0, misses |-> 0, saved |-> 0]

-----------------------------------------------------------------------------
EmbedStored(s) ==
    /\ store[s] = "new" /\ store' = [store EXCEPT ![s] = "embedded"]
    /\ UNCHANGED <<entries, lookup, stats, now, written, expiry>>

ExpiresOnce(s) == IF Key(s) \in DOMAIN entries THEN entries[Key(s)].expires ELSE now + Ttl

\* expires_at = EXCLUDED.expires_at: storing again starts a new term.
Expires(s) == now + Ttl

\* The upsert: a row that is there keeps its token counts.
WriteStored(s) ==
    /\ store[s] = "embedded" /\ store' = [store EXCEPT ![s] = "stored"]
    /\ LET row == [response |-> s, expires |-> Expires(s),
                   tokens |-> IF Key(s) \in DOMAIN entries THEN entries[Key(s)].tokens
                              ELSE TokensOf[s]]
       IN  entries' = [k \in DOMAIN entries \union {Key(s)} |->
                          IF k = Key(s) THEN row ELSE entries[k]]
    /\ written' = Append(written, s) /\ expiry' = [expiry EXCEPT ![s] = now + Ttl]
    /\ UNCHANGED <<lookup, stats, now>>

Hits(k) == [response |-> entries[k].response, saved |-> entries[k].tokens]

\* The fast path, one UPDATE.
Exact(l) ==
    /\ lookup[l].at = "new"
    /\ LET k == Key(l)
           hit == k \in DOMAIN entries /\ IsLive(k)
           owed == {s \in Stores : Key(s) = k /\ store[s] = "stored" /\ expiry[s] > now}
       IN  lookup' = [lookup EXCEPT ![l] =
               [at |-> IF hit THEN "hit" ELSE "missed", owed |-> owed, begun |-> now,
                response |-> IF hit THEN Hits(k).response ELSE None,
                saved |-> IF hit THEN Hits(k).saved ELSE 0]]
    /\ UNCHANGED <<entries, store, stats, now, written, expiry>>

EmbedAsked(l) ==
    /\ lookup[l].at = "missed" /\ lookup' = [lookup EXCEPT ![l].at = "embedded"]
    /\ UNCHANGED <<entries, store, stats, now, written, expiry>>

SharesNamespace(k, l) == k.namespace = Key(l).namespace
SharesScope(k, l) == k.namespace = Key(l).namespace /\ k.model = Key(l).model

\* similarityLookup: the nearest live entry of the scope, one of them if several are.
Nearest(l) ==
    LET near == {k \in DOMAIN entries : SharesScope(k, l) /\ IsLive(k)}
    IN  {k \in near : \A j \in near : Distance(k.prompt, Key(l).prompt)
                                         <= Distance(j.prompt, Key(l).prompt)}

MeetsThreshold(k, l) == Distance(k.prompt, Key(l).prompt) <= Reach

Search(l) ==
    /\ lookup[l].at = "embedded"
    /\ \/ \E k \in Nearest(l) :
             /\ MeetsThreshold(k, l)
             /\ lookup' = [lookup EXCEPT ![l] = [@ EXCEPT !.at = "hit", !.begun = now,
                              !.response = Hits(k).response, !.saved = Hits(k).saved]]
       \/ /\ Nearest(l) = {} \/ \E k \in Nearest(l) : ~MeetsThreshold(k, l)
          /\ lookup' = [lookup EXCEPT ![l].at = "nothing"]
    /\ UNCHANGED <<entries, store, stats, now, written, expiry>>

\* recordStat, and then the answer.  A hit_count of a row that is gone by now is lost.
Answer(l) ==
    /\ lookup[l].at \in {"hit", "nothing"}
    /\ lookup' = [lookup EXCEPT ![l].at = "answered"]
    /\ stats' = IF lookup[l].at = "hit"
                THEN [stats EXCEPT !.hits = @ + 1, !.saved = @ + lookup[l].saved]
                ELSE [stats EXCEPT !.misses = @ + 1]
    /\ UNCHANGED <<entries, store, now, written, expiry>>

Sweep ==
    /\ \E k \in DOMAIN entries : ~IsLive(k)
    /\ entries' = [k \in {j \in DOMAIN entries : IsLive(j)} |-> entries[k]]
    /\ UNCHANGED <<store, lookup, stats, now, written, expiry>>

Tick == now < LastNow /\ now' = now + 1
        /\ UNCHANGED <<entries, store, lookup, stats, written, expiry>>

Next == \/ \E s \in Stores : EmbedStored(s) \/ WriteStored(s)
        \/ \E l \in Lookups : Exact(l) \/ EmbedAsked(l) \/ Search(l) \/ Answer(l)
        \/ Sweep \/ Tick

Spec == Init /\ [][Next]_vars

-----------------------------------------------------------------------------
TypeOK ==
    /\ DOMAIN entries \subseteq {AskOf[s] : s \in Stores}
    /\ \A l \in Lookups : lookup[l].at \in {"new", "missed", "embedded", "hit", "nothing",
                                            "answered"}

\* An answer comes from the namespace and the model that were asked, for a prompt within the
\* threshold, and its term had not ended when it was read.
HitsAreInScope ==
    \A l \in Lookups :
        LET s == lookup[l].response
        IN  s # None => /\ Key(s).namespace = Key(l).namespace /\ Key(s).model = Key(l).model
                        /\ Distance(Key(s).prompt, Key(l).prompt) <= Reach
                        /\ expiry[s] > lookup[l].begun

\* What was stored is found as long as its term lasts, whatever the sweep and other stores do:
\* a lookup that begins after the store was acknowledged gets this answer or a later one.
StoredIsFound ==
    \A l \in Lookups : lookup[l].at = "answered" =>
        \A s \in lookup[l].owed :
            \E i, j \in DOMAIN written :
                written[i] = s /\ written[j] = lookup[l].response /\ i <= j

Safety == TypeOK /\ HitsAreInScope /\ StoredIsFound

\* The tokens that a hit saved are those of the call whose answer it gave.
SavedIsTrue ==
    \A l \in Lookups : lookup[l].response # None =>
        lookup[l].saved = TokensOf[lookup[l].response]
-----------------------------------------------------------------------------
(* Why Safety holds: an entry is of the last store of its key, which       *)
(* lasts longest, so that what lives has its entry.                        *)

Sane ==
    /\ None \notin Stores /\ Ttl \in Nat /\ Reach \in Nat
    /\ \A x \in Stores \union Lookups : AskOf[x].prompt \in Int

LookupFields == {"at", "response", "saved", "owed", "begun"}

Rows ==
    /\ now \in Nat /\ expiry \in [Stores -> Nat] /\ written \in Seq(Stores)
    /\ store \in [Stores -> {"new", "embedded", "stored"}]
    /\ DOMAIN lookup = Lookups /\ \A l \in Lookups : DOMAIN lookup[l] = LookupFields

\* The store s has written, and r not before it.
NotBefore(r, s) == \E i, j \in DOMAIN written : written[i] = s /\ written[j] = r /\ i <= j

EntriesAreStored ==
    \A k \in DOMAIN entries :
        LET s == entries[k].response
        IN  s \in Stores /\ store[s] = "stored" /\ Key(s) = k /\ entries[k].expires = expiry[s]

StoredLives ==
    \A s \in Stores : store[s] = "stored" =>
        /\ expiry[s] <= now + Ttl
        /\ \/ expiry[s] <= now
           \/ /\ Key(s) \in DOMAIN entries /\ expiry[s] <= entries[Key(s)].expires
              /\ NotBefore(entries[Key(s)].response, s)

\* What a lookup is owed, it has got, or has still to be given.
LookupsServed ==
    \A l \in Lookups :
        LET w == lookup[l]
        IN  /\ w.response # None => /\ w.response \in Stores /\ store[w.response] = "stored"
                                    /\ w.at \in {"hit", "answered"}
            /\ \A s \in w.owed : w.at \in {"hit", "answered"} /\ NotBefore(w.response, s)

IInv == TypeOK /\ Rows /\ EntriesAreStored /\ StoredLives /\ LookupsServed /\ HitsAreInScope
=============================================================================
