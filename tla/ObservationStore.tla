--------------------------- MODULE ObservationStore ---------------------------
(***************************************************************************)
(* observations.py: the bounded store of observation snapshots.  A         *)
(* snapshot lives until it is TTL old, until it is the least recently used *)
(* of too many, until a mutation invalidates its target or provider, or    *)
(* until the store is closed; its records are released when it goes.       *)
(*                                                                         *)
(* Every operation of the store is one step: it never awaits.  Tokens are  *)
(* random and are taken to be new.                                         *)
(***************************************************************************)
EXTENDS Naturals, FiniteSets

CONSTANTS
    Tokens,         \* the tokens of the snapshots to come
    Kinds,          \* [target, generation, ids]: what a snapshot may show
    Expectations,   \* [provider, mode, target, generation], each may be None
    ProviderOf,     \* the provider of a target
    ModeOf,         \* its execution mode
    MaxSnapshots,   \* max_snapshots
    TTL,            \* ttl_seconds
    MaxClock,       \* bound on the clock
    None

Targets == {kind.target : kind \in Kinds}
Ids == UNION {kind.ids : kind \in Kinds}

StoreAssumption ==
    /\ IsFiniteSet(Tokens)
    /\ MaxSnapshots \in Nat \ {0}
    /\ TTL \in Nat \ {0}
    /\ MaxClock \in Nat
    /\ None \notin Tokens

VARIABLES
    fate,       \* new, live, expired, evicted, invalidated, closed or rejected
    info,       \* what each snapshot shows and when it was created
    older,      \* <<s, t>>: s was used before t (the order of _snapshots)
    released,   \* how often the records of each snapshot were released
    clock,
    closed,     \* _closed
    answer      \* what the last lookup returned

storeVars == <<fate, info, older, released, clock, closed, answer>>

NoInfo == [target |-> None, generation |-> 0, ids |-> {}, created |-> 0]
NoAnswer == [op |-> "none", token |-> None, id |-> None, outcome |-> "none"]

Live == {t \in Tokens : fate[t] = "live"}

StoreInit ==
    /\ fate = [t \in Tokens |-> "new"]
    /\ info = [t \in Tokens |-> NoInfo]
    /\ older = {}
    /\ released = [t \in Tokens |-> 0]
    /\ clock = 0
    /\ closed = FALSE
    /\ answer = NoAnswer

-----------------------------------------------------------------------------
(* _evict: each snapshot of Gone goes, for a reason.                       *)
Release(Gone) ==
    released' = [t \in Tokens |-> IF t \in Gone THEN released[t] + 1 ELSE released[t]]

(* A mutant of Expired: a snapshot is alive at the age of TTL.             *)
Overdue == {t \in Live : clock - info[t].created > TTL}

(* evict_expired, which every operation but the invalidations runs first.  *)
Expired == {t \in Live : clock - info[t].created >= TTL}

AfterExpiry == [t \in Tokens |-> IF t \in Expired THEN "expired" ELSE fate[t]]

Stored == {t \in Tokens : fate[t] \notin {"new", "rejected"}}

(* Insertion and move_to_end.                                              *)
MovedToEnd(t) ==
    {p \in older : p[1] # t} \union {<<s, t>> : s \in Stored \ {t}}

(* create: it evicts the least recently used snapshot of too many.         *)
Kept(t) == (Live \ Expired) \union {t}

Oldest(v, S) == \A s \in S \ {v} : <<v, s>> \in older'

(* A mutant of Keep: the records of the victim are not released.           *)
KeepUnreleased(t, victims) ==
    /\ fate' = [s \in Tokens |->
            IF s \in victims THEN "evicted"
            ELSE IF s = t THEN "live" ELSE AfterExpiry[s]]
    /\ Release(Expired)

Keep(t, victims) ==
    /\ fate' = [s \in Tokens |->
            IF s \in victims THEN "evicted"
            ELSE IF s = t THEN "live" ELSE AfterExpiry[s]]
    /\ Release(Expired \union victims)

Create(t, kind) ==
    /\ ~closed
    /\ fate[t] = "new"
    /\ info' = [info EXCEPT ![t] =
            [target |-> kind.target, generation |-> kind.generation,
             ids |-> kind.ids, created |-> clock]]
    /\ older' = MovedToEnd(t)
    /\ \/ /\ Cardinality(Kept(t)) <= MaxSnapshots
          /\ Keep(t, {})
       \/ /\ Cardinality(Kept(t)) > MaxSnapshots
          /\ \E v \in Kept(t) :
                /\ Oldest(v, Kept(t))
                /\ Keep(t, {v})
    /\ answer' = NoAnswer
    /\ UNCHANGED <<clock, closed>>

(* create fails over a record, before it evicts anything: the records that *)
(* it has taken, which fate[t] stands for, are released.  On a closed      *)
(* store, or with bad arguments, create raises before it takes a record,   *)
(* and nothing changes.                                                    *)
Reject(t) ==
    /\ ~closed
    /\ fate[t] = "new"
    /\ fate' = [fate EXCEPT ![t] = "rejected"]
    /\ Release({t})
    /\ answer' = NoAnswer
    /\ UNCHANGED <<info, older, clock, closed>>

-----------------------------------------------------------------------------
(* resolve, resolve_with_snapshot and, without an id, get_snapshot.  What  *)
(* the caller does not expect it leaves None.                              *)
Meets(actual, expected) == expected \in {None, actual}

Matches(t, e) ==
    /\ Meets(ProviderOf[info[t].target], e.provider)
    /\ Meets(ModeOf[info[t].target], e.mode)
    /\ Meets(info[t].target, e.target)

ExpireFirst ==
    /\ fate' = AfterExpiry
    /\ Release(Expired)

Touch(t, reached) == older' = IF reached THEN MovedToEnd(t) ELSE older

Found(t, id) == id = None \/ id \in info[t].ids

Lookup(t, id, e) ==
    LET here == t \in Live \ Expired
        current == Meets(info[t].generation, e.generation)
        reached == here /\ Matches(t, e) /\ current
        outcome ==
            CASE ~here -> "stale"
              [] here /\ ~Matches(t, e) -> "mismatch"
              [] here /\ Matches(t, e) /\ ~current -> "stale"
              [] reached /\ ~Found(t, id) -> "missing"
              [] reached /\ Found(t, id) -> "ok" IN
    /\ ExpireFirst
    /\ Touch(t, reached)
    /\ answer' = [op |-> "lookup", token |-> t, id |-> id, outcome |-> outcome]
    /\ UNCHANGED <<info, clock, closed>>

(* resolve_legacy: an id without a token.                                  *)
Holders(id, mode) ==
    {t \in Live \ Expired : ModeOf[info[t].target] = mode /\ id \in info[t].ids}

LookupLegacy(id, mode) ==
    /\ ExpireFirst
    /\ \/ /\ Holders(id, mode) = {}
          /\ answer' = [op |-> "legacy", token |-> None, id |-> id, outcome |-> "stale"]
       \/ \E t \in Holders(id, mode) :
            /\ Holders(id, mode) = {t}
            /\ answer' = [op |-> "legacy", token |-> t, id |-> id, outcome |-> "ok"]
       \/ /\ \E s, t \in Holders(id, mode) : s # t
          /\ answer' = [op |-> "legacy", token |-> None, id |-> id, outcome |-> "ambiguous"]
    /\ UNCHANGED <<info, older, clock, closed>>

-----------------------------------------------------------------------------
(* invalidate_target, invalidate_provider and close; none looks at ages.   *)
Drop(Gone, why) ==
    /\ fate' = [t \in Tokens |-> IF t \in Gone THEN why ELSE fate[t]]
    /\ Release(Gone)
    /\ answer' = NoAnswer
    /\ UNCHANGED <<info, older, clock>>

InvalidateTarget(x) ==
    /\ Drop({t \in Live : info[t].target = x}, "invalidated")
    /\ UNCHANGED closed

InvalidateProvider(provider, mode) ==
    /\ Drop({t \in Live : /\ ProviderOf[info[t].target] = provider
                          /\ ModeOf[info[t].target] = mode}, "invalidated")
    /\ UNCHANGED closed

Close ==
    /\ ~closed
    /\ closed' = TRUE
    /\ Drop(Live, "closed")

Tick ==
    /\ clock < MaxClock
    /\ clock' = clock + 1
    /\ answer' = NoAnswer
    /\ UNCHANGED <<fate, info, older, released, closed>>

-----------------------------------------------------------------------------
StoreStep ==
    \/ \E t \in Tokens :
        \/ \E kind \in Kinds : Create(t, kind)
        \/ Reject(t)
        \/ \E id \in Ids \union {None}, e \in Expectations : Lookup(t, id, e)
    \/ \E x \in Targets :
        \/ \E id \in Ids : LookupLegacy(id, ModeOf[x])
        \/ InvalidateTarget(x)
        \/ InvalidateProvider(ProviderOf[x], ModeOf[x])
    \/ Close

StoreNext == StoreStep \/ Tick

StoreSpec == StoreInit /\ [][StoreNext]_storeVars

-----------------------------------------------------------------------------
(* Properties.                                                             *)

Fates == {"new", "live", "expired", "evicted", "invalidated", "closed", "rejected"}

StoreTypeOK ==
    /\ fate \in [Tokens -> Fates]
    /\ DOMAIN info = Tokens
    /\ \A t \in Tokens : info[t].created \in 0..MaxClock
    /\ older \subseteq Tokens \X Tokens
    /\ \A p \in older : <<p[2], p[1]>> \notin older
    /\ released \in [Tokens -> Nat]
    /\ clock \in 0..MaxClock
    /\ closed \in BOOLEAN
    /\ answer.token \in Tokens \union {None}

(* The records of a snapshot are released once, when it goes, whichever of *)
(* the five ways it goes.                                                  *)
ReleasedOnce ==
    \A t \in Tokens : released[t] = IF fate[t] \in {"new", "live"} THEN 0 ELSE 1

(* The store holds at most MaxSnapshots snapshots.                         *)
Bounded == Cardinality(Live) <= MaxSnapshots

(* A snapshot goes for want of room only when every snapshot that stays,   *)
(* and never fewer than MaxSnapshots, was used after it.                   *)
LeastRecentlyUsed ==
    \A t \in Tokens :
        fate[t] = "evicted" =>
            /\ \A s \in Live : <<t, s>> \in older
            /\ Cardinality({s \in Tokens : <<t, s>> \in older}) >= MaxSnapshots

(* What a lookup resolves is live and younger than TTL, and the snapshot   *)
(* that an unqualified id resolves to is the only live one to show it in   *)
(* its mode.                                                               *)
AnswersLive ==
    answer.outcome = "ok" =>
        LET t == answer.token IN
        /\ t \in Live
        /\ clock - info[t].created < TTL
        /\ answer.id # None => answer.id \in info[t].ids
        /\ answer.op = "legacy" =>
            \A s \in Live \ {t} :
                answer.id \in info[s].ids =>
                    ModeOf[info[s].target] # ModeOf[info[t].target]

(* The snapshot a client has just used is not the next one to go for want  *)
(* of room: using a snapshot keeps it.                                     *)
JustUsedStays ==
    [][ answer.op = "lookup" /\ answer.outcome = "ok" /\ MaxSnapshots > 1
            => fate'[answer.token] # "evicted" ]_storeVars
=============================================================================
