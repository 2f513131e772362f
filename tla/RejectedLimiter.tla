-------------------------- MODULE RejectedLimiter ---------------------------
(***************************************************************************)
(* The limiter of audit appends for rejected credentials: cookies          *)
(* (createRejectedCookieLimiter, runtime/src/auth.ts) and bearer tokens    *)
(* (createRejectedTokenLimiter, mcp/src/rate-limit.ts), one algorithm      *)
(* written twice.  Time is a counter of clock ticks.                       *)
(***************************************************************************)
EXTENDS Naturals, Sequences, FiniteSets

CONSTANTS Keys,             \* hashes of the rejected values
          DedupTtl,         \* dedupTtlMs
          DedupMaxEntries,
          Window,           \* windowMs
          WindowMaxAppends,
          MaxTime           \* bound: ticks of a run

ASSUME LimiterAssumption ==
  /\ DedupTtl \in Nat /\ Window \in Nat /\ MaxTime \in Nat
  /\ DedupMaxEntries \in Nat \ {0} /\ WindowMaxAppends \in Nat

VARIABLES now,
          seen,         \* the Map, as its entries in insertion order
          windowStart,
          windowCount,
          appends       \* history: the appends allowed so far, in order

vars == <<now, seen, windowStart, windowCount, appends>>

Init == /\ now = 0
        /\ seen = <<>>
        /\ windowStart = 0
        /\ windowCount = 0
        /\ appends = <<>>

Tick == /\ now < MaxTime
        /\ now' = now + 1
        /\ UNCHANGED <<seen, windowStart, windowCount, appends>>

-----------------------------------------------------------------------------
\* Positions of a key in the Map: none or one.
EntryOf(key) == {i \in 1..Len(seen) : seen[i].key = key}

\* The value was audited less than a TTL ago.
Blocked(key) == \E i \in EntryOf(key) : seen[i].expiry > now

\* Mutant: the window is started anew by every allowed append.
WindowOver_Always == TRUE

WindowOver == now - windowStart >= Window

\* Appends counted in the current window.
CountNow == IF WindowOver THEN 0 ELSE windowCount

\* At the limit the entry inserted first goes, whatever its expiry.
Evicted(entries) == IF Len(entries) >= DedupMaxEntries THEN Tail(entries) ELSE entries

\* Map.set: an entry that is still there keeps its place in the order.
MapSet(entries, key, expiry) ==
  IF \E i \in 1..Len(entries) : entries[i].key = key
  THEN [i \in 1..Len(entries) |->
          IF entries[i].key = key THEN [key |-> key, expiry |-> expiry] ELSE entries[i]]
  ELSE Append(entries, [key |-> key, expiry |-> expiry])

\* shouldAppend that answers false on the dedup check.
Deduplicated(key) == Blocked(key) /\ UNCHANGED vars

\* shouldAppend that answers false because the window is full.
WindowFull(key) ==
  /\ ~Blocked(key)
  /\ CountNow >= WindowMaxAppends
  /\ windowStart' = IF WindowOver THEN now ELSE windowStart
  /\ windowCount' = CountNow
  /\ UNCHANGED <<now, seen, appends>>

\* shouldAppend that answers true.
Allowed(key) ==
  /\ ~Blocked(key)
  /\ CountNow < WindowMaxAppends
  /\ windowStart' = IF WindowOver THEN now ELSE windowStart
  /\ windowCount' = CountNow + 1
  /\ seen' = MapSet(Evicted(seen), key, now + DedupTtl)
  /\ appends' = Append(appends, [key |-> key, at |-> now])
  /\ UNCHANGED now

shouldAppend(key) == Deduplicated(key) \/ WindowFull(key) \/ Allowed(key)

Next == Tick \/ \E key \in Keys : shouldAppend(key)

Spec == Init /\ [][Next]_vars

-----------------------------------------------------------------------------
AppendsWithin(from) ==
  {i \in 1..Len(appends) : from <= appends[i].at /\ appends[i].at < from + Window}

\* However requests arrive, no span of one window length sees more than two
\* windows' worth of audit appends (the window is a fixed one, restarted by the
\* first call after its end, so the cap alone would be too little to claim).
TwoWindowsCap ==
  \A from \in 0..MaxTime : Cardinality(AppendsWithin(from)) <= 2 * WindowMaxAppends

\* The doc comment: "the SAME rejected cookie value is audited once per TTL
\* window".
OncePerTtl ==
  \A i, j \in 1..Len(appends) :
     (i < j /\ appends[i].key = appends[j].key)
        => appends[j].at >= appends[i].at + DedupTtl

-----------------------------------------------------------------------------
(* Why it works: a span of one window length meets at most two windows.    *)

\* The appends from one time on and before another.
AppendsBetween(from, to) == {i \in 1..Len(appends) : from <= appends[i].at /\ appends[i].at < to}
AppendsSince(from) == {i \in 1..Len(appends) : from <= appends[i].at}

WindowTypes == /\ now \in Nat /\ windowStart \in 0..now /\ windowCount \in Nat
               /\ Len(appends) \in Nat /\ appends = [i \in 1..Len(appends) |-> appends[i]]
               /\ \A i \in 1..Len(appends) : appends[i].at \in 0..now

\* A window that began at start and counted count appends: it has no more since
\* then and lasts until after the last of them, and whatever one window length
\* before it holds came from one window.
WindowHas(start, count) ==
  Window # 0 =>
    /\ \A i \in 1..Len(appends) : appends[i].at < start + Window
    /\ Cardinality(AppendsSince(start)) <= count
    /\ \A from \in Nat : from + Window >= start
         => Cardinality(AppendsBetween(from, start)) <= WindowMaxAppends

LimiterInv == /\ WindowTypes
              /\ windowCount <= WindowMaxAppends
              /\ WindowHas(windowStart, windowCount)
              /\ \A from \in Nat : Cardinality(AppendsWithin(from)) <= 2 * WindowMaxAppends

\* A value has one entry, which expires no earlier than a TTL after every append
\* of the value.
Entry == [key : Keys, expiry : Nat]
Audit == [key : Keys, at : Nat]
DedupTypes == now \in Nat /\ seen \in Seq(Entry) /\ appends \in Seq(Audit)

OneEntry == \A i, j \in 1..Len(seen) : seen[i].key = seen[j].key => i = j

StillSeen ==
  \A i \in 1..Len(appends) : \E e \in 1..Len(seen) :
     seen[e].key = appends[i].key /\ appends[i].at + DedupTtl <= seen[e].expiry

\* While the values are fewer than the entries there is room for, none is evicted.
DedupInv == DedupTypes /\ OneEntry /\ StillSeen /\ OncePerTtl
=============================================================================
