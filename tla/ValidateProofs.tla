--------------------------- MODULE ValidateProofs ---------------------------
(***************************************************************************)
(* The breadth-first search of reachesEnd decides reachability, for every  *)
(* document.  The invariant says that what the search has reached lies in  *)
(* every closed set that holds initial, and that what it has expanded is   *)
(* closed up to the queue and free of end steps: when the queue runs out,  *)
(* the expanded steps are themselves a closed set without an end.          *)
(*                                                                         *)
(* A definition that was accepted and registered stays what it is: all     *)
(* steps of an instance are taken by the one definition registered under   *)
(* the version it is pinned to, for any number of replicas and versions.   *)
(***************************************************************************)
EXTENDS Validate, Registry, TLAPS

\* A leaf is left to Zenon unless it names the SMT solver.
USE ZenonT(30)

Elems(q) == {q[n] : n \in DOMAIN q}

\* The search has expanded done and reached R: R lies in every closed set of
\* steps that holds initial, and done is closed up to R and holds no end step.
Searching(d, done, R) ==
    /\ d.initial \in R
    /\ \A S \in SUBSET Ids(d) :
          d.initial \in S /\ Closed(StepMap(d), S) => R \subseteq S
    /\ \A id \in done : /\ StepMap(d)[id].type # "end"
                        /\ Successors(StepMap(d), id) \subseteq R

SearchInv ==
    /\ TypeOK
    /\ verdict = "pending" => seen = {}
    /\ verdict = "searching" =>
          Structured(doc) /\ Searching(doc, seen, seen \cup Elems(queue))
    /\ VerdictCorrect

\* Pushing a step that exists keeps the queue a sequence of existing steps; it
\* holds what it held, and the pushed step unless that is absent or expanded.
LEMMA PushElems ==
    ASSUME NEW T, NEW q \in Seq(T), NEW id, NEW done, id \in T \cup {NoStep}
    PROVE  /\ Push(q, id, done) \in Seq(T)
           /\ Elems(q) \subseteq Elems(Push(q, id, done))
           /\ Elems(Push(q, id, done)) \subseteq Elems(q) \cup ({id} \ {NoStep})
           /\ {id} \ {NoStep} \subseteq Elems(Push(q, id, done)) \cup done
<1>1. CASE id # NoStep /\ id \notin done
  <2>1. Push(q, id, done) = Append(q, id)
    BY <1>1 DEF Push
  <2>2. Append(q, id) \in Seq(T)
    BY SMTT(30), <1>1
  <2>3. /\ DOMAIN Append(q, id) = DOMAIN q \cup {Len(q) + 1}
        /\ Append(q, id)[Len(q) + 1] = id
        /\ \A n \in DOMAIN q : Append(q, id)[n] = q[n]
    BY SMTT(30), <1>1
  <2>4. Elems(Append(q, id)) = Elems(q) \cup {id}
    BY <2>3, Zenon DEF Elems
  <2> QED BY <2>1, <2>2, <2>4, <1>1
<1>2. CASE ~(id # NoStep /\ id \notin done)
  BY <1>2 DEF Push
<1> QED BY <1>1, <1>2

\* The head and the tail of the queue hold exactly what it held.
LEMMA HeadTail ==
    ASSUME NEW T, NEW q \in Seq(T), q # <<>>
    PROVE  /\ Head(q) \in T
           /\ Tail(q) \in Seq(T)
           /\ Elems(q) = Elems(Tail(q)) \cup {Head(q)}
<1>1. Head(q) \in T /\ Tail(q) \in Seq(T)
  BY SMTT(30)
<1>2. Len(q) \in Nat /\ Len(q) >= 1 /\ DOMAIN q = 1..Len(q) /\ Head(q) = q[1]
  BY SMTT(30)
<1>3. DOMAIN Tail(q) = 1..(Len(q) - 1)
      /\ \A n \in 1..(Len(q) - 1) : Tail(q)[n] = q[n + 1]
  BY SMTT(30), <1>2
<1>4. \A n \in 1..Len(q) : n = 1 \/ (n - 1 \in 1..(Len(q) - 1) /\ n = (n - 1) + 1)
  BY SMTT(30), <1>2
<1>5. ASSUME NEW n \in DOMAIN q PROVE q[n] \in Elems(Tail(q)) \cup {Head(q)}
  <2>1. CASE n = 1
    BY <1>2, <2>1
  <2>2. CASE n # 1
    <3>1. n - 1 \in DOMAIN Tail(q) /\ Tail(q)[n - 1] = q[n]
      BY <1>2, <1>3, <1>4, <2>2
    <3> QED BY <3>1 DEF Elems
  <2> QED BY <2>1, <2>2
<1>6. ASSUME NEW n \in DOMAIN Tail(q) PROVE Tail(q)[n] \in Elems(q)
  <2>1. n + 1 \in DOMAIN q
    BY SMTT(30), <1>2, <1>3
  <2> QED BY <1>3, <2>1 DEF Elems
<1> QED BY SMTT(30), <1>1, <1>2, <1>5, <1>6 DEF Elems

\* A structured document's successors are steps of the document.
LEMMA StepsExist ==
    ASSUME NEW d, Structured(d), NEW id \in Ids(d)
    PROVE  /\ StepMap(d)[id].next \in Ids(d) \cup {NoStep}
           /\ StepMap(d)[id].timeoutNext \in Ids(d) \cup {NoStep}
<1>1. DOMAIN StepMap(d) = Ids(d)
  BY DEF StepMap
<1>2. RefsExist(StepMap(d), StepMap(d)[id])
  BY DEF Structured
<1> QED BY <1>1, <1>2 DEF RefsExist

\* When the search meets an end step, no closed set avoids every end step.
LEMMA EndReached ==
    ASSUME NEW d, NEW done, NEW R, Searching(d, done, R),
           NEW id \in R, StepMap(d)[id].type = "end"
    PROVE  ReachesEnd(Def(d))
<1>1. DOMAIN StepMap(d) = Ids(d)
  BY DEF StepMap
<1>2. Def(d).steps = StepMap(d) /\ Def(d).initial = d.initial
  BY DEF Def
<1> QED BY <1>1, <1>2 DEF ReachesEnd, Searching

\* When the queue runs out, the expanded steps are a closed set without an end.
LEMMA EndMissed ==
    ASSUME NEW d, NEW done \in SUBSET Ids(d), Searching(d, done, done)
    PROVE  ~ReachesEnd(Def(d))
<1>1. DOMAIN StepMap(d) = Ids(d)
  BY DEF StepMap
<1>2. Def(d).steps = StepMap(d) /\ Def(d).initial = d.initial
  BY DEF Def
<1>3. Closed(StepMap(d), done) /\ d.initial \in done
  BY DEF Closed, Searching
<1>4. \A id \in done : StepMap(d)[id].type # "end"
  BY DEF Searching
<1> QED BY <1>1, <1>2, <1>3, <1>4 DEF ReachesEnd

\* Expanding a step keeps what is reached inside every closed set and leaves
\* what is expanded closed up to what is reached.
LEMMA ExpandSearching ==
    ASSUME NEW d, NEW done, NEW R, NEW R2, Searching(d, done, R),
           NEW id \in R, StepMap(d)[id].type # "end",
           R \subseteq R2, Successors(StepMap(d), id) \subseteq R2,
           R2 \subseteq R \cup Successors(StepMap(d), id)
    PROVE  Searching(d, done \cup {id}, R2)
<1>1. d.initial \in R2
  BY DEF Searching
<1>2. ASSUME NEW S \in SUBSET Ids(d), d.initial \in S, Closed(StepMap(d), S)
      PROVE  R2 \subseteq S
  <2>1. R \subseteq S
    BY <1>2 DEF Searching
  <2>2. Successors(StepMap(d), id) \subseteq S
    BY <1>2, <2>1 DEF Closed
  <2> QED BY <2>1, <2>2
<1>3. ASSUME NEW x \in done \cup {id}
      PROVE  StepMap(d)[x].type # "end" /\ Successors(StepMap(d), x) \subseteq R2
  BY <1>3 DEF Searching
<1> QED BY <1>1, <1>2, <1>3 DEF Searching

\* Validate starts with nothing reached.
LEMMA InitSearch == Init => SearchInv
  BY SMTT(30) DEF Init, SearchInv, TypeOK, VerdictCorrect

\* The structural checks hand over to a search that has reached initial only.
LEMMA CheckStructureSearch == SearchInv /\ CheckStructure => SearchInv'
<1> SUFFICES ASSUME SearchInv, CheckStructure PROVE SearchInv'
  OBVIOUS
<1>1. /\ TypeOK /\ seen = {} /\ doc' = doc /\ seen' = seen
      /\ verdict' \in {"searching", "rejected"}
  BY DEF CheckStructure, SearchInv
<1>2. CASE ~Structured(doc) /\ verdict' = "rejected" /\ queue' = queue
  BY <1>1, <1>2 DEF TypeOK, VerdictCorrect, SearchInv
<1>3. CASE Structured(doc) /\ verdict' = "searching" /\ queue' = <<doc.initial>>
  <2>1. doc.initial \in Ids(doc)
    BY <1>3 DEF Structured
  <2>2. TypeOK'
    BY SMTT(30), <1>1, <1>3, <2>1 DEF TypeOK
  <2>3. Elems(queue') = {doc.initial}
    BY SMTT(30), <1>3 DEF Elems
  <2>4. Searching(doc, {}, {doc.initial})
    BY DEF Searching
  <2>5. Searching(doc', seen', seen' \cup Elems(queue'))
    BY <1>1, <2>3, <2>4
  <2> QED BY <1>1, <1>3, <2>2, <2>5 DEF VerdictCorrect, SearchInv
<1> QED BY <1>2, <1>3 DEF CheckStructure

\* Dropping a step that is already expanded loses nothing.
LEMMA SkipSearch == SearchInv /\ SkipSeen => SearchInv'
<1> SUFFICES ASSUME SearchInv, SkipSeen PROVE SearchInv'
  OBVIOUS
<1>1. /\ TypeOK /\ Structured(doc)
      /\ Searching(doc, seen, seen \cup Elems(queue))
      /\ doc' = doc /\ seen' = seen /\ verdict' = "searching"
      /\ queue # <<>> /\ Head(queue) \in seen /\ queue' = Tail(queue)
  BY DEF SkipSeen, SearchInv
<1>2. queue \in Seq(Ids(doc))
  BY <1>1 DEF TypeOK
<1>3. /\ queue' \in Seq(Ids(doc))
      /\ seen \cup Elems(queue) = seen \cup Elems(queue')
  BY SMTT(30), <1>1, <1>2, HeadTail
<1>4. Searching(doc', seen', seen' \cup Elems(queue'))
  BY <1>1, <1>3
<1>5. TypeOK'
  BY <1>1, <1>3 DEF TypeOK
<1> QED BY <1>1, <1>4, <1>5 DEF VerdictCorrect, SearchInv

\* Meeting an end step decides the search.
LEMMA FoundEndSearch == SearchInv /\ FoundEnd => SearchInv'
<1> SUFFICES ASSUME SearchInv, FoundEnd PROVE SearchInv'
  OBVIOUS
<1>1. /\ TypeOK /\ Structured(doc)
      /\ Searching(doc, seen, seen \cup Elems(queue))
      /\ doc' = doc /\ seen' = seen \cup {Head(queue)} /\ verdict' = "accepted"
      /\ queue # <<>> /\ queue' = Tail(queue)
      /\ StepMap(doc)[Head(queue)].type = "end"
  BY DEF FoundEnd, SearchInv
<1>2. queue \in Seq(Ids(doc))
  BY <1>1 DEF TypeOK
<1>3. /\ Head(queue) \in Ids(doc) /\ queue' \in Seq(Ids(doc))
      /\ Head(queue) \in seen \cup Elems(queue)
  BY SMTT(30), <1>1, <1>2, HeadTail
<1>4. ReachesEnd(Def(doc))
  BY <1>1, <1>3, EndReached
<1>5. TypeOK'
  BY <1>1, <1>3 DEF TypeOK
<1> QED BY <1>1, <1>4, <1>5 DEF VerdictCorrect, SearchInv

\* Expanding a step keeps the search invariant.
LEMMA ExpandSearch == SearchInv /\ Expand => SearchInv'
<1> SUFFICES ASSUME SearchInv, Expand PROVE SearchInv'
  OBVIOUS
<1> DEFINE cur  == Head(queue)
           step == StepMap(doc)[cur]
           rest == Tail(queue)
           q1   == Push(rest, step.next, seen')
           q2   == Push(q1, step.timeoutNext, seen')
<1>1. /\ TypeOK /\ Structured(doc)
      /\ Searching(doc, seen, seen \cup Elems(queue))
      /\ doc' = doc /\ seen' = seen \cup {cur} /\ verdict' = "searching"
      /\ queue # <<>> /\ queue' = q2
      /\ step.type # "end"
  BY DEF Expand, SearchInv, PushSuccessors
<1>2. queue \in Seq(Ids(doc))
  BY <1>1 DEF TypeOK
<1>3. /\ cur \in Ids(doc) /\ rest \in Seq(Ids(doc))
      /\ Elems(queue) = Elems(rest) \cup {cur}
  BY <1>1, <1>2, HeadTail
<1>4. /\ step.next \in Ids(doc) \cup {NoStep}
      /\ step.timeoutNext \in Ids(doc) \cup {NoStep}
  BY <1>1, <1>3, StepsExist
<1>5. Successors(StepMap(doc), cur) = {step.next, step.timeoutNext} \ {NoStep}
  BY DEF Successors
<1> HIDE DEF cur, step, rest, q2
<1>6. /\ q1 \in Seq(Ids(doc))
      /\ Elems(rest) \subseteq Elems(q1)
      /\ Elems(q1) \subseteq Elems(rest) \cup ({step.next} \ {NoStep})
      /\ {step.next} \ {NoStep} \subseteq Elems(q1) \cup seen'
  BY SMTT(30), <1>3, <1>4, PushElems
<1> HIDE DEF q1
<1> USE DEF q2
<1>7. /\ q2 \in Seq(Ids(doc))
      /\ Elems(q1) \subseteq Elems(q2)
      /\ Elems(q2) \subseteq Elems(q1) \cup ({step.timeoutNext} \ {NoStep})
      /\ {step.timeoutNext} \ {NoStep} \subseteq Elems(q2) \cup seen'
  BY SMTT(30), <1>4, <1>6, PushElems
<1> HIDE DEF q2
<1> DEFINE R == seen \cup Elems(queue)
           R2 == seen' \cup Elems(q2)
<1>8. /\ R \subseteq R2 /\ Successors(StepMap(doc), cur) \subseteq R2
      /\ R2 \subseteq R \cup Successors(StepMap(doc), cur)
      /\ cur \in R
  BY <1>1, <1>3, <1>5, <1>6, <1>7
<1>9. StepMap(doc)[cur].type # "end" /\ Searching(doc, seen, R)
  BY <1>1 DEF step
<1> HIDE DEF R, R2
<1>10. Searching(doc, seen \cup {cur}, R2)
  BY <1>8, <1>9, ExpandSearching
<1>11. Searching(doc', seen', seen' \cup Elems(queue'))
  BY <1>1, <1>10 DEF R2
<1>12. TypeOK'
  BY <1>1, <1>3, <1>7 DEF TypeOK
<1> QED BY <1>1, <1>11, <1>12 DEF VerdictCorrect, SearchInv

\* Running out of steps decides the search.
LEMMA ExhaustedSearch == SearchInv /\ Exhausted => SearchInv'
<1> SUFFICES ASSUME SearchInv, Exhausted PROVE SearchInv'
  OBVIOUS
<1>1. /\ TypeOK /\ Structured(doc)
      /\ Searching(doc, seen, seen \cup Elems(queue))
      /\ doc' = doc /\ seen' = seen /\ queue' = queue /\ verdict' = "rejected"
      /\ queue = <<>>
  BY DEF Exhausted, SearchInv
<1>2. seen \cup Elems(queue) = seen
  BY SMTT(30), <1>1 DEF Elems
<1>3. ~ReachesEnd(Def(doc))
  BY <1>1, <1>2, EndMissed DEF TypeOK
<1>4. TypeOK'
  BY <1>1 DEF TypeOK
<1> QED BY <1>1, <1>3, <1>4 DEF VerdictCorrect, SearchInv

\* Validate accepts a document exactly when it is structured and an end step is
\* reachable, whatever the document: reachesEnd decides reachability.
THEOREM ValidateCorrect == Spec => [](TypeOK /\ VerdictCorrect)
<1>1. SearchInv /\ [Next]_vars => SearchInv'
  <2>1. ASSUME SearchInv, UNCHANGED vars PROVE SearchInv'
    <3>1. doc' = doc /\ seen' = seen /\ queue' = queue /\ verdict' = verdict
      BY <2>1 DEF vars
    <3> QED BY <2>1, <3>1 DEF SearchInv, TypeOK, VerdictCorrect
  <2> QED BY <2>1, CheckStructureSearch, SkipSearch, FoundEndSearch,
             ExpandSearch, ExhaustedSearch DEF Next
<1>2. SearchInv => TypeOK /\ VerdictCorrect
  BY DEF SearchInv
<1> QED BY InitSearch, <1>1, <1>2, PTL DEF Spec

-----------------------------------------------------------------------------
(* Registered definitions.                                                 *)

RegistryTypes ==
    /\ defs    \in [Version -> Content \cup {NoContent}]
    /\ latest  \in Version \cup {0}
    /\ cache   \in [Replica -> [Version -> Content \cup {NoContent}]]
    /\ fetched \in [Replica -> [version : Version, content : Content] \cup {NoFetch}]
    /\ pinned  \in [Instance -> Version \cup {0}]
    /\ ran     \in [Instance -> SUBSET Content]

\* MemStore.latest is the greatest version registered.
LatestKept ==
    /\ latest # 0 => defs[latest] # NoContent
    /\ \A v \in Version : defs[v] # NoContent => latest # 0 /\ v <= latest

\* What a replica has cached, or has read and not cached yet, is what the store
\* holds: a registered definition is never overwritten.
CachesAgree ==
    /\ \A r \in Replica : \A v \in Version : cache[r][v] \in {NoContent, defs[v]}
    /\ \A r \in Replica : fetched[r] # NoFetch =>
          fetched[r].version \in Version /\ fetched[r].content = defs[fetched[r].version]

\* An instance is pinned to a registered version, and was run by that only.
PinnedRun ==
    \A i \in Instance :
        /\ pinned[i] = 0 => ran[i] = {}
        /\ pinned[i] # 0 => defs[pinned[i]] # NoContent /\ ran[i] \subseteq {defs[pinned[i]]}

RegistryInv == RegistryTypes /\ LatestKept /\ CachesAgree /\ PinnedRun

\* A fresh registry satisfies the invariant.
LEMMA InitRegistry == RegistryInit => RegistryInv
<1> SUFFICES ASSUME RegistryInit PROVE RegistryInv
  OBVIOUS
<1>1. RegistryTypes
  BY DEF RegistryInit, RegistryTypes
<1>2. LatestKept /\ CachesAgree /\ PinnedRun
  BY DEF RegistryInit, LatestKept, CachesAgree, PinnedRun
<1> QED BY <1>1, <1>2 DEF RegistryInv

\* RegisterDefinition adds a version or changes nothing.
LEMMA RegisterKeeps ==
    ASSUME RegistryInv, NEW w \in Version, NEW c \in Content, RegisterDefinition(w, c)
    PROVE  RegistryInv'
<1>1. /\ UNCHANGED <<cache, fetched, pinned, ran>>
      /\ defs' = PutDefinition(w, c)
      /\ latest' = IF defs[w] = NoContent THEN Latest(w) ELSE latest
  BY DEF RegisterDefinition
<1>2. CASE defs[w] # NoContent
  <2>1. UNCHANGED registryVars
    BY <1>1, <1>2 DEF PutDefinition, registryVars
  <2> QED BY <2>1 DEF registryVars, RegistryInv, RegistryTypes, LatestKept, CachesAgree, PinnedRun
<1>3. CASE defs[w] = NoContent
  <2>1. defs' = [defs EXCEPT ![w] = c] /\ latest' = IF w > latest THEN w ELSE latest
    BY <1>1, <1>3 DEF PutDefinition, Latest
  <2>2. /\ defs' \in [Version -> Content \cup {NoContent}]
        /\ defs'[w] = c
        /\ \A v \in Version : v # w => defs'[v] = defs[v]
    BY <2>1 DEF RegistryInv, RegistryTypes
  <2>3. \A v \in Version : defs[v] # NoContent => defs'[v] = defs[v]
    BY <1>3, <2>2
  <2>4. RegistryTypes'
    BY <1>1, <2>1, <2>2 DEF RegistryInv, RegistryTypes
  <2>5. LatestKept'
    <3>1. /\ w \in Nat /\ w # 0 /\ latest \in Nat
          /\ \A v \in Version : v \in Nat /\ v # 0
      BY SMTT(30), RegistryAssumption DEF RegistryInv, RegistryTypes
    <3>2. w <= latest' /\ latest <= latest' /\ latest' \in {w, latest} /\ latest' # 0 /\ latest' \in Nat
      BY SMTT(30), <2>1, <3>1
    <3>3. defs'[latest'] # NoContent
      <4>1. CASE latest' = w
        BY <2>2, <4>1, RegistryAssumption
      <4>2. CASE latest' = latest
        <5>1. latest \in Version /\ defs[latest] # NoContent
          BY <3>2, <4>2 DEF RegistryInv, RegistryTypes, LatestKept
        <5> QED BY <2>3, <4>2, <5>1
      <4> QED BY <3>2, <4>1, <4>2
    <3>4. ASSUME NEW v \in Version, defs'[v] # NoContent PROVE v <= latest'
      <4>1. CASE v = w
        BY <3>2, <4>1
      <4>2. CASE v # w
        <5>1. v <= latest
          BY <2>2, <3>4, <4>2 DEF RegistryInv, LatestKept
        <5> QED BY SMTT(30), <3>1, <3>2, <5>1
      <4> QED BY <4>1, <4>2
    <3> QED BY <3>2, <3>3, <3>4 DEF LatestKept
  <2>6. CachesAgree'
    <3>1. \A r \in Replica : \A v \in Version : cache[r][v] \in {NoContent, defs'[v]}
      BY <2>3 DEF RegistryInv, CachesAgree
    <3>2. ASSUME NEW r \in Replica, fetched[r] # NoFetch
          PROVE  fetched[r].version \in Version /\ fetched[r].content = defs'[fetched[r].version]
      <4>1. fetched[r].version \in Version /\ fetched[r].content = defs[fetched[r].version]
        BY <3>2 DEF RegistryInv, CachesAgree
      <4>2. fetched[r].content # NoContent
        <5>1. fetched[r] \in [version : Version, content : Content]
          BY <3>2 DEF RegistryInv, RegistryTypes
        <5> QED BY <5>1, RegistryAssumption
      <4> QED BY <2>3, <4>1, <4>2
    <3> QED BY <1>1, <3>1, <3>2 DEF CachesAgree
  <2>7. PinnedRun'
    <3>1. ASSUME NEW i \in Instance, pinned[i] # 0
          PROVE  defs'[pinned[i]] # NoContent /\ ran[i] \subseteq {defs'[pinned[i]]}
      <4>1. /\ pinned[i] \in Version
            /\ defs[pinned[i]] # NoContent /\ ran[i] \subseteq {defs[pinned[i]]}
        BY <3>1 DEF RegistryInv, RegistryTypes, PinnedRun
      <4> QED BY <2>3, <4>1
    <3> QED BY <1>1, <3>1 DEF RegistryInv, PinnedRun
  <2> QED BY <2>4, <2>5, <2>6, <2>7 DEF RegistryInv
<1> QED BY <1>2, <1>3

\* What a replica reads, caches and forgets agrees with the store.
LEMMA CacheKeeps ==
    ASSUME RegistryInv, NEW r \in Replica,
           (\E v \in Version : GetDefinition(r, v)) \/ CacheDefinition(r) \/ Restart(r)
    PROVE  RegistryInv'
<1>1. UNCHANGED <<defs, latest, pinned, ran>>
  BY DEF GetDefinition, CacheDefinition, Restart
<1>2. LatestKept' /\ PinnedRun'
  BY <1>1 DEF RegistryInv, LatestKept, PinnedRun
<1>3. ASSUME NEW v \in Version, GetDefinition(r, v) PROVE RegistryTypes' /\ CachesAgree'
  <2> DEFINE got == [version |-> v, content |-> defs[v]]
  <2>1. /\ got.version = v /\ got.content = defs[v]
        /\ got \in [version : Version, content : Content]
    BY <1>3 DEF GetDefinition, RegistryInv, RegistryTypes
  <2>2. fetched' = [fetched EXCEPT ![r] = got] /\ cache' = cache
    BY <1>3 DEF GetDefinition
  <2> HIDE DEF got
  <2>3. RegistryTypes'
    BY <1>1, <2>1, <2>2 DEF RegistryInv, RegistryTypes
  <2>4. \A x \in Replica : fetched'[x] = IF x = r THEN got ELSE fetched[x]
    BY <2>2 DEF RegistryInv, RegistryTypes
  <2>5. \A x \in Replica : \A y \in Version : cache'[x][y] \in {NoContent, defs[y]}
    BY <2>2 DEF RegistryInv, CachesAgree
  <2>6. ASSUME NEW x \in Replica, fetched'[x] # NoFetch
        PROVE  /\ fetched'[x].version \in Version
               /\ fetched'[x].content = defs[fetched'[x].version]
    <3>1. CASE x = r
      BY <2>1, <2>4, <3>1
    <3>2. CASE x # r
      BY <2>4, <2>6, <3>2 DEF RegistryInv, CachesAgree
    <3> QED BY <3>1, <3>2
  <2> QED BY <1>1, <2>3, <2>5, <2>6 DEF CachesAgree
<1>4. ASSUME CacheDefinition(r) PROVE RegistryTypes' /\ CachesAgree'
  <2> DEFINE w == fetched[r].version
             d == fetched[r].content
  <2>1. fetched[r] # NoFetch /\ w \in Version /\ d = defs[w]
    BY <1>4 DEF CacheDefinition, RegistryInv, CachesAgree
  <2>2. d \in Content
    <3>1. fetched[r] \in [version : Version, content : Content]
      BY <2>1 DEF RegistryInv, RegistryTypes
    <3> QED BY <3>1
  <2>3. cache' = [cache EXCEPT ![r][w] = d] /\ fetched' = [fetched EXCEPT ![r] = NoFetch]
    BY <1>4 DEF CacheDefinition
  <2> HIDE DEF w, d
  <2>4. RegistryTypes'
    BY <1>1, <2>1, <2>2, <2>3 DEF RegistryInv, RegistryTypes
  <2>5. \A x \in Replica : \A v \in Version :
           cache'[x][v] = IF x = r /\ v = w THEN d ELSE cache[x][v]
    BY <2>1, <2>3 DEF RegistryInv, RegistryTypes
  <2>6. \A x \in Replica : fetched'[x] = IF x = r THEN NoFetch ELSE fetched[x]
    BY <2>3 DEF RegistryInv, RegistryTypes
  <2>7. \A x \in Replica : \A v \in Version : cache'[x][v] \in {NoContent, defs[v]}
    BY <2>1, <2>5 DEF RegistryInv, CachesAgree
  <2>8. \A x \in Replica : fetched'[x] # NoFetch =>
           fetched'[x] = fetched[x] /\ fetched[x] # NoFetch
    BY <2>6
  <2>9. \A x \in Replica : fetched'[x] # NoFetch =>
           /\ fetched'[x].version \in Version
           /\ fetched'[x].content = defs[fetched'[x].version]
    BY <2>8 DEF RegistryInv, CachesAgree
  <2> QED BY <1>1, <2>4, <2>7, <2>9 DEF CachesAgree
<1>5. ASSUME Restart(r) PROVE RegistryTypes' /\ CachesAgree'
  <2>1. /\ cache' = [cache EXCEPT ![r] = [v \in Version |-> NoContent]]
        /\ fetched' = [fetched EXCEPT ![r] = NoFetch]
    BY <1>5 DEF Restart
  <2>2. RegistryTypes'
    BY <1>1, <2>1 DEF RegistryInv, RegistryTypes
  <2>3. \A x \in Replica : \A v \in Version :
           cache'[x][v] = IF x = r THEN NoContent ELSE cache[x][v]
    BY <2>1 DEF RegistryInv, RegistryTypes
  <2>4. \A x \in Replica : fetched'[x] = IF x = r THEN NoFetch ELSE fetched[x]
    BY <2>1 DEF RegistryInv, RegistryTypes
  <2> QED BY <1>1, <2>2, <2>3, <2>4 DEF RegistryInv, CachesAgree
<1> QED BY <1>2, <1>3, <1>4, <1>5 DEF RegistryInv

\* An instance is pinned to a registered version, the latest one included.
LEMMA StartKeeps ==
    ASSUME RegistryInv, NEW r \in Replica, NEW i \in Instance, NEW v \in Version \cup {0},
           StartInstance(r, i, v)
    PROVE  RegistryInv'
<1>1. PICK w \in Version : defs[w] # NoContent /\ CreateInstance(i, w, defs[w])
  <2>1. CASE v = 0
    BY <2>1 DEF StartInstance, RegistryInv, RegistryTypes, LatestKept
  <2>2. CASE v # 0
    BY <2>2 DEF StartInstance, RegistryInv, CachesAgree
  <2> QED BY <2>1, <2>2
<1>2. defs[w] \in Content
  BY <1>1 DEF RegistryInv, RegistryTypes
<1>3. RegistryTypes' /\ LatestKept' /\ CachesAgree'
  BY <1>1, <1>2 DEF CreateInstance, RegistryInv, RegistryTypes, LatestKept, CachesAgree
<1>4. \A x \in Instance : /\ pinned'[x] = IF x = i THEN w ELSE pinned[x]
                          /\ ran'[x] = IF x = i THEN {defs[w]} ELSE ran[x]
  BY <1>1 DEF CreateInstance, RegistryInv, RegistryTypes
<1>5. w # 0 /\ defs' = defs
  BY <1>1, RegistryAssumption DEF CreateInstance
<1>6. PinnedRun'
  BY <1>1, <1>4, <1>5 DEF RegistryInv, PinnedRun
<1> QED BY <1>3, <1>6 DEF RegistryInv

\* A handler works by the definition registered under the pinned version.
LEMMA HandleKeeps ==
    ASSUME RegistryInv, NEW r \in Replica, NEW i \in Instance, Handle(r, i)
    PROVE  RegistryInv'
<1> DEFINE d == cache[r][pinned[i]]
<1>1. /\ pinned[i] # 0 /\ d # NoContent
      /\ ran' = [ran EXCEPT ![i] = ran[i] \cup {d}]
      /\ UNCHANGED <<defs, latest, cache, fetched, pinned>>
  BY DEF Handle
<1>2. pinned[i] \in Version
  BY <1>1 DEF RegistryInv, RegistryTypes
<1>3. d = defs[pinned[i]] /\ d \in Content
  BY <1>1, <1>2 DEF RegistryInv, RegistryTypes, CachesAgree
<1> HIDE DEF d
<1>4. RegistryTypes' /\ LatestKept' /\ CachesAgree'
  BY <1>1, <1>3 DEF RegistryInv, RegistryTypes, LatestKept, CachesAgree
<1>5. \A x \in Instance : ran'[x] = IF x = i THEN ran[i] \cup {d} ELSE ran[x]
  BY <1>1 DEF RegistryInv, RegistryTypes
<1>6. PinnedRun'
  <2>1. ASSUME NEW x \in Instance, x # i
        PROVE  ran'[x] = ran[x] /\ pinned'[x] = pinned[x]
    BY <1>1, <1>5, <2>1
  <2>2. /\ ran'[i] \subseteq {defs[pinned[i]]} /\ defs[pinned[i]] # NoContent
        /\ pinned'[i] = pinned[i] /\ pinned[i] # 0
    <3>1. ran[i] \subseteq {defs[pinned[i]]} /\ defs[pinned[i]] # NoContent
      BY <1>1 DEF RegistryInv, PinnedRun
    <3>2. ran'[i] = ran[i] \cup {d}
      BY <1>5
    <3> QED BY <1>1, <1>3, <3>1, <3>2
  <2> QED BY <1>1, <2>1, <2>2 DEF RegistryInv, PinnedRun
<1> QED BY <1>4, <1>6 DEF RegistryInv

\* Every step keeps the invariant.
LEMMA NextRegistry == RegistryInv /\ [RegistryNext]_registryVars => RegistryInv'
<1> SUFFICES ASSUME RegistryInv, [RegistryNext]_registryVars PROVE RegistryInv'
  OBVIOUS
<1>1. CASE UNCHANGED registryVars
  BY <1>1 DEF registryVars, RegistryInv, RegistryTypes, LatestKept, CachesAgree, PinnedRun
<1>2. CASE RegistryNext
  BY <1>2, RegisterKeeps, CacheKeeps, StartKeeps, HandleKeeps DEF RegistryNext
<1> QED BY <1>1, <1>2

\* However many replicas register, cache, read late and restart, all steps of an
\* instance are taken by the definition registered under its version.
THEOREM InstancesKeepDefinition == RegistrySpec => []OneDefinitionPerInstance
<1>1. RegistryInv => OneDefinitionPerInstance
  BY DEF RegistryInv, PinnedRun, OneDefinitionPerInstance
<1> QED BY InitRegistry, NextRegistry, <1>1, PTL DEF RegistrySpec

\* The latest version of MemStore is the greatest one registered, in whatever
\* order and from however many replicas versions were registered.
THEOREM LatestStaysGreatest == RegistrySpec => []LatestIsGreatest
<1>1. ASSUME RegistryInv, NEW v \in Version, defs[v] # NoContent
      PROVE  v <= latest /\ latest \in Version /\ defs[latest] # NoContent
  BY <1>1 DEF RegistryInv, RegistryTypes, LatestKept
<1>2. RegistryInv => LatestIsGreatest
  BY <1>1 DEF LatestIsGreatest
<1> QED BY InitRegistry, NextRegistry, <1>2, PTL DEF RegistrySpec

=============================================================================
