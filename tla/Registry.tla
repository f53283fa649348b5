------------------------------ MODULE Registry ------------------------------
(***************************************************************************)
(* Registered definitions (RegisterDefinition and definition in            *)
(* engine/engine.go, the definition tables of the stores): every replica   *)
(* registers versions of one workflow, resolves them through a cache that  *)
(* is never invalidated, and pins the instances it starts to a version.    *)
(*                                                                         *)
(* A definition is its content; Checksum tells contents apart.             *)
(***************************************************************************)
EXTENDS Naturals

CONSTANTS
    Replica,
    Version,    \* version numbers
    Content,    \* definitions Validate accepts
    NoContent,
    Instance

ASSUME RegistryAssumption ==
    /\ Version \subseteq Nat \ {0}
    /\ NoContent \notin Content

VARIABLES
    defs,       \* workflow_definitions, by version
    latest,     \* MemStore.latest; 0 before the first definition
    cache,      \* each replica's defCache
    fetched,    \* a definition read from the store, not yet cached
    pinned,     \* the version of each instance, 0 before it is started
    ran         \* auxiliary: what each instance was run by, so far

registryVars == <<defs, latest, cache, fetched, pinned, ran>>

NoFetch == [version |-> 0, content |-> NoContent]

\* Mutant: the last one to register wins.
PutOverwrites(v, c) == [defs EXCEPT ![v] = c]

\* A conflicting checksum is refused, an equal one changes nothing.
PutDefinition(v, c) ==
    IF defs[v] = NoContent THEN [defs EXCEPT ![v] = c] ELSE defs

\* Mutant: the last version registered.
LatestRegistered(v) == v

\* Kept apart by memory.go; ORDER BY version DESC LIMIT 1 in postgres.go.
Latest(v) == IF v > latest THEN v ELSE latest

RegisterDefinition(v, c) ==
    /\ defs' = PutDefinition(v, c)
    /\ latest' = IF defs[v] = NoContent THEN Latest(v) ELSE latest
    /\ UNCHANGED <<cache, fetched, pinned, ran>>

\* definition, on a miss: read the store, then write the cache.
GetDefinition(r, v) ==
    /\ cache[r][v] = NoContent
    /\ fetched[r] = NoFetch
    /\ defs[v] # NoContent
    /\ fetched' = [fetched EXCEPT ![r] = [version |-> v, content |-> defs[v]]]
    /\ UNCHANGED <<defs, latest, cache, pinned, ran>>

CacheDefinition(r) ==
    /\ fetched[r] # NoFetch
    /\ cache' = [cache EXCEPT ![r][fetched[r].version] = fetched[r].content]
    /\ fetched' = [fetched EXCEPT ![r] = NoFetch]
    /\ UNCHANGED <<defs, latest, pinned, ran>>

\* The row written for an instance: its version, and its first step from the
\* definition the start has.
CreateInstance(i, v, d) ==
    /\ pinned[i] = 0
    /\ pinned' = [pinned EXCEPT ![i] = v]
    /\ ran' = [ran EXCEPT ![i] = {d}]
    /\ UNCHANGED <<defs, latest, cache, fetched>>

\* Version 0 stands for the latest one, which is read from the store; any other
\* is resolved by definition.  A start reads and writes in one step: the row is
\* written from what was read, whatever is registered meanwhile.
StartInstance(r, i, v) ==
    \/ /\ v = 0
       /\ latest # 0
       /\ CreateInstance(i, latest, defs[latest])
    \/ /\ v # 0
       /\ cache[r][v] # NoContent
       /\ CreateInstance(i, v, cache[r][v])

\* Any handler on any replica: it works by the cached definition.
Handle(r, i) ==
    /\ pinned[i] # 0
    /\ cache[r][pinned[i]] # NoContent
    /\ ran' = [ran EXCEPT ![i] = ran[i] \cup {cache[r][pinned[i]]}]
    /\ UNCHANGED <<defs, latest, cache, fetched, pinned>>

\* A replica restarts with an empty cache.
Restart(r) ==
    /\ cache[r] # [v \in Version |-> NoContent] \/ fetched[r] # NoFetch
    /\ cache' = [cache EXCEPT ![r] = [v \in Version |-> NoContent]]
    /\ fetched' = [fetched EXCEPT ![r] = NoFetch]
    /\ UNCHANGED <<defs, latest, pinned, ran>>

RegistryInit ==
    /\ defs    = [v \in Version |-> NoContent]
    /\ latest  = 0
    /\ cache   = [r \in Replica |-> [v \in Version |-> NoContent]]
    /\ fetched = [r \in Replica |-> NoFetch]
    /\ pinned  = [i \in Instance |-> 0]
    /\ ran     = [i \in Instance |-> {}]

RegistryNext ==
    \/ \E v \in Version, c \in Content : RegisterDefinition(v, c)
    \/ \E r \in Replica :
          \/ \E v \in Version : GetDefinition(r, v)
          \/ CacheDefinition(r)
          \/ \E i \in Instance, v \in Version \cup {0} : StartInstance(r, i, v)
          \/ \E i \in Instance : Handle(r, i)
          \/ Restart(r)

RegistrySpec == RegistryInit /\ [][RegistryNext]_registryVars

-----------------------------------------------------------------------------
(* What the registry promises.                                             *)

\* One definition per instance: however replicas register, cache, read late and
\* restart, all steps of an instance are taken by the same definition, the one
\* registered under its version.
OneDefinitionPerInstance ==
    \A i \in Instance : pinned[i] # 0 => ran[i] \subseteq {defs[pinned[i]]}

\* The version MemStore hands out as the latest is the one Postgres would: it
\* is registered, and no registered one is greater, in whatever order versions
\* were registered.
LatestIsGreatest ==
    \A v \in Version : defs[v] # NoContent =>
        /\ v <= latest
        /\ latest \in Version
        /\ defs[latest] # NoContent

=============================================================================
