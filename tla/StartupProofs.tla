--------------------------- MODULE StartupProofs ---------------------------
(***************************************************************************)
(* What Startup guarantees for any number of instances, hosts, starts and  *)
(* generator runs: when configs are mapped, that a host key does not       *)
(* change, that an instance serves what the latest run wrote, and what a   *)
(* port answers with.                                                      *)
(***************************************************************************)
EXTENDS Startup, Recursion, FiniteSetTheorems

Fields == {"step", "key", "of", "devs", "todo", "maps", "profiles", "bound"}

\* The host does not change, and each process keeps the fields it has.
Shape ==
    /\ \E h \in Hosts : flags = h.flags /\ fleet = h.fleet
    /\ DOMAIN proc = Instances
    /\ \A i \in Instances : DOMAIN proc[i] = Fields

\* The actions of an instance, and the others, which leave the processes alone.
Step(i) == Launch(i) \/ New(i) \/ Start(i) \/ CloseListeners(i) \/ Unload(i) \/ Exit(i)

\* An action that only says where the process is next.
Moves(i) ==
    \/ Launch(i) \/ CheckFlags(i) \/ CreateKeyFile(i) \/ KeyFails(i)
    \/ ManifestFails(i) \/ Loaded(i) \/ CheckFails(i) \/ Ready(i)

LEMMA MovesOnlyStep ==
    ASSUME NEW i \in Instances, Moves(i)
    PROVE  \E s \in Steps : Goto(i, s)
  BY DEF Moves, Launch, CheckFlags, CreateKeyFile, KeyFails, ManifestFails, Loaded, CheckFails,
         Ready, Goto, Steps

LEMMA ShapeInit == Init => Shape
  BY DEF Init, Shape, Fresh, Fields

LEMMA ShapeStep ==
    ASSUME Shape, NEW i \in Instances, Step(i)
    PROVE  Shape'
<1> USE DEF Shape, Fields
<1>1. UNCHANGED <<flags, fleet>>
  BY DEF Step, New, Start, Launch, CheckFlags, ReadKey, CreateKeyFile, WriteKey, KeyFails,
         ReadManifest, ManifestFails, Map, MapFails, Loaded, CheckOK, CheckFails, Bind,
         BindFails, Ready, MetricsFail, CloseListeners, Unload, Exit
<1>2. CASE Moves(i)
  BY <1>1, <1>2, MovesOnlyStep DEF Goto
<1>3. CASE ReadKey(i)
  BY <1>1, <1>3 DEF ReadKey
<1>4. CASE WriteKey(i)
  BY <1>1, <1>4 DEF WriteKey
<1>5. CASE ReadManifest(i)
  BY <1>1, <1>5 DEF ReadManifest
<1>6. ASSUME NEW n \in proc[i].devs, Map(i, n)
      PROVE  Shape'
  BY <1>1, <1>6 DEF Map
<1>7. ASSUME NEW n \in proc[i].devs, MapFails(i, n)
      PROVE  Shape'
  BY <1>1, <1>7 DEF MapFails
<1>8. CASE CheckOK(i)
  BY <1>1, <1>8 DEF CheckOK
<1>9. ASSUME NEW p \in PortsOf(i), Bind(i, p)
      PROVE  Shape'
  BY <1>1, <1>9 DEF Bind
<1>10. ASSUME NEW p \in PortsOf(i), BindFails(i, p)
       PROVE  Shape'
  BY <1>1, <1>10 DEF BindFails
<1>11. CASE MetricsFail(i) \/ CloseListeners(i) \/ Unload(i)
  BY <1>1, <1>11 DEF MetricsFail, CloseListeners, Unload
<1>12. CASE Exit(i)
  BY <1>1, <1>12 DEF Exit, Fresh
<1>13. QED
  BY <1>2, <1>3, <1>4, <1>5, <1>6, <1>7, <1>8, <1>9, <1>10, <1>11, <1>12
     DEF Step, New, Start, Moves

\* No instance touches the process of another.
LEMMA OthersStay ==
    ASSUME Shape, NEW i \in Instances, NEW j \in Instances \ {i}, Step(i)
    PROVE  proc'[j] = proc[j]
<1> USE DEF Shape
<1>1. CASE Moves(i)
  BY <1>1, MovesOnlyStep DEF Goto
<1>2. CASE ReadKey(i)
  BY <1>2 DEF ReadKey
<1>3. CASE WriteKey(i)
  BY <1>3 DEF WriteKey
<1>4. CASE ReadManifest(i)
  BY <1>4 DEF ReadManifest
<1>5. ASSUME NEW n \in proc[i].devs, Map(i, n) \/ MapFails(i, n)
      PROVE  proc'[j] = proc[j]
  BY <1>5 DEF Map, MapFails
<1>6. CASE CheckOK(i)
  BY <1>6 DEF CheckOK
<1>7. ASSUME NEW p \in PortsOf(i), Bind(i, p) \/ BindFails(i, p)
      PROVE  proc'[j] = proc[j]
  BY <1>7 DEF Bind, BindFails
<1>8. CASE MetricsFail(i) \/ CloseListeners(i) \/ Unload(i) \/ Exit(i)
  BY <1>8 DEF MetricsFail, CloseListeners, Unload, Exit
<1>9. QED
  BY <1>1, <1>2, <1>3, <1>4, <1>5, <1>6, <1>7, <1>8 DEF Step, New, Start, Moves

LEMMA GeneratorKeeps ==
    ASSUME Generator
    PROVE  UNCHANGED <<flags, fleet, procVars, keyVars, shown>>
  BY DEF Generator, Regenerate, CreateManifest, RunFails, Truncate, Fill, WriteRows

LEMMA ShapeCorrect == Spec => []Shape
<1>1. Shape /\ [Next]_vars => Shape'
  <2>1. Shape /\ UNCHANGED vars => Shape'
    BY DEF Shape, vars, procVars
  <2>2. Shape /\ Generator => Shape'
    BY GeneratorKeeps DEF Shape, procVars
  <2>3. QED
    BY <2>1, <2>2, ShapeStep DEF Next, Step
<1>2. QED
  BY ShapeInit, <1>1, PTL DEF Spec

-----------------------------------------------------------------------------
(* The memory maps.                                                        *)

\* The files before the next one are mapped while they are mapped in turn, and all
\* of them from there on until the listeners are closed.
MapsInv ==
    \A i \in Instances :
        /\ proc[i].step = "map" =>
              /\ DOMAIN proc[i].maps = proc[i].devs
              /\ \A n \in proc[i].devs \ proc[i].todo : proc[i].maps[n] # None
        /\ proc[i].step \in {"check", "bind", "serving"} =>
              \A n \in proc[i].devs : proc[i].maps[n] # None
        /\ proc[i].bound # {} => proc[i].step \in {"bind", "serving"}
        /\ proc[i].step \in {"load_failed", "stopped"} =>
              \A n \in proc[i].devs : proc[i].maps[n] = None

LEMMA MapsInvInit == Init => MapsInv
  BY DEF Init, MapsInv, Fresh

LEMMA MapsInvStep ==
    ASSUME Shape, MapsInv, NEW i \in Instances, Step(i)
    PROVE  MapsInv'
<1> USE DEF Shape, Fields, MapsInv, At, None, UnloadAll
<1>1. CASE Launch(i)
  BY <1>1 DEF Launch, Goto
<1>2. CASE CheckFlags(i)
  BY <1>2 DEF CheckFlags, Goto
<1>3. CASE ReadKey(i)
  <2>1. /\ proc[i].step = "key" /\ proc'[i].step \in {"generate", "failed", "manifest"}
        /\ proc'[i].bound = proc[i].bound
        /\ \A j \in Instances \ {i} : proc'[j] = proc[j]
    BY <1>3 DEF ReadKey
  <2>2. QED
    BY <2>1
<1>4. CASE CreateKeyFile(i)
  BY <1>4 DEF CreateKeyFile, Goto
<1>5. CASE WriteKey(i)
  BY <1>5 DEF WriteKey
<1>6. CASE KeyFails(i)
  BY <1>6 DEF KeyFails, Goto
<1>7. CASE ReadManifest(i)
  <2>1. PICK D : proc' = [proc EXCEPT ![i].step = "map", ![i].of = manifest, ![i].devs = D,
                                      ![i].todo = D, ![i].maps = [n \in D |-> None]]
    BY <1>7 DEF ReadManifest
  <2>2. /\ proc'[i].step = "map" /\ proc'[i].bound = proc[i].bound
        /\ proc'[i].devs = D /\ proc'[i].todo = D /\ DOMAIN proc'[i].maps = D
        /\ \A j \in Instances \ {i} : proc'[j] = proc[j]
    BY <2>1
  <2>3. proc[i].step = "manifest"
    BY <1>7 DEF ReadManifest
  <2>4. QED
    BY <2>2, <2>3
<1>8. CASE ManifestFails(i)
  BY <1>8 DEF ManifestFails, Goto
<1>9. ASSUME NEW n \in proc[i].devs, Map(i, n)
      PROVE  MapsInv'
  BY <1>9 DEF Map
<1>10. ASSUME NEW n \in proc[i].devs, MapFails(i, n)
       PROVE  MapsInv'
  BY <1>10 DEF MapFails
<1>11. CASE Loaded(i)
  BY <1>11 DEF Loaded, Goto
<1>12. CASE CheckOK(i)
  BY <1>12 DEF CheckOK
<1>13. CASE CheckFails(i)
  BY <1>13 DEF CheckFails, Goto
<1>14. ASSUME NEW p \in PortsOf(i), Bind(i, p)
       PROVE  MapsInv'
  BY <1>14 DEF Bind
<1>15. ASSUME NEW p \in PortsOf(i), BindFails(i, p)
       PROVE  MapsInv'
  BY <1>15 DEF BindFails
<1>16. CASE Ready(i)
  BY <1>16 DEF Ready, Goto
<1>17. CASE MetricsFail(i)
  BY <1>17 DEF MetricsFail
<1>18. CASE CloseListeners(i)
  BY <1>18 DEF CloseListeners
<1>19. CASE Unload(i)
  BY <1>19 DEF Unload
<1>20. CASE Exit(i)
  BY <1>20 DEF Exit, Fresh
<1>21. QED
  BY <1>1, <1>2, <1>3, <1>4, <1>5, <1>6, <1>7, <1>8, <1>9, <1>10, <1>11, <1>12, <1>13,
     <1>14, <1>15, <1>16, <1>17, <1>18, <1>19, <1>20 DEF Step, New, Start

LEMMA MapsInvCorrect == Spec => []MapsInv
<1>1. Shape /\ MapsInv /\ [Next]_vars => MapsInv'
  <2>1. MapsInv /\ UNCHANGED vars => MapsInv'
    BY DEF MapsInv, vars, procVars
  <2>2. MapsInv /\ Generator => MapsInv'
    BY GeneratorKeeps DEF MapsInv, procVars
  <2>3. QED
    BY <2>1, <2>2, MapsInvStep DEF Next, Step
<1>2. QED
  BY MapsInvInit, ShapeCorrect, <1>1, PTL DEF Spec

\* Ports are only open over mapped configs, and a load that failed or a shutdown
\* that ended leaves nothing mapped, however many devices and restarts there are,
\* and whatever the generator does to the files meanwhile (LoadForListener, Start,
\* Shutdown).
THEOREM MapsCorrect == Spec => []MapsFollowTheListeners
<1>1. MapsInv => MapsFollowTheListeners
  BY DEF MapsInv, MapsFollowTheListeners, Open
<1>2. QED
  BY MapsInvCorrect, <1>1, PTL

-----------------------------------------------------------------------------
(* The host key.                                                           *)

Own(i) == \A j \in Instances \ {i} : flags[j].key # flags[i].key

Keyed == {"manifest", "map", "check", "bind", "serving"}

\* The key clients have seen is the one in the file, and so is the one the process
\* has; as long as the process is still writing one, clients have seen none.
KeysInv ==
    /\ keys \in Nat
    /\ DOMAIN keyFile = Paths
    /\ DOMAIN shown = Instances
    /\ \A i \in Instances : Own(i) =>
          LET k == keyFile[flags[i].key]
          IN  /\ shown[i] # {} => shown[i] = {k} /\ k \notin {NoKey, TornKey}
              /\ proc[i].step \in Keyed => proc[i].key = k /\ k \notin {NoKey, TornKey}
              /\ proc[i].step \in {"generate", "write"} => shown[i] = {}

LEMMA KeysInvInit == Init => KeysInv
  BY DEF Init, KeysInv, Fresh, Keyed

\* Every other action keeps the files, and shows no key.
LEMMA KeysQuiet ==
    ASSUME Shape, KeysInv, NEW i \in Instances, UNCHANGED <<flags, keyVars, shown>>,
           \A j \in Instances \ {i} : proc'[j] = proc[j],
           \/ proc'[i].step \notin Keyed \union {"generate", "write"}
           \/ proc'[i].step \in Keyed /\ proc[i].step \in Keyed /\ proc'[i].key = proc[i].key
    PROVE  KeysInv'
  BY DEF KeysInv, Keyed, keyVars, Own, Paths

\* The process that found no key writes its file, and nobody has seen one before.
LEMMA KeyWritten ==
    ASSUME Shape, KeysInv, NEW i \in Instances, NEW k, UNCHANGED <<flags, shown>>,
           keys' \in Nat, keyFile' = [keyFile EXCEPT ![flags[i].key] = k],
           \A j \in Instances \ {i} : proc'[j] = proc[j],
           proc[i].step \in {"generate", "write"},
           \/ proc'[i].step = "write"
           \/ proc'[i].step = "manifest" /\ proc'[i].key = k /\ k \notin {NoKey, TornKey}
    PROVE  KeysInv'
<1> USE DEF KeysInv, Keyed
<1>1. Paths' = Paths /\ \A j \in Instances : Own(j)' <=> Own(j)
  BY DEF Paths, Own
<1>2. Own(i) => shown[i] = {}
  OBVIOUS
<1>3. \A j \in Instances \ {i} : Own(j) => keyFile'[flags[j].key] = keyFile[flags[j].key]
  BY DEF Own, Paths
<1>4. keyFile'[flags[i].key] = k
  BY DEF Paths
<1>5. ASSUME NEW j \in Instances, Own(j)
      PROVE  LET q == keyFile'[flags[j].key]
             IN  /\ shown[j] # {} => shown[j] = {q} /\ q \notin {NoKey, TornKey}
                 /\ proc'[j].step \in Keyed => proc'[j].key = q /\ q \notin {NoKey, TornKey}
                 /\ proc'[j].step \in {"generate", "write"} => shown[j] = {}
  <2>1. CASE j = i
    BY <1>2, <1>4, <1>5, <2>1
  <2>2. CASE j # i
    BY <1>3, <1>5, <2>2
  <2>3. QED
    BY <2>1, <2>2
<1>6. QED
  BY <1>1, <1>5

LEMMA KeysInvStep ==
    ASSUME Shape, KeysInv, NEW i \in Instances, Step(i)
    PROVE  KeysInv'
<1> USE DEF Shape, Fields, At, Keyed
<1>1. CASE Launch(i)
  BY <1>1, KeysQuiet DEF Launch, Goto
<1>2. CASE CheckFlags(i)
  <2>1. /\ UNCHANGED <<flags, keyVars, shown>>
        /\ \E s \in {"key", "failed"} : proc' = [proc EXCEPT ![i].step = s]
    BY <1>2 DEF CheckFlags, Goto
  <2>2. QED
    BY <2>1, KeysQuiet
<1>3. CASE ReadKey(i)
  <2>1. UNCHANGED <<flags, keyVars, shown>>
    BY <1>3 DEF ReadKey
  <2>2. CASE keyFile[flags[i].key] = NoKey
    <3>1. proc' = [proc EXCEPT ![i].step = "generate"]
      BY <1>3, <2>2 DEF ReadKey, NoKey, TornKey
    <3>2. QED
      BY <2>1, <2>2, <3>1 DEF KeysInv, Own, Paths, keyVars
  <2>3. CASE keyFile[flags[i].key] = TornKey
    <3>1. proc' = [proc EXCEPT ![i].step = "failed"]
      BY <1>3, <2>3 DEF ReadKey, NoKey, TornKey
    <3>2. QED
      BY <2>1, <3>1, KeysQuiet
  <2>4. CASE keyFile[flags[i].key] \notin {NoKey, TornKey}
    <3>1. proc' = [proc EXCEPT ![i].step = "manifest", ![i].key = keyFile[flags[i].key]]
      BY <1>3, <2>4 DEF ReadKey
    <3>2. /\ proc'[i].step = "manifest" /\ proc'[i].key = keyFile[flags[i].key]
          /\ \A j \in Instances \ {i} : proc'[j] = proc[j]
      BY <3>1
    <3>3. Paths' = Paths /\ \A j \in Instances : Own(j)' <=> Own(j)
      BY <2>1 DEF Paths, Own
    <3>4. UNCHANGED <<flags, keyFile, keys, shown>>
      BY <2>1 DEF keyVars
    <3>5. ASSUME NEW j \in Instances, Own(j)
          PROVE  LET q == keyFile[flags[j].key]
                 IN  /\ shown[j] # {} => shown[j] = {q} /\ q \notin {NoKey, TornKey}
                     /\ proc'[j].step \in Keyed => proc'[j].key = q /\ q \notin {NoKey, TornKey}
                     /\ proc'[j].step \in {"generate", "write"} => shown[j] = {}
      <4>1. CASE j = i
        BY <2>4, <3>2, <3>5, <4>1 DEF KeysInv
      <4>2. CASE j # i
        BY <3>2, <3>5, <4>2 DEF KeysInv
      <4>3. QED
        BY <4>1, <4>2
    <3>6. QED
      BY <3>3, <3>4, <3>5 DEF KeysInv
  <2>5. QED
    BY <2>2, <2>3, <2>4
<1>4. CASE CreateKeyFile(i)
  <2>1. /\ UNCHANGED <<flags, keys, shown>> /\ proc[i].step = "generate"
        /\ keyFile' = [keyFile EXCEPT ![flags[i].key] = TornKey]
    BY <1>4 DEF CreateKeyFile
  <2>2. /\ proc'[i].step = "write"
        /\ \A j \in Instances \ {i} : proc'[j] = proc[j]
    BY <1>4 DEF CreateKeyFile, Goto
  <2>3. keys' \in Nat
    BY <2>1 DEF KeysInv
  <2>4. QED
    BY <2>1, <2>2, <2>3, KeyWritten
<1>5. CASE WriteKey(i)
  <2>1. /\ UNCHANGED <<flags, shown>> /\ keys' = keys + 1 /\ proc[i].step = "write"
        /\ keyFile' = [keyFile EXCEPT ![flags[i].key] = keys + 1]
    BY <1>5 DEF WriteKey
  <2>2. /\ proc'[i].step = "manifest" /\ proc'[i].key = keys + 1
        /\ \A j \in Instances \ {i} : proc'[j] = proc[j]
    BY <1>5 DEF WriteKey
  <2>3. keys + 1 \notin {NoKey, TornKey} /\ keys' \in Nat
    BY <2>1 DEF KeysInv, NoKey, TornKey
  <2>4. QED
    BY <2>1, <2>2, <2>3, KeyWritten
<1>6. CASE KeyFails(i)
  BY <1>6, KeysQuiet DEF KeyFails, Goto
<1>7. CASE ReadManifest(i)
  <2>1. PICK D : proc' = [proc EXCEPT ![i].step = "map", ![i].of = manifest, ![i].devs = D,
                                      ![i].todo = D, ![i].maps = [n \in D |-> None]]
    BY <1>7 DEF ReadManifest
  <2>2. /\ proc'[i].step = "map" /\ proc'[i].key = proc[i].key
        /\ \A j \in Instances \ {i} : proc'[j] = proc[j]
    BY <2>1
  <2>3. proc[i].step = "manifest" /\ UNCHANGED <<flags, keyVars, shown>>
    BY <1>7 DEF ReadManifest
  <2>4. QED
    BY <2>2, <2>3, KeysQuiet
<1>8. CASE ManifestFails(i)
  BY <1>8, KeysQuiet DEF ManifestFails, Goto
<1>9. ASSUME NEW n \in proc[i].devs, Map(i, n)
      PROVE  KeysInv'
  BY <1>9, KeysQuiet DEF Map
<1>10. ASSUME NEW n \in proc[i].devs, MapFails(i, n)
       PROVE  KeysInv'
  BY <1>10, KeysQuiet DEF MapFails
<1>11. CASE Loaded(i)
  BY <1>11, KeysQuiet DEF Loaded, Goto
<1>12. CASE CheckOK(i)
  BY <1>12, KeysQuiet DEF CheckOK
<1>13. CASE CheckFails(i)
  BY <1>13, KeysQuiet DEF CheckFails, Goto
<1>14. ASSUME NEW p \in PortsOf(i), Bind(i, p)
       PROVE  KeysInv'
  <2>1. DOMAIN shown = Instances /\ keys \in Nat /\ DOMAIN keyFile = Paths
    BY DEF KeysInv
  <2>2. /\ proc[i].step = "bind" /\ proc'[i].step = "bind" /\ proc'[i].key = proc[i].key
        /\ \A j \in Instances \ {i} : proc'[j] = proc[j]
    BY <1>14 DEF Bind
  <2>3. shown' = [shown EXCEPT ![i] = shown[i] \union {proc[i].key}]
    BY <1>14 DEF Bind
  <2>4. UNCHANGED <<flags, keyFile, keys>>
    BY <1>14 DEF Bind, keyVars
  <2>5. Paths' = Paths /\ \A j \in Instances : Own(j)' <=> Own(j)
    BY <2>4 DEF Paths, Own
  <2>6. ASSUME NEW j \in Instances, Own(j)
        PROVE  LET k == keyFile[flags[j].key]
               IN  /\ shown'[j] # {} => shown'[j] = {k} /\ k \notin {NoKey, TornKey}
                   /\ proc'[j].step \in Keyed => proc'[j].key = k /\ k \notin {NoKey, TornKey}
                   /\ proc'[j].step \in {"generate", "write"} => shown'[j] = {}
    <3>1. CASE j = i
      BY <2>1, <2>2, <2>3, <2>6, <3>1 DEF KeysInv
    <3>2. CASE j # i
      <4>1. proc'[j] = proc[j] /\ shown'[j] = shown[j]
        BY <2>1, <2>2, <2>3, <3>2
      <4>2. QED
        BY <2>6, <4>1 DEF KeysInv
    <3>3. QED
      BY <3>1, <3>2
  <2>7. QED
    BY <2>1, <2>3, <2>4, <2>5, <2>6 DEF KeysInv
<1>15. ASSUME NEW p \in PortsOf(i), BindFails(i, p)
       PROVE  KeysInv'
  BY <1>15, KeysQuiet DEF BindFails
<1>16. CASE Ready(i)
  BY <1>16, KeysQuiet DEF Ready, Goto
<1>17. CASE MetricsFail(i)
  BY <1>17, KeysQuiet DEF MetricsFail
<1>18. CASE CloseListeners(i)
  BY <1>18, KeysQuiet DEF CloseListeners
<1>19. CASE Unload(i)
  BY <1>19, KeysQuiet DEF Unload
<1>20. CASE Exit(i)
  BY <1>20, KeysQuiet DEF Exit, Fresh
<1>21. QED
  BY <1>1, <1>2, <1>3, <1>4, <1>5, <1>6, <1>7, <1>8, <1>9, <1>10, <1>11, <1>12, <1>13,
     <1>14, <1>15, <1>16, <1>17, <1>18, <1>19, <1>20 DEF Step, New, Start

LEMMA KeysInvCorrect == Spec => []KeysInv
<1>1. Shape /\ KeysInv /\ [Next]_vars => KeysInv'
  <2>1. KeysInv /\ UNCHANGED vars => KeysInv'
    BY DEF KeysInv, Own, Paths, vars, procVars, keyVars
  <2>2. KeysInv /\ Generator => KeysInv'
    BY GeneratorKeeps DEF KeysInv, Own, Paths, procVars, keyVars
  <2>3. QED
    BY <2>1, <2>2, KeysInvStep DEF Next, Step
<1>2. QED
  BY KeysInvInit, ShapeCorrect, <1>1, PTL DEF Spec

\* An instance that shares its host key file with no other shows one key for good,
\* however often and wherever it is killed (loadOrGenerateHostKey).
THEOREM HostKeyCorrect == Spec => []HostKeyNeverChanges
<1>1. KeysInv => HostKeyNeverChanges
  <2> SUFFICES ASSUME KeysInv, NEW i \in Instances, Own(i)
               PROVE  Cardinality(shown[i]) <= 1
    BY DEF HostKeyNeverChanges, Own
  <2>1. shown[i] = {} \/ \E k : shown[i] = {k}
    BY DEF KeysInv
  <2>2. CASE shown[i] = {}
    <3>1. Cardinality(shown[i]) = 0
      BY <2>2, FS_EmptySet
    <3>2. QED
      BY <3>1
  <2>3. ASSUME NEW k, shown[i] = {k}
        PROVE  Cardinality(shown[i]) <= 1
    <3>1. Cardinality({k}) = 1
      BY FS_Singleton
    <3>2. QED
      BY <2>3, <3>1
  <2>4. QED
    BY <2>1, <2>2, <2>3
<1>2. QED
  BY KeysInvCorrect, <1>1, PTL

-----------------------------------------------------------------------------
(* The manifest and the configs.                                           *)

\* A manifest is of the latest run only once the files of that run are whole, and
\* they change only while the next run is rendered, which no manifest names yet.
Published ==
    /\ run \in Nat \ {0} /\ run \in Runs
    /\ manifest \in [run : Nat \ {0}, rows : Int]
    /\ manifest.run \in Runs /\ manifest.run <= run
    /\ manifest.rows <= Len(Rows(manifest.run))
    /\ running = "rendering" => manifest.run # run
    /\ running = "publishing" => manifest.run = run
    /\ manifest.run = run => \A f \in FilesOf(run) : file[f] = Content(run, f)

\* Instance i read the manifest of some run; if of the latest, all that it has
\* mapped so far is what that run wrote.
AsPublished(i) ==
    LET p    == proc[i]
        Same == \A n \in p.devs \ p.todo : p.maps[n] = file[Row(i, n).file]
    IN  /\ p.of.run \in Nat /\ p.of.run <= manifest.run
        /\ p.devs \subseteq DOMAIN Rows(p.of.run)
        /\ p.step = "map" => DOMAIN p.maps = p.devs
        /\ p.step \in {"check", "bind", "serving"} => p.todo = {}
        /\ p.step \in {"map", "check", "bind", "serving"} /\ p.of.run = run => Same

ConfigsInv == Published /\ \A i \in Instances : AsPublished(i)

LEMMA RowsAreSequences ==
    ASSUME Shape, NEW r \in Runs
    PROVE  Len(Rows(r)) \in Nat /\ DOMAIN Rows(r) = 1..Len(Rows(r))
  BY StartupAssumption DEF StartupAssumption, Shape, Rows

LEMMA ConfigsInvInit == Init => ConfigsInv
<1> SUFFICES ASSUME Init PROVE ConfigsInv
  OBVIOUS
<1>1. 1 \in Runs
  BY StartupAssumption DEF StartupAssumption
<1>2. Len(Rows(1)) \in Nat
  BY <1>1, ShapeInit, RowsAreSequences
<1>3. Published
  BY <1>1, <1>2 DEF Init, Published, Content
<1>4. ASSUME NEW i \in Instances PROVE AsPublished(i)
  BY DEF Init, AsPublished, Fresh
<1>5. QED
  BY <1>3, <1>4 DEF ConfigsInv

\* What an instance does leaves what is published alone.
LEMMA PublishedStep ==
    ASSUME Shape, Published, NEW i \in Instances, Step(i)
    PROVE  Published' /\ UNCHANGED <<flags, fleet, fleetVars>>
<1>1. UNCHANGED <<flags, fleet, fleetVars>>
  BY DEF Step, New, Start, Launch, CheckFlags, ReadKey, CreateKeyFile, WriteKey, KeyFails,
         ReadManifest, ManifestFails, Map, MapFails, Loaded, CheckOK, CheckFails, Bind,
         BindFails, Ready, MetricsFail, CloseListeners, Unload, Exit
<1>2. QED
  BY <1>1 DEF Published, fleetVars, Rows, FilesOf, Content

\* An action that keeps the manifest and the maps of the process, and only goes on
\* to check, bind or serve from there.
LEMMA ConfigsQuiet ==
    ASSUME NEW i \in Instances, AsPublished(i), UNCHANGED <<fleet, fleetVars>>,
           proc'[i].of = proc[i].of, proc'[i].devs = proc[i].devs,
           proc'[i].todo = proc[i].todo,
           \/ proc'[i].step \notin {"map", "check", "bind", "serving"}
           \/ /\ proc'[i].maps = proc[i].maps
              /\ proc'[i].step \in {"check", "bind", "serving"}
              /\ \/ proc[i].step \in {"check", "bind", "serving"}
                 \/ proc[i].step = "map" /\ proc[i].todo = {}
    PROVE  AsPublished(i)'
  BY DEF AsPublished, fleetVars, Row, Rows

LEMMA AsPublishedStep ==
    ASSUME Shape, Published, NEW i \in Instances, AsPublished(i), Step(i)
    PROVE  AsPublished(i)'
<1> USE DEF Shape, Fields, At
<1>0. UNCHANGED <<fleet, fleetVars>>
  BY PublishedStep
<1>1. CASE Launch(i)
  BY <1>0, <1>1, ConfigsQuiet DEF Launch, Goto
<1>2. CASE CheckFlags(i)
  <2>1. \E s \in {"key", "failed"} : proc' = [proc EXCEPT ![i].step = s]
    BY <1>2 DEF CheckFlags, Goto
  <2>2. QED
    BY <1>0, <2>1, ConfigsQuiet
<1>3. CASE ReadKey(i)
  <2>1. /\ proc'[i].step \in {"generate", "failed", "manifest"}
        /\ proc'[i].of = proc[i].of /\ proc'[i].devs = proc[i].devs
        /\ proc'[i].todo = proc[i].todo
    BY <1>3 DEF ReadKey
  <2>2. QED
    BY <1>0, <2>1, ConfigsQuiet
<1>4. CASE CreateKeyFile(i)
  BY <1>0, <1>4, ConfigsQuiet DEF CreateKeyFile, Goto
<1>5. CASE WriteKey(i)
  BY <1>0, <1>5, ConfigsQuiet DEF WriteKey
<1>6. CASE KeyFails(i)
  BY <1>0, <1>6, ConfigsQuiet DEF KeyFails, Goto
<1>7. CASE ReadManifest(i)
  <2>1. PICK D \in SUBSET (1..manifest.rows) :
           proc' = [proc EXCEPT ![i].step = "map", ![i].of = manifest, ![i].devs = D,
                                ![i].todo = D, ![i].maps = [n \in D |-> None]]
    BY <1>7 DEF ReadManifest
  <2>2. /\ proc'[i].step = "map" /\ proc'[i].of = manifest /\ proc'[i].devs = D
        /\ proc'[i].todo = D /\ DOMAIN proc'[i].maps = D
    BY <2>1
  <2>3. D \subseteq DOMAIN Rows(manifest.run)
    BY RowsAreSequences DEF Published
  <2>4. manifest' = manifest /\ run' = run /\ Rows(manifest.run)' = Rows(manifest.run)
    BY <1>0 DEF fleetVars, Rows
  <2>5. QED
    BY <2>2, <2>3, <2>4 DEF AsPublished, Published, Rows
<1>8. CASE ManifestFails(i)
  BY <1>0, <1>8, ConfigsQuiet DEF ManifestFails, Goto
<1>9. ASSUME NEW n \in proc[i].devs, Map(i, n)
      PROVE  AsPublished(i)'
  <2>1. proc[i].step = "map" /\ DOMAIN proc[i].maps = proc[i].devs
    BY <1>9 DEF Map, AsPublished
  <2>2. /\ proc'[i].step = "map" /\ proc'[i].of = proc[i].of
        /\ proc'[i].devs = proc[i].devs /\ proc'[i].todo = proc[i].todo \ {n}
        /\ proc'[i].maps = [proc[i].maps EXCEPT ![n] = file[Row(i, n).file]]
    BY <1>9, <2>1 DEF Map
  <2>3. proc'[i].maps[n] = file[Row(i, n).file] /\ DOMAIN proc'[i].maps = proc[i].devs
    BY <2>1, <2>2
  <2>4. \A m \in proc[i].devs \ {n} : proc'[i].maps[m] = proc[i].maps[m]
    BY <2>1, <2>2
  <2>5. /\ UNCHANGED <<run, manifest, file>> /\ Rows(proc[i].of.run)' = Rows(proc[i].of.run)
        /\ \A m : Row(i, m)' = Row(i, m)
    BY <1>0, <2>2 DEF fleetVars, Row, Rows
  <2>6. \A m \in proc'[i].devs \ proc'[i].todo : m = n \/ m \in proc[i].devs \ proc[i].todo
    BY <2>2
  <2>7. QED
    BY <2>1, <2>2, <2>3, <2>4, <2>5, <2>6 DEF AsPublished
<1>10. ASSUME NEW n \in proc[i].devs, MapFails(i, n)
       PROVE  AsPublished(i)'
  BY <1>0, <1>10, ConfigsQuiet DEF MapFails
<1>11. CASE Loaded(i)
  BY <1>0, <1>11, ConfigsQuiet DEF Loaded, Goto
<1>12. CASE CheckOK(i)
  BY <1>0, <1>12, ConfigsQuiet DEF CheckOK
<1>13. CASE CheckFails(i)
  BY <1>0, <1>13, ConfigsQuiet DEF CheckFails, Goto
<1>14. ASSUME NEW p \in PortsOf(i), Bind(i, p)
       PROVE  AsPublished(i)'
  BY <1>0, <1>14, ConfigsQuiet DEF Bind
<1>15. ASSUME NEW p \in PortsOf(i), BindFails(i, p)
       PROVE  AsPublished(i)'
  BY <1>0, <1>15, ConfigsQuiet DEF BindFails
<1>16. CASE Ready(i)
  BY <1>0, <1>16, ConfigsQuiet DEF Ready, Goto
<1>17. CASE MetricsFail(i)
  BY <1>0, <1>17, ConfigsQuiet DEF MetricsFail
<1>18. CASE CloseListeners(i)
  BY <1>0, <1>18, ConfigsQuiet DEF CloseListeners
<1>19. CASE Unload(i)
  BY <1>0, <1>19, ConfigsQuiet DEF Unload
<1>20. CASE Exit(i)
  <2>1. proc'[i] = Fresh
    BY <1>20 DEF Exit
  <2>2. manifest.run \in Nat /\ manifest.run >= 1
    BY DEF Published
  <2>3. QED
    BY <1>0, <2>1, <2>2 DEF AsPublished, Fresh, fleetVars
<1>21. QED
  BY <1>1, <1>2, <1>3, <1>4, <1>5, <1>6, <1>7, <1>8, <1>9, <1>10, <1>11, <1>12, <1>13,
     <1>14, <1>15, <1>16, <1>17, <1>18, <1>19, <1>20 DEF Step, New, Start

\* The generator only touches files that no published manifest is about: those of a
\* run it is still rendering.
LEMMA PublishedGenerator ==
    ASSUME Shape, Published, Generator
    PROVE  /\ Published' /\ manifest.run <= manifest'.run
           /\ UNCHANGED <<fleet, proc>>
           /\ \/ run' = run + 1
              \/ run' = run /\ (UNCHANGED file \/ manifest.run # run)
<1> USE DEF Published, None
<1>0. UNCHANGED <<flags, fleet, proc>>
  BY GeneratorKeeps DEF procVars
<1>1. CASE Regenerate
  BY <1>0, <1>1 DEF Regenerate, Rows
<1>2. CASE CreateManifest
  <2>1. Len(Rows(run)) \in Nat
    BY RowsAreSequences
  <2>2. /\ manifest' = [run |-> run, rows |-> -1] /\ running' = "publishing"
        /\ UNCHANGED <<file, run>> /\ Rows(run)' = Rows(run)
        /\ \A f \in FilesOf(run) : file[f] = run
        /\ running = "rendering"
    BY <1>0, <1>2 DEF CreateManifest, Rows
  <2>3. run # 1
    BY <2>2
  <2>4. \A f \in FilesOf(run)' : file'[f] = Content(run, f)'
    BY <1>0, <2>2, <2>3 DEF Content, FilesOf, Rows
  <2>5. QED
    BY <1>0, <2>1, <2>2, <2>4 DEF Rows
<1>3. CASE RunFails
  BY <1>0, <1>3 DEF RunFails, Rows, FilesOf, Content
<1>4. ASSUME NEW f \in Files, Truncate(f) \/ Fill(f)
      PROVE  /\ UNCHANGED <<run, running, manifest>>
             /\ running = "rendering"
  BY <1>4 DEF Truncate, Fill
<1>5. ASSUME NEW n \in 0..Len(Rows(run)), WriteRows(n)
      PROVE  /\ UNCHANGED <<run, file>> /\ manifest.run = run
             /\ manifest' = [manifest EXCEPT !.rows = n] /\ running' # "rendering"
  BY <1>5 DEF WriteRows
<1>6. CASE \E f \in Files : Truncate(f) \/ Fill(f)
  BY <1>0, <1>4, <1>6 DEF Rows
<1>7. CASE \E n \in 0..Len(Rows(run)) : WriteRows(n)
  <2>1. PICK n \in 0..Len(Rows(run)) : WriteRows(n)
    BY <1>7
  <2>2. /\ UNCHANGED <<run, file>> /\ manifest.run = run
        /\ manifest' = [manifest EXCEPT !.rows = n] /\ running' # "rendering"
    BY <1>5, <2>1
  <2>3. Len(Rows(run)) \in Nat
    BY RowsAreSequences
  <2>4. /\ manifest' \in [run : Nat \ {0}, rows : Int] /\ manifest'.run = run
        /\ manifest'.rows <= Len(Rows(run))
    BY <2>2, <2>3
  <2>5. QED
    BY <1>0, <2>2, <2>4 DEF Rows, FilesOf, Content
<1>8. QED
  BY <1>0, <1>1, <1>2, <1>3, <1>6, <1>7 DEF Generator

LEMMA ConfigsInvCorrect == Spec => []ConfigsInv
<1>1. Shape /\ ConfigsInv /\ [Next]_vars => ConfigsInv'
  <2>1. ConfigsInv /\ UNCHANGED vars => ConfigsInv'
    <3> SUFFICES ASSUME ConfigsInv, UNCHANGED vars PROVE ConfigsInv'
      OBVIOUS
    <3>1. Published'
      BY DEF ConfigsInv, Published, Rows, FilesOf, Content, vars, fleetVars
    <3>2. ASSUME NEW i \in Instances PROVE AsPublished(i)'
      BY DEF ConfigsInv, AsPublished, Rows, Row, vars, procVars, fleetVars
    <3>3. QED
      BY <3>1, <3>2 DEF ConfigsInv
  <2>2. ASSUME Shape, ConfigsInv, Generator
        PROVE  ConfigsInv'
    <3>1. ASSUME NEW i \in Instances PROVE AsPublished(i)'
      <4>1. /\ Published /\ Published' /\ AsPublished(i) /\ manifest.run <= manifest'.run
            /\ UNCHANGED <<fleet, proc>>
            /\ \/ run' = run + 1
               \/ run' = run /\ (UNCHANGED file \/ manifest.run # run)
        BY <2>2, PublishedGenerator DEF ConfigsInv
      <4>2. proc[i].of.run <= manifest'.run
        BY <4>1 DEF AsPublished, Published
      <4>3. proc[i].of.run = run' => proc[i].of.run = run /\ UNCHANGED file
        BY <4>1 DEF AsPublished, Published
      <4>4. QED
        BY <4>1, <4>2, <4>3 DEF AsPublished, Rows, Row
    <3>2. QED
      BY <2>2, <3>1, PublishedGenerator DEF ConfigsInv
  <2>3. ASSUME Shape, ConfigsInv, NEW i \in Instances, Step(i)
        PROVE  ConfigsInv'
    <3>1. AsPublished(i)'
      BY <2>3, AsPublishedStep DEF ConfigsInv
    <3>2. ASSUME NEW j \in Instances \ {i} PROVE AsPublished(j)'
      <4>1. proc'[j] = proc[j]
        BY <2>3, OthersStay
      <4>2. UNCHANGED <<fleet, file, run, manifest>>
        BY <2>3, PublishedStep DEF ConfigsInv, fleetVars
      <4>3. AsPublished(j)
        BY <2>3 DEF ConfigsInv
      <4>4. QED
        BY <4>1, <4>2, <4>3 DEF AsPublished, Rows, Row
    <3>3. QED
      BY <2>3, <3>1, <3>2, PublishedStep DEF ConfigsInv
  <2>4. QED
    BY <2>1, <2>2, <2>3 DEF Next, Step
<1>2. QED
  BY ConfigsInvInit, ShapeCorrect, <1>1, PTL DEF Spec

\* With the manifest of the latest generator run, an instance serves that run's
\* configs and nothing else, whenever it was started and wherever the run was
\* killed (LoadForListener, Run).
THEOREM ConfigsCorrect == Spec => []ConfigsMatchTheManifest
<1>1. ConfigsInv /\ MapsInv => ConfigsMatchTheManifest
  <2> SUFFICES ASSUME ConfigsInv, MapsInv, NEW i \in Instances, Open(i),
                      proc[i].of.run = run, NEW n \in proc[i].devs
               PROVE  /\ file[Row(i, n).file] = Content(run, Row(i, n).file)
                      /\ proc[i].maps[n] = file[Row(i, n).file]
    BY DEF ConfigsMatchTheManifest
  <2>1. proc[i].step \in {"bind", "serving"}
    BY DEF MapsInv, Open
  <2>2. proc[i].maps[n] = file[Row(i, n).file]
    BY <2>1 DEF ConfigsInv, AsPublished
  <2>3. manifest.run = run /\ Row(i, n).file \in FilesOf(run)
    BY DEF ConfigsInv, Published, AsPublished, Row, FilesOf
  <2>4. QED
    BY <2>2, <2>3 DEF ConfigsInv, Published
<1>2. QED
  BY ConfigsInvCorrect, MapsInvCorrect, <1>1, PTL

-----------------------------------------------------------------------------
(* The shares of the rules.                                                *)

Shares(rules) ==
    /\ Len(rules) \in Nat
    /\ \A n \in 1..Len(rules) : rules[n].percent \in Nat

\* An edge is a share beyond the one before.
LEMMA EdgesBySteps ==
    ASSUME NEW rules, Shares(rules)
    PROVE  /\ Edges(rules)[0] = 0
           /\ \A n \in 1..Len(rules) : Edges(rules)[n] = Edges(rules)[n - 1] + rules[n].percent
           /\ \A n \in 0..Len(rules) : Edges(rules)[n] \in Nat
<1> DEFINE N == Len(rules)
           a == [n \in 1..N |-> rules[n].percent]
           E(g, n) == IF n = 0 THEN 0 ELSE g[n - 1] + rules[n].percent
           e == CHOOSE g : g = [n \in 0..N |-> E(g, n)]
<1>1. Edges(rules) = e
  BY DEF Edges
<1>2. N \in Nat /\ \A n \in 1..N : rules[n].percent \in Nat
  BY DEF Shares
<1>3. \A n \in 1..N : a[n] = rules[n].percent /\ a[n] \in Nat
  <2> HIDE DEF N
  <2>1. QED
    BY <1>2
<1> HIDE DEF N, a
<1>4. PICK g \in [0..N -> Nat] : g[0] = 0 /\ \A n \in 1..N : g[n] = g[n - 1] + a[n]
  <2> HIDE DEF E, e
  <2>1. QED
    BY <1>2, <1>3, SumIsDefined
<1>5. \A n \in 1..N : n # 0 /\ n - 1 \in 0..N /\ g[n] = g[n - 1] + rules[n].percent
  <2>1. \A n \in 1..N : n # 0 /\ n - 1 \in 0..N
    BY <1>2
  <2>2. QED
    BY <1>3, <1>4, <2>1
<1>6. \A n \in 0..N : g[n] = E(g, n)
  <2>1. \A n \in 0..N : n = 0 \/ n \in 1..N
    BY <1>2
  <2>2. g[0] = E(g, 0) /\ \A n \in 1..N : g[n] = E(g, n)
    BY <1>4, <1>5
  <2> HIDE DEF E
  <2>3. QED
    BY <2>1, <2>2
<1>7. e = [n \in 0..N |-> E(e, n)]
  <2>1. g = [n \in 0..N |-> E(g, n)]
    <3> HIDE DEF E
    <3>1. QED
      BY <1>4, <1>6
  <2> HIDE DEF E
  <2>2. QED
    BY <2>1
<1> HIDE DEF e
<1>8. e[0] = 0 /\ \A n \in 1..N : n # 0 /\ e[n] = e[n - 1] + rules[n].percent
  <2>1. 0 \in 0..N /\ \A n \in 1..N : n \in 0..N /\ n # 0
    BY <1>2
  <2>2. e[0] = E(e, 0) /\ \A n \in 1..N : e[n] = E(e, n)
    <3> HIDE DEF E
    <3>1. QED
      BY <1>7, <2>1
  <2>3. QED
    BY <2>1, <2>2
<1>9. \A n \in 0..N : e[n] \in Nat
  <2> DEFINE T == {n \in Nat : n <= N => e[n] \in Nat}
  <2>1. 0 \in T
    BY <1>8
  <2>2. ASSUME NEW n \in Nat, n \in T
        PROVE  n + 1 \in T
    <3> SUFFICES ASSUME n + 1 <= N PROVE e[n + 1] \in Nat
      OBVIOUS
    <3>1. e[n] \in Nat /\ n + 1 \in 1..N /\ (n + 1) - 1 = n
      BY <1>2, <2>2
    <3>2. QED
      BY <1>2, <1>8, <3>1
  <2>3. Nat \subseteq T
    <3> HIDE DEF T
    <3>1. QED
      BY <2>1, <2>2, Induction
  <2>4. QED
    BY <1>2, <2>3
<1>10. QED
  BY <1>1, <1>8, <1>9 DEF N

\* Edges only grow.
LEMMA EdgesGrow ==
    ASSUME NEW rules, Shares(rules), NEW m \in 0..Len(rules), NEW n \in 0..Len(rules), m <= n
    PROVE  Edges(rules)[m] <= Edges(rules)[n]
<1> DEFINE e == Edges(rules)
           T == {k \in Nat : m + k <= Len(rules) => e[m] <= e[m + k]}
<1>1. Len(rules) \in Nat /\ \A k \in 1..Len(rules) : rules[k].percent \in Nat
  BY DEF Shares
<1>2. /\ \A k \in 1..Len(rules) : e[k] = e[k - 1] + rules[k].percent
      /\ \A k \in 0..Len(rules) : e[k] \in Nat
  BY EdgesBySteps
<1> HIDE DEF e
<1>3. 0 \in T
  BY <1>1, <1>2
<1>4. ASSUME NEW k \in Nat, k \in T
      PROVE  k + 1 \in T
  <2> SUFFICES ASSUME m + (k + 1) <= Len(rules) PROVE e[m] <= e[m + (k + 1)]
    OBVIOUS
  <2> DEFINE q == m + (k + 1)
  <2>1. q \in 1..Len(rules) /\ q - 1 = m + k /\ m + k \in 0..Len(rules)
    BY <1>1
  <2>2. e[m] <= e[m + k]
    BY <1>4, <2>1
  <2>3. e[q] = e[m + k] + rules[q].percent
    BY <1>2, <2>1
  <2> HIDE DEF q
  <2>4. e[m] <= e[q]
    BY <1>1, <1>2, <2>1, <2>2, <2>3
  <2>5. QED
    BY <2>4 DEF q
<1>5. n - m \in Nat /\ m + (n - m) = n
  BY <1>1
<1>6. n - m \in T
  <2> HIDE DEF T
  <2>1. QED
    BY <1>3, <1>4, <1>5, Induction
<1>7. QED
  BY <1>1, <1>5, <1>6 DEF e

\* A host falls to one rule, or to none: the first whose edge is beyond its point.
LEMMA OneRule ==
    ASSUME NEW f, NEW host, Shares(f.rules), DOMAIN f.rules = 1..Len(f.rules),
           Point[f.seed][host] \in Nat
    PROVE  \/ RulesFor(f, host) = {} /\ Assign(f, host) = "normal"
           \/ \E n \in 1..Len(f.rules) :
                 RulesFor(f, host) = {n} /\ Assign(f, host) = f.rules[n].profile
<1> DEFINE N == Len(f.rules)
           e == Edges(f.rules)
           p == Point[f.seed][host]
           hits == {n \in 1..N : p < e[n]}
<1>1. /\ N \in Nat /\ p \in Nat
      /\ e[0] = 0 /\ \A n \in 0..N : e[n] \in Nat
      /\ \A n \in 1..N : n - 1 \in 0..N /\ e[n] = e[n - 1] + f.rules[n].percent
      /\ \A n \in 1..N : f.rules[n].percent \in Nat
  BY EdgesBySteps DEF Shares
<1>2. \A m, n \in 0..N : m <= n => e[m] <= e[n]
  BY EdgesGrow
<1>3. RulesFor(f, host) = {n \in 1..N : e[n - 1] <= p /\ p < e[n]}
  <2>1. RulesFor(f, host) = {n \in 1..N : p \in e[n - 1]..(e[n - 1] + f.rules[n].percent - 1)}
    BY DEF RulesFor
  <2> HIDE DEF N, e, p
  <2>2. \A n \in 1..N : p \in e[n - 1]..(e[n - 1] + f.rules[n].percent - 1)
                        <=> e[n - 1] <= p /\ p < e[n]
    <3>1. \A b, s, q \in Nat : q \in b..(b + s - 1) <=> b <= q /\ q < b + s
      OBVIOUS
    <3>2. ASSUME NEW n \in 1..N
          PROVE  /\ e[n - 1] \in Nat /\ f.rules[n].percent \in Nat /\ p \in Nat
                 /\ e[n] = e[n - 1] + f.rules[n].percent
      BY <1>1
    <3>3. QED
      BY <3>1, <3>2
  <2>3. QED
    BY <2>1, <2>2
<1>4. Assign(f, host) = IF hits = {} THEN "normal" ELSE f.rules[Min(hits)].profile
  BY DEF Assign
<1> HIDE DEF N, e, p
<1>5. CASE hits = {}
  BY <1>3, <1>4, <1>5
<1>6. CASE hits # {}
  <2>1. hits \in SUBSET Nat
    OBVIOUS
  <2>2. \E n \in hits : \A m \in hits : n <= m
    <3> HIDE DEF hits
    <3>1. QED
      BY <1>6, <2>1, LeastElement
  <2>3. Min(hits) \in hits /\ \A m \in hits : Min(hits) <= m
    <3> HIDE DEF hits
    <3>1. QED
      BY <2>2 DEF Min
  <2> DEFINE n == Min(hits)
  <2>4. n \in 1..N /\ p < e[n] /\ \A m \in 1..N : p < e[m] => n <= m
    BY <2>3
  <2> HIDE DEF n
  <2>5. e[n - 1] <= p
    <3>1. CASE n = 1
      BY <1>1, <3>1
    <3>2. CASE n # 1
      <4>1. n - 1 \in 1..N /\ ~(n <= n - 1) /\ n - 1 \in 0..N
        BY <1>1, <2>4, <3>2
      <4>2. ~(p < e[n - 1])
        BY <2>4, <4>1
      <4>3. QED
        BY <1>1, <4>1, <4>2
    <3>3. QED
      BY <3>1, <3>2
  <2>6. ASSUME NEW m \in 1..N, e[m - 1] <= p, p < e[m]
        PROVE  m = n
    <3>1. n <= m
      BY <2>4, <2>6
    <3>2. CASE n < m
      <4>1. n <= m - 1 /\ n \in 0..N /\ m - 1 \in 0..N
        BY <1>1, <2>4, <3>2
      <4>2. e[n] <= e[m - 1]
        BY <1>2, <4>1
      <4>3. e[n] \in Nat /\ e[m - 1] \in Nat
        BY <1>1, <4>1
      <4>4. QED
        BY <1>1, <2>4, <2>6, <4>2, <4>3
    <3>3. QED
      BY <1>1, <2>4, <3>1, <3>2
  <2>7. RulesFor(f, host) = {n}
    BY <1>3, <2>4, <2>5, <2>6
  <2>8. Assign(f, host) = f.rules[n].profile
    BY <1>4, <1>6 DEF n
  <2>9. QED
    BY <2>4, <2>7, <2>8 DEF N
<1>7. QED
  BY <1>5, <1>6

\* What FlagsOK and the host say of the rules and of the points.
LEMMA RulesAreShares ==
    ASSUME Shape, NEW i \in Instances, FlagsOK(flags[i])
    PROVE  /\ Shares(flags[i].rules)
           /\ DOMAIN flags[i].rules = 1..Len(flags[i].rules)
           /\ \A n \in 1..Len(flags[i].rules) : flags[i].rules[n].profile \in Kinds
<1> DEFINE R == flags[i].rules
<1>1. Len(R) \in Nat /\ DOMAIN R = 1..Len(R)
  <2>1. PICK h \in Hosts : flags = h.flags
    BY DEF Shape
  <2>2. Len(h.flags[i].rules) \in Nat /\ DOMAIN h.flags[i].rules = 1..Len(h.flags[i].rules)
    BY StartupAssumption DEF StartupAssumption
  <2>3. QED
    BY <2>1, <2>2
<1>2. RulesOK(R)
  BY DEF FlagsOK
<1> HIDE DEF R
<1>3. \A n \in 1..Len(R) : R[n].profile \in Kinds /\ R[n].percent \in 1..100
  BY <1>1, <1>2 DEF RulesOK
<1>4. \A n \in 1..Len(R) : R[n].percent \in Nat
  <2>1. \A q \in 1..100 : q \in Nat
    OBVIOUS
  <2>2. QED
    BY <1>3, <2>1
<1>5. Shares(R)
  BY <1>1, <1>4 DEF Shares
<1>6. QED
  BY <1>1, <1>3, <1>5 DEF R

LEMMA PointsAreThere ==
    ASSUME Shape, NEW i \in Instances, NEW r \in Runs, NEW n \in DOMAIN Rows(r)
    PROVE  Point[flags[i].seed][Rows(r)[n].host] \in Nat /\ Rows(r)[n].file \in Files
<1>1. PICK h \in Hosts : flags = h.flags /\ fleet = h.fleet
  BY DEF Shape
<1>2. /\ Point[h.flags[i].seed][h.fleet.runs[r].rows[n].host] \in 0..99
      /\ h.fleet.runs[r].rows[n].file \in DOMAIN h.fleet.files
  <2> DEFINE rows == h.fleet.runs[r].rows
  <2>1. \A k \in DOMAIN rows :
           /\ rows[k].file \in DOMAIN h.fleet.files
           /\ Point[h.flags[i].seed][rows[k].host] \in 0..99
    BY StartupAssumption DEF StartupAssumption
  <2>2. n \in DOMAIN rows
    BY <1>1 DEF Rows
  <2> HIDE DEF rows
  <2>3. rows[n].file \in DOMAIN h.fleet.files /\ Point[h.flags[i].seed][rows[n].host] \in 0..99
    BY <2>1, <2>2
  <2>4. QED
    BY <2>3 DEF rows
<1>3. \A q \in 0..99 : q \in Nat
  OBVIOUS
<1>4. Point[h.flags[i].seed][h.fleet.runs[r].rows[n].host] \in Nat
  BY <1>2, <1>3
<1>5. QED
  BY <1>1, <1>2, <1>4 DEF Rows, Files

-----------------------------------------------------------------------------
(* The types.                                                              *)

FileTypes ==
    /\ file \in [Files -> Runs \union {None, Empty}]
    /\ run \in Runs
    /\ running \in {"no", "rendering", "publishing", "failed"}
    /\ manifest \in [run : Runs, rows : Nat \union {None}]

LEMMA FileTypesInit == Init => FileTypes
<1> SUFFICES ASSUME Init PROVE FileTypes
  OBVIOUS
<1>1. 1 \in Runs
  BY StartupAssumption DEF StartupAssumption
<1>2. Len(Rows(1)) \in Nat
  BY <1>1, ShapeInit, RowsAreSequences
<1>3. file \in [Files -> Runs \union {None, Empty}]
  BY StartupAssumption DEF StartupAssumption, Init, Files
<1>4. QED
  BY <1>1, <1>2, <1>3 DEF Init, FileTypes

LEMMA FileTypesStep ==
    ASSUME Shape, Published, FileTypes, [Next]_vars
    PROVE  FileTypes'
<1> USE DEF FileTypes
<1>1. CASE UNCHANGED vars
  BY <1>1 DEF vars, fleetVars, Files
<1>2. ASSUME NEW i \in Instances, Step(i)
      PROVE  FileTypes'
  BY <1>2, PublishedStep DEF fleetVars, Files
<1>3. CASE Generator
  <2>1. Files' = Files
    BY <1>3, GeneratorKeeps DEF Files
  <2>2. CASE Regenerate
    BY <2>1, <2>2 DEF Regenerate
  <2>3. CASE CreateManifest
    BY <2>1, <2>3 DEF CreateManifest
  <2>4. CASE RunFails
    BY <2>1, <2>4 DEF RunFails
  <2>5. ASSUME NEW f \in Files, Truncate(f) \/ Fill(f)
        PROVE  FileTypes'
    BY <2>1, <2>5 DEF Truncate, Fill
  <2>6. ASSUME NEW n \in 0..Len(Rows(run)), WriteRows(n)
        PROVE  FileTypes'
    <3>1. n \in Nat
      BY RowsAreSequences
    <3>2. QED
      BY <2>1, <2>6, <3>1 DEF WriteRows
  <2>7. QED
    BY <1>3, <2>2, <2>3, <2>4, <2>5, <2>6 DEF Generator
<1>4. QED
  BY <1>1, <1>2, <1>3 DEF Next, Step

\* A process that has its key has a whole one.
KeyTypes ==
    /\ starts \in [Instances -> Nat]
    /\ keys \in Nat
    /\ keyFile \in [Paths -> -1..keys]
    /\ shown \in [Instances -> SUBSET (1..keys)]
    /\ \A i \in Instances :
          /\ proc[i].step \in Steps
          /\ proc[i].key \in 0..keys
          /\ proc[i].step \in Keyed => proc[i].key # NoKey

LEMMA KeyTypesInit == Init => KeyTypes
  BY DEF Init, KeyTypes, Fresh, Keyed, Steps, NoKey

\* Every other action keeps the keys.
LEMMA KeyTypesQuiet ==
    ASSUME Shape, KeyTypes, NEW i \in Instances, UNCHANGED <<flags, starts, keyVars, shown>>,
           \A j \in Instances \ {i} : proc'[j] = proc[j],
           proc'[i].step \in Steps,
           \/ proc'[i].step \notin Keyed /\ proc'[i].key \in {0, proc[i].key}
           \/ proc[i].step \in Keyed /\ proc'[i].key = proc[i].key
    PROVE  KeyTypes'
<1> USE DEF KeyTypes, keyVars, Paths
<1>1. ASSUME NEW j \in Instances
      PROVE  /\ proc'[j].step \in Steps
             /\ proc'[j].key \in 0..keys'
             /\ proc'[j].step \in Keyed => proc'[j].key # NoKey
  BY DEF NoKey
<1>2. QED
  BY <1>1

LEMMA KeyTypesStep ==
    ASSUME Shape, KeyTypes, NEW i \in Instances, Step(i)
    PROVE  KeyTypes'
<1> USE DEF Shape, Fields, At, Keyed, Steps
<1>0. \A j \in Instances \ {i} : proc'[j] = proc[j]
  BY OthersStay
<1>1. CASE Launch(i)
  <2>1. /\ UNCHANGED <<flags, keyVars, shown>> /\ starts' \in [Instances -> Nat]
        /\ proc'[i].step = "flags" /\ proc'[i].key = proc[i].key
    BY <1>1 DEF Launch, Goto, KeyTypes
  <2>2. QED
    BY <1>0, <2>1 DEF KeyTypes, keyVars, Paths
<1>2. CASE CheckFlags(i)
  <2>1. /\ UNCHANGED <<flags, starts, keyVars, shown>>
        /\ \E s \in {"key", "failed"} : proc' = [proc EXCEPT ![i].step = s]
    BY <1>2 DEF CheckFlags, Goto
  <2>2. QED
    BY <2>1, KeyTypesQuiet
<1>3. CASE ReadKey(i)
  <2>1. UNCHANGED <<flags, starts, keyVars, shown>>
    BY <1>3 DEF ReadKey
  <2>2. CASE keyFile[flags[i].key] \in {NoKey, TornKey}
    <3>1. \E s \in {"generate", "failed"} : proc' = [proc EXCEPT ![i].step = s]
      BY <1>3, <2>2 DEF ReadKey, NoKey, TornKey
    <3>2. QED
      BY <2>1, <3>1, KeyTypesQuiet
  <2>3. CASE keyFile[flags[i].key] \notin {NoKey, TornKey}
    <3>1. proc' = [proc EXCEPT ![i].step = "manifest", ![i].key = keyFile[flags[i].key]]
      BY <1>3, <2>3 DEF ReadKey
    <3>2. proc'[i].step = "manifest" /\ proc'[i].key = keyFile[flags[i].key]
      BY <3>1
    <3>3. keyFile[flags[i].key] \in 0..keys /\ keyFile[flags[i].key] # NoKey
      BY <2>3 DEF KeyTypes, Paths, NoKey, TornKey
    <3>4. QED
      BY <1>0, <2>1, <3>2, <3>3 DEF KeyTypes, Paths, keyVars
  <2>4. QED
    BY <2>2, <2>3
<1>4. CASE CreateKeyFile(i)
  <2>1. UNCHANGED <<flags, starts, keys, shown>> /\ keyFile' \in [Paths -> -1..keys]
    BY <1>4 DEF CreateKeyFile, KeyTypes, Paths, TornKey
  <2>2. proc'[i].step = "write" /\ proc'[i].key = proc[i].key
    BY <1>4 DEF CreateKeyFile, Goto
  <2>3. QED
    BY <1>0, <2>1, <2>2 DEF KeyTypes, Paths
<1>5. CASE WriteKey(i)
  <2>1. /\ UNCHANGED <<flags, starts, shown>> /\ keys' = keys + 1
        /\ keyFile' = [keyFile EXCEPT ![flags[i].key] = keys + 1]
    BY <1>5 DEF WriteKey
  <2>2. proc'[i].step = "manifest" /\ proc'[i].key = keys + 1
    BY <1>5 DEF WriteKey
  <2>3. keys \in Nat /\ -1..keys \subseteq -1..(keys + 1) /\ 0..keys \subseteq 0..(keys + 1)
        /\ 1..keys \subseteq 1..(keys + 1) /\ keys + 1 \in 0..(keys + 1)
        /\ keys + 1 \in -1..(keys + 1) /\ keys + 1 # 0
    BY DEF KeyTypes
  <2>4. keyFile' \in [Paths -> -1..(keys + 1)]
    BY <2>1, <2>3 DEF KeyTypes
  <2>5. shown' \in [Instances -> SUBSET (1..(keys + 1))]
    BY <2>1, <2>3 DEF KeyTypes
  <2>6. ASSUME NEW j \in Instances
        PROVE  /\ proc'[j].step \in Steps
               /\ proc'[j].key \in 0..keys'
               /\ proc'[j].step \in Keyed => proc'[j].key # NoKey
    <3>1. CASE j = i
      BY <2>1, <2>2, <2>3, <3>1 DEF NoKey
    <3>2. CASE j # i
      <4>1. proc'[j] = proc[j] /\ proc[j].key \in 0..keys
        BY <1>0, <3>2 DEF KeyTypes
      <4>2. proc'[j].key \in 0..keys'
        BY <2>1, <2>3, <4>1
      <4>3. QED
        BY <4>1, <4>2 DEF KeyTypes
    <3>3. QED
      BY <3>1, <3>2
  <2>7. Paths' = Paths
    BY <2>1 DEF Paths
  <2>8. QED
    BY <2>1, <2>3, <2>4, <2>5, <2>6, <2>7 DEF KeyTypes
<1>6. CASE KeyFails(i)
  BY <1>6, KeyTypesQuiet DEF KeyFails, Goto
<1>7. CASE ReadManifest(i)
  <2>1. PICK D : proc' = [proc EXCEPT ![i].step = "map", ![i].of = manifest, ![i].devs = D,
                                      ![i].todo = D, ![i].maps = [n \in D |-> None]]
    BY <1>7 DEF ReadManifest
  <2>2. proc'[i].step = "map" /\ proc'[i].key = proc[i].key
    BY <2>1
  <2>3. proc[i].step = "manifest" /\ UNCHANGED <<flags, starts, keyVars, shown>>
    BY <1>7 DEF ReadManifest
  <2>4. QED
    BY <1>0, <2>2, <2>3, KeyTypesQuiet
<1>8. CASE ManifestFails(i)
  BY <1>8, KeyTypesQuiet DEF ManifestFails, Goto
<1>9. ASSUME NEW n \in proc[i].devs, Map(i, n)
      PROVE  KeyTypes'
  BY <1>9, KeyTypesQuiet DEF Map
<1>10. ASSUME NEW n \in proc[i].devs, MapFails(i, n)
       PROVE  KeyTypes'
  BY <1>10, KeyTypesQuiet DEF MapFails
<1>11. CASE Loaded(i)
  BY <1>11, KeyTypesQuiet DEF Loaded, Goto
<1>12. CASE CheckOK(i)
  BY <1>12, KeyTypesQuiet DEF CheckOK
<1>13. CASE CheckFails(i)
  BY <1>13, KeyTypesQuiet DEF CheckFails, Goto
<1>14. ASSUME NEW p \in PortsOf(i), Bind(i, p)
       PROVE  KeyTypes'
  <2>1. /\ UNCHANGED <<flags, starts, keyVars>> /\ proc[i].step = "bind"
        /\ shown' = [shown EXCEPT ![i] = @ \union {proc[i].key}]
    BY <1>14 DEF Bind
  <2>2. proc'[i].step = "bind" /\ proc'[i].key = proc[i].key
    BY <1>14 DEF Bind
  <2>3. proc[i].key \in 1..keys
    BY <2>1 DEF KeyTypes, NoKey
  <2>4. shown' \in [Instances -> SUBSET (1..keys)]
    BY <2>1, <2>3 DEF KeyTypes
  <2>5. QED
    BY <1>0, <2>1, <2>2, <2>4 DEF KeyTypes, keyVars, Paths
<1>15. ASSUME NEW p \in PortsOf(i), BindFails(i, p)
       PROVE  KeyTypes'
  BY <1>15, KeyTypesQuiet DEF BindFails
<1>16. CASE Ready(i)
  BY <1>16, KeyTypesQuiet DEF Ready, Goto
<1>17. CASE MetricsFail(i)
  BY <1>17, KeyTypesQuiet DEF MetricsFail
<1>18. CASE CloseListeners(i)
  BY <1>18, KeyTypesQuiet DEF CloseListeners
<1>19. CASE Unload(i)
  BY <1>19, KeyTypesQuiet DEF Unload
<1>20. CASE Exit(i)
  BY <1>20, KeyTypesQuiet DEF Exit, Fresh, NoKey
<1>21. QED
  BY <1>1, <1>2, <1>3, <1>4, <1>5, <1>6, <1>7, <1>8, <1>9, <1>10, <1>11, <1>12, <1>13,
     <1>14, <1>15, <1>16, <1>17, <1>18, <1>19, <1>20 DEF Step, New, Start

-----------------------------------------------------------------------------
(* The rows.                                                               *)

Contents == Runs \union {None, Empty}
Profiles == Kinds \union {"normal"}

\* The devices of an instance are rows of the manifest it read.
RowTypes(i) ==
    LET p == proc[i]
    IN  /\ p.of \in [run : Runs, rows : Nat] /\ p.of.rows <= Len(Rows(p.of.run))
        /\ p.devs \in SUBSET (1..p.of.rows)
        /\ \A n \in p.devs : Mine(i, Rows(p.of.run), n)
        /\ p.todo \subseteq p.devs
        /\ p.maps \in [p.devs -> Contents]
        /\ p.bound \subseteq PortsOf(i)

\* Every device has a driver, every port a profile: its row's, if it has only one.
Answers(i) ==
    LET p == proc[i]
    IN  /\ \A n \in p.devs : Row(i, n).driver \in Drivers \union {""}
        /\ p.profiles \in [PortsOf(i) -> Profiles]
        /\ \A n \in p.devs :
              (\A m \in p.devs : Row(i, m).port = Row(i, n).port => m = n) =>
                  p.profiles[Row(i, n).port] = ProfileOf(i, n)

\* Where the flags were not looked at, and where the profiles were not.
Unchecked  == {"down", "flags", "failed"}
Unresolved == {"down", "flags", "key", "generate", "write", "manifest", "map", "check",
               "load_failed"}

RowsInv(i) ==
    /\ RowTypes(i)
    /\ proc[i].step \notin Unchecked => FlagsOK(flags[i])
    /\ proc[i].step \in Unresolved => proc[i].profiles = <<>>
    /\ proc[i].step \in {"bind", "serving"} => Answers(i)
    /\ proc[i].profiles = <<>> \/ proc[i].profiles \in [PortsOf(i) -> Profiles]

LEMMA NoMaps ==
    ASSUME NEW S
    PROVE  <<>> \in [{} -> S]
  OBVIOUS

LEMMA FreshRows ==
    ASSUME NEW i \in Instances, Shape, proc[i] = Fresh
    PROVE  RowsInv(i)
<1>1. Len(Rows(1)) \in Nat /\ 1 \in Runs
  BY RowsAreSequences, StartupAssumption DEF StartupAssumption
<1>2. <<>> \in [{} -> Contents]
  BY NoMaps
<1>3. QED
  BY <1>1, <1>2 DEF RowsInv, RowTypes, Fresh, Unchecked, Unresolved

\* A row is that of a run of the host.
LEMMA RowFacts ==
    ASSUME Shape, NEW i \in Instances, RowTypes(i), NEW n \in proc[i].devs
    PROVE  /\ n \in Nat /\ Row(i, n).file \in Files
           /\ Point[flags[i].seed][Row(i, n).host] \in Nat
           /\ Row(i, n).ip = flags[i].ip
           /\ proc[i].devs \in SUBSET (1..proc[i].of.rows) /\ proc[i].of.rows \in Nat
           /\ n \in DOMAIN Rows(proc[i].of.run)
<1> DEFINE r == proc[i].of.run
<1>1. r \in Runs /\ n \in DOMAIN Rows(r) /\ n \in Nat
  BY RowsAreSequences DEF RowTypes
<1>2. Point[flags[i].seed][Rows(r)[n].host] \in Nat /\ Rows(r)[n].file \in Files
  BY <1>1, PointsAreThere
<1>3. QED
  BY <1>1, <1>2 DEF RowTypes, Row, Mine

\* The largest of some devices is one of them.
LEMMA MaxDevice ==
    ASSUME Shape, NEW i \in Instances, RowTypes(i), NEW S \in SUBSET proc[i].devs, S # {}
    PROVE  Max(S) \in S
<1>1. PICK N \in Nat : S \in SUBSET (1..N)
  BY RowFacts
<1>2. S \in SUBSET (0..N)
  BY <1>1
<1>3. \E x \in S : \A y \in S : y <= x
  BY <1>2, GreatestElement
<1>4. \A x \in S : x \in Nat
  BY <1>1
<1>5. \E x \in S : \A y \in S : x >= y
  BY <1>3, <1>4
<1>6. QED
  BY <1>5 DEF Max

LEMMA ProfileTypes ==
    ASSUME Shape, NEW i \in Instances, RowTypes(i), FlagsOK(flags[i]), ProfilesOK(i),
           NEW n \in proc[i].devs
    PROVE  ProfileOf(i, n) \in Profiles
<1>1. CASE Row(i, n).profile = ""
  <2>1. Point[flags[i].seed][Row(i, n).host] \in Nat
    BY RowFacts
  <2>2. /\ Shares(flags[i].rules) /\ DOMAIN flags[i].rules = 1..Len(flags[i].rules)
        /\ \A k \in 1..Len(flags[i].rules) : flags[i].rules[k].profile \in Kinds
    BY RulesAreShares
  <2>3. \/ Assign(flags[i], Row(i, n).host) = "normal"
        \/ \E k \in 1..Len(flags[i].rules) :
              Assign(flags[i], Row(i, n).host) = flags[i].rules[k].profile
    BY <2>1, <2>2, OneRule
  <2>4. QED
    BY <1>1, <2>2, <2>3 DEF ProfileOf, Profiles
<1>2. CASE Row(i, n).profile # ""
  BY <1>2 DEF ProfileOf, Profiles, ProfilesOK
<1>3. QED
  BY <1>1, <1>2

\* resolveProfiles gives each port a profile, and the row that has a port to itself
\* its own.
LEMMA ResolvedProfiles ==
    ASSUME Shape, NEW i \in Instances, RowTypes(i), FlagsOK(flags[i]), ProfilesOK(i)
    PROVE  /\ resolveProfiles(i) \in [PortsOf(i) -> Profiles]
           /\ \A n \in proc[i].devs :
                 (\A m \in proc[i].devs : Row(i, m).port = Row(i, n).port => m = n) =>
                     resolveProfiles(i)[Row(i, n).port] = ProfileOf(i, n)
<1> DEFINE set(p) == {n \in AtPort(i, p) : ProfileOf(i, n) # "normal"}
           at(p) == IF set(p) = {} THEN "normal" ELSE ProfileOf(i, Max(set(p)))
<1>1. resolveProfiles(i) = [p \in PortsOf(i) |-> at(p)]
  BY DEF resolveProfiles
<1>2. ASSUME NEW p \in PortsOf(i)
      PROVE  at(p) \in Profiles
  <2>1. CASE set(p) = {}
    BY <2>1 DEF Profiles
  <2>2. CASE set(p) # {}
    <3>1. set(p) \in SUBSET proc[i].devs
      BY DEF AtPort
    <3>2. Max(set(p)) \in proc[i].devs
      <4> HIDE DEF set
      <4>1. QED
        BY <2>2, <3>1, MaxDevice
    <3>3. QED
      BY <2>2, <3>2, ProfileTypes
  <2>3. QED
    BY <2>1, <2>2
<1>3. ASSUME NEW n \in proc[i].devs,
             \A m \in proc[i].devs : Row(i, m).port = Row(i, n).port => m = n
      PROVE  at(Row(i, n).port) = ProfileOf(i, n)
  <2> DEFINE p == Row(i, n).port
  <2>1. AtPort(i, p) = {n}
    BY <1>3 DEF AtPort
  <2>2. CASE ProfileOf(i, n) = "normal"
    <3>1. set(p) = {}
      BY <2>1, <2>2
    <3>2. QED
      BY <2>2, <3>1
  <2>3. CASE ProfileOf(i, n) # "normal"
    <3>1. set(p) = {n}
      BY <2>1, <2>3
    <3>2. Max(set(p)) \in set(p)
      <4>1. set(p) \in SUBSET proc[i].devs /\ set(p) # {}
        BY <3>1
      <4> HIDE DEF set, p
      <4>2. QED
        BY <4>1, MaxDevice
    <3>3. Max(set(p)) = n
      BY <3>1, <3>2
    <3>4. QED
      BY <3>1, <3>3
  <2>4. QED
    BY <2>2, <2>3
<1> HIDE DEF at
<1>4. \A n \in proc[i].devs : Row(i, n).port \in PortsOf(i)
  BY DEF PortsOf
<1>5. QED
  BY <1>1, <1>2, <1>3, <1>4

\* An action that keeps the devices of the process, keeps what follows from them.
LEMMA RowsKept ==
    ASSUME NEW i \in Instances, RowTypes(i), UNCHANGED <<flags, fleet>>,
           proc'[i].of = proc[i].of, proc'[i].devs = proc[i].devs,
           proc'[i].todo \in SUBSET proc[i].todo, proc'[i].maps \in [proc[i].devs -> Contents],
           proc'[i].bound \in SUBSET PortsOf(i)
    PROVE  /\ RowTypes(i)' /\ PortsOf(i)' = PortsOf(i)
           /\ \A n : Row(i, n)' = Row(i, n) /\ ProfileOf(i, n)' = ProfileOf(i, n)
<1>1. \A n : Row(i, n)' = Row(i, n)
  BY DEF Row, Rows
<1>2. Rows(proc[i].of.run)' = Rows(proc[i].of.run)
  BY DEF Rows
<1>3. PortsOf(i)' = PortsOf(i)
  BY <1>1 DEF PortsOf
<1>4. RowTypes(i)'
  <2>2. (\A n \in proc[i].devs : Mine(i, Rows(proc[i].of.run), n))'
    <3>1. \A rows, n : Mine(i, rows, n)' = Mine(i, rows, n)
      BY DEF Mine
    <3>2. QED
      BY <1>2, <3>1 DEF RowTypes
  <2>3. (proc[i].of \in [run : Runs, rows : Nat] /\ proc[i].of.rows <= Len(Rows(proc[i].of.run)))'
    BY <1>2 DEF RowTypes
  <2>4. (proc[i].devs \in SUBSET (1..proc[i].of.rows))'
    BY DEF RowTypes
  <2>5. (proc[i].todo \subseteq proc[i].devs)'
    BY DEF RowTypes
  <2>6. (proc[i].maps \in [proc[i].devs -> Contents])'
    OBVIOUS
  <2>7. (proc[i].bound \subseteq PortsOf(i))'
    BY <1>3
  <2>8. QED
    BY <2>2, <2>3, <2>4, <2>5, <2>6, <2>7 DEF RowTypes
<1>5. ASSUME NEW n
      PROVE  ProfileOf(i, n)' = ProfileOf(i, n)
  <2>1. \A host : Assign(flags[i], host)' = Assign(flags[i], host)
    OBVIOUS
  <2>2. Row(i, n)' = Row(i, n)
    BY <1>1
  <2>3. CASE Row(i, n).profile = ""
    <3>1. ProfileOf(i, n) = Assign(flags[i], Row(i, n).host)
      BY <2>3 DEF ProfileOf
    <3>2. ProfileOf(i, n)' = Assign(flags[i], Row(i, n).host)
      BY <2>1, <2>2, <2>3 DEF ProfileOf
    <3>3. QED
      BY <3>1, <3>2
  <2>4. CASE Row(i, n).profile # ""
    <3>1. ProfileOf(i, n) = Row(i, n).profile
      BY <2>4 DEF ProfileOf
    <3>2. ProfileOf(i, n)' = Row(i, n).profile
      BY <2>2, <2>4 DEF ProfileOf
    <3>3. QED
      BY <3>1, <3>2
  <2>5. QED
    BY <2>3, <2>4
<1>6. QED
  BY <1>1, <1>3, <1>4, <1>5

\* It also keeps the profiles, if it gives the process no new ones.
LEMMA RowsQuiet ==
    ASSUME NEW i \in Instances, RowsInv(i), UNCHANGED <<flags, fleet>>,
           proc'[i].of = proc[i].of, proc'[i].devs = proc[i].devs,
           proc'[i].todo \in SUBSET proc[i].todo, proc'[i].maps \in [proc[i].devs -> Contents],
           proc'[i].profiles = proc[i].profiles, proc'[i].bound \in SUBSET PortsOf(i),
           proc'[i].step \notin Unchecked => FlagsOK(flags[i]),
           proc'[i].step \in Unresolved => proc[i].step \in Unresolved,
           proc'[i].step \in {"bind", "serving"} => proc[i].step \in {"bind", "serving"}
    PROVE  RowsInv(i)'
<1>1. /\ RowTypes(i)' /\ PortsOf(i)' = PortsOf(i)
      /\ \A n : Row(i, n)' = Row(i, n) /\ ProfileOf(i, n)' = ProfileOf(i, n)
  BY RowsKept DEF RowsInv
<1>2. Answers(i) => Answers(i)'
  BY <1>1 DEF Answers
<1>3. FlagsOK(flags[i])' = FlagsOK(flags[i])
  OBVIOUS
<1>4. QED
  BY <1>1, <1>2, <1>3 DEF RowsInv

LEMMA RowsInvStep ==
    ASSUME Shape, Published, FileTypes, MapsInv, NEW i \in Instances, RowsInv(i), Step(i)
    PROVE  RowsInv(i)'
<1> USE DEF Shape, Fields, At, Unchecked, Unresolved
<1>0. /\ UNCHANGED <<flags, fleet>>
      /\ proc[i].maps \in [proc[i].devs -> Contents] /\ proc[i].bound \in SUBSET PortsOf(i)
      /\ proc[i].step \notin Unchecked => FlagsOK(flags[i])
      /\ [n \in proc[i].devs |-> None] \in [proc[i].devs -> Contents]
  BY PublishedStep DEF RowsInv, RowTypes, Contents
<1>1. CASE Launch(i)
  BY <1>0, <1>1, RowsQuiet DEF Launch, Goto
<1>2. CASE CheckFlags(i)
  <2>1. CASE FlagsOK(flags[i])
    <3>1. proc' = [proc EXCEPT ![i].step = "key"] /\ proc[i].step = "flags"
      BY <1>2, <2>1 DEF CheckFlags, Goto
    <3>2. QED
      BY <1>0, <2>1, <3>1, RowsQuiet
  <2>2. CASE ~FlagsOK(flags[i])
    <3>1. proc' = [proc EXCEPT ![i].step = "failed"]
      BY <1>2, <2>2 DEF CheckFlags, Goto
    <3>2. QED
      BY <1>0, <3>1, RowsQuiet
  <2>3. QED
    BY <2>1, <2>2
<1>3. CASE ReadKey(i)
  <2>1. /\ proc'[i].step \in {"generate", "failed", "manifest"} /\ proc[i].step = "key"
        /\ proc'[i].of = proc[i].of /\ proc'[i].devs = proc[i].devs
        /\ proc'[i].todo = proc[i].todo /\ proc'[i].maps = proc[i].maps
        /\ proc'[i].bound = proc[i].bound /\ proc'[i].profiles = proc[i].profiles
    BY <1>3 DEF ReadKey
  <2>2. QED
    BY <1>0, <2>1, RowsQuiet
<1>4. CASE CreateKeyFile(i)
  BY <1>0, <1>4, RowsQuiet DEF CreateKeyFile, Goto
<1>5. CASE WriteKey(i)
  BY <1>0, <1>5, RowsQuiet DEF WriteKey
<1>6. CASE KeyFails(i)
  BY <1>0, <1>6, RowsQuiet DEF KeyFails, Goto
<1>7. CASE ReadManifest(i)
  <2> DEFINE D == {n \in 1..manifest.rows : Mine(i, Rows(manifest.run), n)}
  <2>1. /\ proc[i].step = "manifest" /\ manifest.rows # None
        /\ proc' = [proc EXCEPT ![i].step = "map", ![i].of = manifest, ![i].devs = D,
                                ![i].todo = D, ![i].maps = [n \in D |-> None]]
    BY <1>7 DEF ReadManifest
  <2>2. manifest \in [run : Runs, rows : Nat] /\ manifest.rows <= Len(Rows(manifest.run))
    BY <2>1 DEF FileTypes, Published
  <2>3. D \in SUBSET (1..manifest.rows) /\ \A n \in D : Mine(i, Rows(manifest.run), n)
    OBVIOUS
  <2> HIDE DEF D
  <2>4. /\ proc'[i].step = "map" /\ proc'[i].of = manifest /\ proc'[i].devs = D
        /\ proc'[i].todo = D /\ proc'[i].maps = [n \in D |-> None]
        /\ proc'[i].bound = proc[i].bound /\ proc'[i].profiles = proc[i].profiles
    BY <2>1
  <2>5. proc'[i].bound = {} /\ proc'[i].profiles = <<>> /\ FlagsOK(flags[i])
    BY <1>0, <2>1, <2>4 DEF MapsInv, RowsInv
  <2>6. Rows(proc[i].of.run)' = Rows(manifest.run)
    BY <1>0, <2>4 DEF Rows
  <2>7. (\A n \in proc[i].devs : Mine(i, Rows(proc[i].of.run), n))'
    <3>1. \A rows, n : Mine(i, rows, n)' = Mine(i, rows, n)
      BY <1>0 DEF Mine
    <3>2. QED
      BY <2>3, <2>4, <2>6, <3>1
  <2>8. [n \in D |-> None] \in [D -> Contents]
    BY DEF Contents
  <2>9. RowTypes(i)'
    BY <2>2, <2>3, <2>4, <2>5, <2>6, <2>7, <2>8 DEF RowTypes
  <2>10. FlagsOK(flags[i])'
    BY <1>0, <2>5
  <2>11. QED
    BY <2>4, <2>5, <2>9, <2>10 DEF RowsInv
<1>8. CASE ManifestFails(i)
  BY <1>0, <1>8, RowsQuiet DEF ManifestFails, Goto
<1>9. ASSUME NEW n \in proc[i].devs, Map(i, n)
      PROVE  RowsInv(i)'
  <2>1. proc[i].step = "map" /\ n \in proc[i].devs
    BY <1>9 DEF Map
  <2>2. /\ proc'[i].step = "map" /\ proc'[i].of = proc[i].of
        /\ proc'[i].devs = proc[i].devs /\ proc'[i].todo = proc[i].todo \ {n}
        /\ proc'[i].maps = [proc[i].maps EXCEPT ![n] = file[Row(i, n).file]]
        /\ proc'[i].bound = proc[i].bound /\ proc'[i].profiles = proc[i].profiles
    BY <1>9 DEF Map
  <2>3. file[Row(i, n).file] \in Contents
    BY <2>1, RowFacts DEF FileTypes, Contents, RowsInv
  <2>4. proc'[i].maps \in [proc[i].devs -> Contents]
    BY <1>0, <2>2, <2>3
  <2>5. QED
    BY <1>0, <2>1, <2>2, <2>4, RowsQuiet
<1>10. ASSUME NEW n \in proc[i].devs, MapFails(i, n)
       PROVE  RowsInv(i)'
  BY <1>0, <1>10, RowsQuiet DEF MapFails, UnloadAll
<1>11. CASE Loaded(i)
  BY <1>0, <1>11, RowsQuiet DEF Loaded, Goto
<1>12. CASE CheckOK(i)
  <2>1. /\ proc[i].step = "check" /\ unknownDrivers(i) = {} /\ ProfilesOK(i)
        /\ proc' = [proc EXCEPT ![i].step = "bind", ![i].profiles = resolveProfiles(i)]
    BY <1>12 DEF CheckOK
  <2> DEFINE r == resolveProfiles(i)
  <2>2. FlagsOK(flags[i]) /\ RowTypes(i) /\ proc[i].bound = {}
    BY <1>0, <2>1 DEF RowsInv, MapsInv
  <2>3. /\ r \in [PortsOf(i) -> Profiles]
        /\ \A n \in proc[i].devs :
              (\A m \in proc[i].devs : Row(i, m).port = Row(i, n).port => m = n) =>
                  r[Row(i, n).port] = ProfileOf(i, n)
    BY <2>1, <2>2, ResolvedProfiles
  <2>4. \A n \in proc[i].devs : Row(i, n).driver \in Drivers \union {""}
    BY <2>1 DEF unknownDrivers
  <2> HIDE DEF r
  <2>5. /\ proc'[i].step = "bind" /\ proc'[i].of = proc[i].of
        /\ proc'[i].devs = proc[i].devs /\ proc'[i].todo = proc[i].todo
        /\ proc'[i].maps = proc[i].maps /\ proc'[i].bound = proc[i].bound
        /\ proc'[i].profiles = r
    BY <2>1 DEF r
  <2>6. /\ \A n : Row(i, n)' = Row(i, n) /\ ProfileOf(i, n)' = ProfileOf(i, n)
        /\ PortsOf(i)' = PortsOf(i) /\ RowTypes(i)'
    BY <1>0, <2>2, <2>5, RowsKept
  <2>7. Answers(i)'
    <3>1. (\A n \in proc[i].devs : Row(i, n).driver \in Drivers \union {""})'
      BY <2>4, <2>5, <2>6
    <3>2. ASSUME NEW n \in proc'[i].devs,
                 \A m \in proc'[i].devs : Row(i, m)'.port = Row(i, n)'.port => m = n
          PROVE  r[Row(i, n)'.port] = ProfileOf(i, n)'
      <4>1. n \in proc[i].devs /\ \A m \in proc[i].devs : Row(i, m).port = Row(i, n).port => m = n
        BY <2>5, <2>6, <3>2
      <4>2. r[Row(i, n).port] = ProfileOf(i, n)
        BY <2>3, <4>1
      <4>3. QED
        BY <2>6, <4>2
    <3>3. (proc[i].profiles \in [PortsOf(i) -> Profiles])'
      BY <2>3, <2>5, <2>6
    <3>4. QED
      BY <2>5, <3>1, <3>2, <3>3 DEF Answers
  <2>8. FlagsOK(flags[i])'
    BY <1>0, <2>2
  <2>9. (proc[i].profiles \in [PortsOf(i) -> Profiles])'
    BY <2>3, <2>5, <2>6
  <2>10. QED
    BY <2>5, <2>6, <2>7, <2>8, <2>9 DEF RowsInv
<1>13. CASE CheckFails(i)
  BY <1>0, <1>13, RowsQuiet DEF CheckFails, Goto
<1>14. ASSUME NEW p \in PortsOf(i), Bind(i, p)
       PROVE  RowsInv(i)'
  BY <1>0, <1>14, RowsQuiet DEF Bind
<1>15. ASSUME NEW p \in PortsOf(i), BindFails(i, p)
       PROVE  RowsInv(i)'
  BY <1>0, <1>15, RowsQuiet DEF BindFails
<1>16. CASE Ready(i)
  BY <1>0, <1>16, RowsQuiet DEF Ready, Goto
<1>17. CASE MetricsFail(i)
  BY <1>0, <1>17, RowsQuiet DEF MetricsFail
<1>18. CASE CloseListeners(i)
  BY <1>0, <1>18, RowsQuiet DEF CloseListeners
<1>19. CASE Unload(i)
  BY <1>0, <1>19, RowsQuiet DEF Unload, UnloadAll
<1>20. CASE Exit(i)
  <2>1. proc'[i] = Fresh
    BY <1>20 DEF Exit
  <2>2. Len(Rows(1)) \in Nat /\ 1 \in Runs
    BY RowsAreSequences, StartupAssumption DEF StartupAssumption
  <2>3. <<>> \in [{} -> Contents]
    BY NoMaps
  <2>4. Len(Rows(1))' \in Nat
    BY <1>0, <2>2 DEF Rows
  <2>5. RowTypes(i)'
    BY <2>1, <2>2, <2>3, <2>4 DEF RowTypes, Fresh
  <2>6. QED
    BY <2>1, <2>5 DEF RowsInv, Fresh
<1>21. QED
  BY <1>1, <1>2, <1>3, <1>4, <1>5, <1>6, <1>7, <1>8, <1>9, <1>10, <1>11, <1>12, <1>13,
     <1>14, <1>15, <1>16, <1>17, <1>18, <1>19, <1>20 DEF Step, New, Start

\* What the types and the profiles need, of every instance.
TypesInv == FileTypes /\ KeyTypes /\ \A i \in Instances : RowsInv(i)

LEMMA TypesInvCorrect == Spec => []TypesInv
<1>1. Init => TypesInv
  <2>1. Init => \A i \in Instances : RowsInv(i)
    BY ShapeInit, FreshRows DEF Init
  <2>2. QED
    BY <2>1, FileTypesInit, KeyTypesInit DEF TypesInv
<1>2. TypesInv /\ Shape /\ MapsInv /\ ConfigsInv /\ [Next]_vars => TypesInv'
  <2> SUFFICES ASSUME TypesInv, Shape, MapsInv, Published, [Next]_vars PROVE TypesInv'
    BY DEF ConfigsInv
  <2>1. FileTypes'
    BY FileTypesStep DEF TypesInv
  <2>2. ASSUME UNCHANGED <<flags, fleet, proc, starts, keyFile, keys, shown>>
        PROVE  TypesInv'
    <3>1. KeyTypes'
      BY <2>2 DEF TypesInv, KeyTypes, Paths
    <3>2. ASSUME NEW i \in Instances PROVE RowsInv(i)'
      <4>1. /\ RowsInv(i) /\ proc[i].maps \in [proc[i].devs -> Contents]
            /\ proc[i].bound \in SUBSET PortsOf(i)
            /\ proc[i].step \notin Unchecked => FlagsOK(flags[i])
        BY DEF TypesInv, RowsInv, RowTypes
      <4>2. QED
        BY <2>2, <4>1, RowsQuiet
    <3>3. QED
      BY <2>1, <3>1, <3>2 DEF TypesInv
  <2>3. ASSUME NEW i \in Instances, Step(i)
        PROVE  TypesInv'
    <3>1. KeyTypes'
      BY <2>3, KeyTypesStep DEF TypesInv
    <3>2. RowsInv(i)'
      BY <2>3, RowsInvStep DEF TypesInv
    <3>3. ASSUME NEW j \in Instances \ {i} PROVE RowsInv(j)'
      <4>1. /\ RowsInv(j) /\ proc[j].maps \in [proc[j].devs -> Contents]
            /\ proc[j].bound \in SUBSET PortsOf(j)
            /\ proc[j].step \notin Unchecked => FlagsOK(flags[j])
        BY DEF TypesInv, RowsInv, RowTypes
      <4>2. proc'[j] = proc[j] /\ UNCHANGED <<flags, fleet>>
        BY <2>3, OthersStay, PublishedStep
      <4>3. QED
        BY <4>1, <4>2, RowsQuiet
    <3>4. QED
      BY <2>1, <3>1, <3>2, <3>3 DEF TypesInv
  <2>4. QED
    BY <2>2, <2>3, GeneratorKeeps DEF Next, Step, vars, procVars, keyVars
<1>3. QED
  BY <1>1, <1>2, ShapeCorrect, MapsInvCorrect, ConfigsInvCorrect, PTL DEF Spec

\* Every state of a host is well typed: what a process holds are rows of a manifest
\* it read, what it has mapped is what some run wrote, the profiles are known ones.
THEOREM StartupTypesCorrect == Spec => []TypeOK
<1>1. Shape /\ TypesInv => TypeOK
  <2> SUFFICES ASSUME Shape, TypesInv PROVE TypeOK
    OBVIOUS
  <2>1. ASSUME NEW i \in Instances
        PROVE  /\ proc[i].step \in Steps
               /\ proc[i].key \in 0..keys
               /\ proc[i].of \in [run : Runs, rows : Nat]
               /\ proc[i].devs \subseteq DOMAIN Rows(proc[i].of.run)
               /\ proc[i].todo \subseteq proc[i].devs
               /\ proc[i].maps \in [proc[i].devs -> Runs \union {None, Empty}]
               /\ proc[i].bound \subseteq PortsOf(i)
               /\ \/ proc[i].profiles = <<>>
                  \/ proc[i].profiles \in [PortsOf(i) -> Kinds \union {"normal"}]
    <3>1. RowsInv(i) /\ RowTypes(i)
      BY DEF TypesInv, RowsInv
    <3>2. proc[i].devs \subseteq DOMAIN Rows(proc[i].of.run)
      BY <3>1, RowFacts
    <3>3. QED
      BY <3>1, <3>2 DEF TypesInv, KeyTypes, RowsInv, RowTypes, Contents, Profiles
  <2>2. QED
    BY <2>1 DEF TypesInv, FileTypes, KeyTypes, Shape, TypeOK
<1>2. QED
  BY ShapeCorrect, TypesInvCorrect, <1>1, PTL

\* Whatever the rules, the points of the hosts and the manifest, an open port answers
\* for the last row with its address, by a driver that exists; a row that has its port
\* to itself has the profile of its column, or of the one rule whose share its host
\* falls to (New, resolveProfiles, profile.Assign).
THEOREM PortsCorrect == Spec => []PortsAnswerForTheirRows
<1>1. Shape /\ MapsInv /\ TypesInv => PortsAnswerForTheirRows
  <2> SUFFICES ASSUME Shape, MapsInv, TypesInv, NEW i \in Instances, NEW p \in proc[i].bound
               PROVE  LET d     == Device(i, p)
                          rules == RulesFor(flags[i], d.host)
                          got   == proc[i].profiles[p]
                      IN  /\ d.ip = flags[i].ip /\ d.port = p /\ d.driver \in Drivers \union {""}
                          /\ Cardinality(rules) <= 1
                          /\ Cardinality(AtPort(i, p)) = 1 =>
                                \/ d.profile = got
                                \/ /\ d.profile = ""
                                   /\ \E n \in rules : flags[i].rules[n].profile = got
                                \/ d.profile = "" /\ rules = {} /\ got = "normal"
    BY DEF PortsAnswerForTheirRows
  <2> DEFINE n == Max(AtPort(i, p))
             d == Row(i, n)
             rules == RulesFor(flags[i], d.host)
             got == proc[i].profiles[p]
  <2>1. proc[i].step \in {"bind", "serving"}
    BY DEF MapsInv
  <2>2. RowTypes(i) /\ FlagsOK(flags[i]) /\ Answers(i) /\ p \in PortsOf(i)
    BY <2>1 DEF TypesInv, RowsInv, RowTypes, Unchecked
  <2>3. AtPort(i, p) \in SUBSET proc[i].devs /\ AtPort(i, p) # {}
    BY <2>2 DEF AtPort, PortsOf
  <2>4. n \in AtPort(i, p)
    BY <2>2, <2>3, MaxDevice
  <2>5. n \in proc[i].devs /\ d.port = p
    BY <2>4 DEF AtPort
  <2> HIDE DEF n
  <2>6. d.ip = flags[i].ip /\ Point[flags[i].seed][d.host] \in Nat
    BY <2>2, <2>5, RowFacts
  <2>7. d.driver \in Drivers \union {""}
    BY <2>2, <2>5 DEF Answers
  <2>8. \/ rules = {} /\ Assign(flags[i], d.host) = "normal"
        \/ \E k \in 1..Len(flags[i].rules) :
              rules = {k} /\ Assign(flags[i], d.host) = flags[i].rules[k].profile
    BY <2>2, <2>6, RulesAreShares, OneRule
  <2> HIDE DEF rules, d
  <2>9. Cardinality(rules) <= 1
    <3>1. CASE rules = {}
      <4>1. Cardinality(rules) = 0
        BY <3>1, FS_EmptySet
      <4>2. QED
        BY <4>1
    <3>2. ASSUME NEW k, rules = {k}
          PROVE  Cardinality(rules) <= 1
      <4>1. Cardinality({k}) = 1
        BY FS_Singleton
      <4>2. QED
        BY <3>2, <4>1
    <3>3. QED
      BY <2>8, <3>1, <3>2
  <2>10. ASSUME Cardinality(AtPort(i, p)) = 1
         PROVE  got = IF d.profile = "" THEN Assign(flags[i], d.host) ELSE d.profile
    <3>1. IsFiniteSet(AtPort(i, p))
      <4>1. PICK N \in Nat : proc[i].devs \in SUBSET (1..N)
        BY <2>2, <2>5, RowFacts
      <4>2. IsFiniteSet(1..N)
        BY FS_Interval
      <4>3. QED
        BY <2>3, <4>1, <4>2, FS_Subset
    <3>2. PICK x : AtPort(i, p) = {x}
      BY <2>10, <3>1, FS_Singleton
    <3>3. \A m \in proc[i].devs : Row(i, m).port = Row(i, n).port => m = n
      BY <2>4, <2>5, <3>2 DEF AtPort, d
    <3>4. got = ProfileOf(i, n)
      BY <2>2, <2>5, <3>3 DEF Answers, d
    <3>5. QED
      BY <3>4 DEF ProfileOf, d
  <2>11. ASSUME Cardinality(AtPort(i, p)) = 1
         PROVE  \/ d.profile = got
                \/ d.profile = "" /\ \E k \in rules : flags[i].rules[k].profile = got
                \/ d.profile = "" /\ rules = {} /\ got = "normal"
    <3>1. CASE d.profile = ""
      BY <2>8, <2>10, <2>11, <3>1
    <3>2. CASE d.profile # ""
      BY <2>10, <2>11, <3>2
    <3>3. QED
      BY <3>1, <3>2
  <2>12. QED
    BY <2>5, <2>6, <2>7, <2>9, <2>11 DEF Device, d, n, rules
<1>2. QED
  BY ShapeCorrect, MapsInvCorrect, TypesInvCorrect, <1>1, PTL

=============================================================================
