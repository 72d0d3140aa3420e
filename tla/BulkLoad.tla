------------------------------ MODULE BulkLoad ------------------------------
(***************************************************************************)
(* BulkLoadDemo: MarcFile, MarcFileManager, EventWait and the main loop,   *)
(* over MultiHeap and DStorageLoader.  The main thread starts the reads of *)
(* a set of files; DirectStorage performs them in any order and sets the   *)
(* events of a queue in order; a thread of the pool runs the handler of an *)
(* event that a wait is armed for.  A handler holds the lock of its file.  *)
(*                                                                         *)
(* A batch of a queue is what is enqueued up to an event: the reads that   *)
(* are not done, whether they succeeded so far, the status entry if any.   *)
(***************************************************************************)
EXTENDS MultiHeap, DStorageLoader

CONSTANTS
  Files,        \* what was added
  Archive,      \* of each: version and blend (booleans), textures and buffer
                \* (sizes), zlib (the reads that are compressed with zlib)
  MayFail,      \* the reads that may fail
  HeapSizes,    \* of textures and of buffers: the sizes of the heaps
  Orders,       \* the orders a set may be shuffled into
  Device4,      \* whether the device has the interface ID3D12Device4
  QueueCapacity \* batches the GPU queue holds before it makes the caller wait

Textures == "textures"
Buffers  == "buffers"

\* The reads of a file: of each texture and of the buffer, by their position,
\* of its header, its metadata and its CPU data.
GpuReads(f) == 1 .. Len(Archive[f].textures) + 1
Header   == 0
Metadata == -1
CpuData  == -2
Reads(f) == {Header, Metadata, CpuData} \cup GpuReads(f)

ASSUME SizesAssumption ==
  /\ \A f \in Files : Archive[f].textures \in Seq(Nat) /\ Archive[f].buffer \in Nat
  /\ \A k \in {Textures, Buffers} : HeapSizes[k] \in Seq(Nat)

\* Nothing looks at the result of the metadata's read.
ASSUME FailAssumption == \A r \in MayFail : r[1] \in Files /\ r[2] \in Reads(r[1]) \ {Metadata}
ASSUME OrdersAssumption ==
  Orders \subseteq Seq(Files) /\ \A o \in Orders : ToSet(o) = Files /\ IsInjective(o)
ASSUME DeviceAssumption == Device4 \in BOOLEAN

NoEntry == "none"

\* The event of the manager, whose handler only takes the time: left out.
LoadComplete == <<NoEntry, "loadComplete">>

VARIABLES
  file,      \* m_state of each file
  status,    \* m_statusArray of each file
  places,    \* of each file: where its textures and its buffer are
  data,      \* what those places hold: nothing, the file's own data, what a
             \* file that failed put there ("stray"), what another did ("other")
  armed,     \* the EventWaits that wait
  signalled, \* the events that are set
  queue,     \* the batches of g_dsSystemMemoryQueue and g_dsGpuQueue
  heaps,     \* m_texturesHeap, m_buffersHeap
  manager,   \* m_state of the manager
  app,       \* m_state of the demo
  loop,      \* what the main thread goes through: "Add", "SetNextSet" or "none"
  ids,       \* ... and the files it has yet to come to
  shown,     \* m_objects: the files whose models are drawn
  thrown     \* a call in an incorrect state

bulkVars == <<file, status, places, data, armed, signalled, queue, heaps,
              manager, app, loop, ids, shown, thrown>>
vars == <<bulkVars, loaderVars>>

States == {"FileOpen", "LoadingHeader", "LoadingCpuMetadata", "MetadataReady", "LoadingContent",
           "CpuDataLoaded", "GpuDataLoaded", "ContentLoaded", "Error"}

Init ==
  /\ LoaderInit
  /\ file = [f \in Files |-> "FileOpen"]
  /\ status = [f \in Files |-> [e \in {"Metadata", "CpuData", "GpuData"} |-> TRUE]]
  /\ places = [f \in Files |-> <<>>] /\ data = [f \in Files |-> <<>>]
  /\ armed = {} /\ signalled = {}
  /\ queue = [q \in {"system", "gpu"} |-> <<>>]
  /\ heaps = [k \in {Textures, Buffers} |->
                [i \in DOMAIN HeapSizes[k] |-> [size |-> HeapSizes[k][i], next |-> 0]]]
  /\ manager = "LoadingMetadata" /\ app = "Idle"
  /\ loop = "Add" /\ ids \in Orders
  /\ shown = {} /\ thrown = FALSE

------------------------------------------------------------------------------
(* DirectStorage and EventWait. *)

Batch(f, reads, entry, ev) ==
  [file |-> f, reads |-> reads, ok |-> TRUE, entry |-> entry, event |-> ev]

\* SetThreadpoolWait: the event is reset before the wait is armed.
Arm(events) == armed' = armed \cup events /\ signalled' = signalled \ events

\* The handler of an event runs once for each time it was armed.
Runs(ev) == ev \in armed \cap signalled /\ armed' = armed \ {ev}

\* Reads that are with DirectStorage, not with the decompression.
Waiting(q, i) == {r \in queue[q][i].reads : <<queue[q][i].file, r>> \notin Unpacking}

\* Whether places a and b of two files have bytes in common.
Overlap(a, b) ==
  /\ a.kind = b.kind /\ a.heap = b.heap
  /\ a.offs < b.offs + b.size /\ b.offs < a.offs + a.size

\* A read ends: its bytes are where it was sent, whoever has that place now.
ReadEnds(q, i, r, ok) ==
  LET f == queue[q][i].file
      Now(g, k) == IF <<g, k>> = <<f, r>> THEN "own"
                   ELSE IF ~ Overlap(places[f][r], places[g][k]) THEN data[g][k]
                   ELSE IF file[f] = "Error" THEN "stray" ELSE "other"
  IN /\ ok \/ <<f, r>> \in MayFail
     /\ queue' = [queue EXCEPT ![q][i].reads = @ \ {r}, ![q][i].ok = @ /\ ok]
     /\ data' = IF r \notin GpuReads(f) THEN data
                ELSE [g \in Files |-> [k \in DOMAIN data[g] |-> Now(g, k)]]
     /\ UNCHANGED <<file, status, places, armed, signalled, heaps, manager, app, loop, ids,
                    shown, thrown>>

\* A read that is not compressed with zlib.
Read(q, i, r, ok) ==
  /\ r \in Waiting(q, i) /\ r \notin Archive[queue[q][i].file].zlib
  /\ ReadEnds(q, i, r, ok)
  /\ UNCHANGED loaderVars

\* One that is goes to the decompression first.
ReadCompressed(q, i, r) ==
  /\ r \in Waiting(q, i) /\ r \in Archive[queue[q][i].file].zlib
  /\ QueueRequest(<<queue[q][i].file, r>>)
  /\ UNCHANGED bulkVars

SetRequestResult(q, i, r, ok) ==
  /\ r \in queue[q][i].reads /\ EndWork(<<queue[q][i].file, r>>)
  /\ ReadEnds(q, i, r, ok)

\* Statuses and events of a queue come in the order they were enqueued, when
\* every read before them is done.
SetEvent(q) ==
  LET b == Head(queue[q])
  IN /\ queue[q] # <<>> /\ b.reads = {}
     /\ queue' = [queue EXCEPT ![q] = Tail(@)]
     /\ signalled' = signalled \cup ({b.event} \ {LoadComplete})
     /\ status' = IF b.entry = NoEntry THEN status
                  ELSE [status EXCEPT ![b.file][b.entry] = b.ok]
     /\ UNCHANGED <<file, places, data, armed, heaps, manager, app, loop, ids, shown, thrown>>
     /\ UNCHANGED loaderVars

------------------------------------------------------------------------------
(* MarcFile. *)

\* ValidateState
Validate(f, states) == thrown' = (thrown \/ file[f] \notin states)

OnHeaderLoaded(f) ==
  LET bad == ~ Archive[f].version \/ ~ status[f]["Metadata"]
  IN /\ <<f, "header">> \in armed \cap signalled
     /\ Validate(f, {"LoadingHeader"})
     /\ file' = [file EXCEPT ![f] = IF bad THEN "Error" ELSE "LoadingCpuMetadata"]
     /\ IF bad THEN Runs(<<f, "header">>) /\ UNCHANGED <<signalled, queue>>
        ELSE /\ armed' = (armed \ {<<f, "header">>}) \cup {<<f, "metadata">>}
             /\ signalled' = signalled \ {<<f, "metadata">>}
             /\ queue' = [queue EXCEPT !["system"] =
                            Append(@, Batch(f, {Metadata}, NoEntry, <<f, "metadata">>))]
     /\ UNCHANGED <<status, places, data, heaps, manager, app, loop, ids, shown>>
     /\ UNCHANGED loaderVars

OnCpuMetadataLoaded(f) ==
  /\ Runs(<<f, "metadata">>)
  /\ Validate(f, {"LoadingCpuMetadata"})
  /\ file' = [file EXCEPT ![f] = IF Device4 THEN "MetadataReady" ELSE "Error"]
  /\ UNCHANGED <<status, places, data, signalled, queue, heaps, manager, app, loop, ids, shown>>
  /\ UNCHANGED loaderVars

\* OnAllDataLoaded
WithAllData(f) ==
  IF status[f]["CpuData"] /\ status[f]["GpuData"] THEN "ContentLoaded" ELSE "Error"

\* Whether the data has curves of blend shapes: anything, when its read failed.
BlendShapes(f) == IF status[f]["CpuData"] THEN {Archive[f].blend} ELSE BOOLEAN

OnCpuDataLoaded(f) ==
  /\ Runs(<<f, "cpuData">>)
  /\ IF file[f] = "Error" THEN UNCHANGED <<file, thrown>>
     ELSE /\ Validate(f, {"LoadingContent", "GpuDataLoaded"})
          /\ \E blend \in BlendShapes(f) :
               file' = [file EXCEPT ![f] = IF blend THEN "Error"
                                           ELSE IF @ = "GpuDataLoaded" THEN WithAllData(f)
                                           ELSE "CpuDataLoaded"]
  /\ UNCHANGED <<status, places, data, signalled, queue, heaps, manager, app, loop, ids, shown>>
  /\ UNCHANGED loaderVars

OnGpuDataLoaded(f) ==
  /\ Runs(<<f, "gpuData">>)
  /\ IF file[f] = "Error" THEN UNCHANGED <<file, thrown>>
     ELSE /\ Validate(f, {"LoadingContent", "CpuDataLoaded"})
          /\ file' = [file EXCEPT ![f] = IF @ = "CpuDataLoaded" THEN WithAllData(f)
                                         ELSE "GpuDataLoaded"]
  /\ UNCHANGED <<status, places, data, signalled, queue, heaps, manager, app, loop, ids, shown>>
  /\ UNCHANGED loaderVars

\* A bug: a file whose CPU data came first is taken for one that failed.
MutGetState(s) ==
  CASE s \in {"FileOpen", "LoadingHeader", "LoadingCpuMetadata"} -> "Initializing"
    [] s = "MetadataReady" -> "ReadyToLoadContent"
    [] s \in {"LoadingContent", "GpuDataLoaded"} -> "ContentLoading"
    [] s = "ContentLoaded" -> "ContentLoaded"
    [] s \in {"CpuDataLoaded", "Error"} -> "Error"

GetState(s) ==
  CASE s \in {"FileOpen", "LoadingHeader", "LoadingCpuMetadata"} -> "Initializing"
    [] s = "MetadataReady" -> "ReadyToLoadContent"
    [] s \in {"LoadingContent", "CpuDataLoaded", "GpuDataLoaded"} -> "ContentLoading"
    [] s = "ContentLoaded" -> "ContentLoaded"
    [] s = "Error" -> "Error"

------------------------------------------------------------------------------
(* The main thread: MarcFileManager and the demo's Update. *)

Looping(l) == loop = l /\ ids # <<>>

\* Add, which starts to load the metadata.
Add ==
  LET f == Head(ids)
  IN /\ Looping("Add")
     /\ Validate(f, {"FileOpen"})
     /\ Arm({<<f, "header">>})
     /\ queue' = [queue EXCEPT !["system"] =
                    Append(@, Batch(f, {Header}, "Metadata", <<f, "header">>))]
     /\ file' = [file EXCEPT ![f] = "LoadingHeader"]
     /\ ids' = Tail(ids)
     /\ UNCHANGED <<status, places, data, heaps, manager, app, loop, shown>>
     /\ UNCHANGED loaderVars

EndAdd ==
  /\ loop = "Add" /\ ids = <<>> /\ loop' = "none"
  /\ UNCHANGED <<file, status, places, data, armed, signalled, queue, heaps, manager, app, ids,
                 shown, thrown>>
  /\ UNCHANGED loaderVars

\* A full queue makes EnqueueRequest and EnqueueSetEvent wait.
HasCapacity == Len(queue["gpu"]) < QueueCapacity

TextureRoom(f) == Allocate(heaps[Textures], Archive[f].textures)
BufferRoom(f)  == Allocate(heaps[Buffers], <<Archive[f].buffer>>)

MayStart(f) ==
  GetState(file[f]) = "ReadyToLoadContent" /\ TextureRoom(f).ok /\ BufferRoom(f).ok

\* TryStartLoad, for a file that cannot be loaded, and for one that can.
SkipFile ==
  /\ Looping("SetNextSet") /\ ~ MayStart(Head(ids))
  /\ ids' = Tail(ids)
  /\ UNCHANGED <<file, status, places, data, armed, signalled, queue, heaps, manager, app, loop,
                 shown, thrown>>
  /\ UNCHANGED loaderVars

StartContentLoad ==
  LET f == Head(ids)
      Of(kind, at) ==
        [i \in DOMAIN at |->
           [kind |-> kind, heap |-> at[i].heap, offs |-> at[i].offs, size |-> at[i].size]]
  IN /\ Looping("SetNextSet") /\ MayStart(f) /\ HasCapacity
     /\ Validate(f, {"MetadataReady"})
     /\ heaps' = [heaps EXCEPT ![Textures] = TextureRoom(f).heaps, ![Buffers] = BufferRoom(f).heaps]
     /\ places' = [places EXCEPT ![f] = Of(Textures, TextureRoom(f).at) \o Of(Buffers, BufferRoom(f).at)]
     /\ data' = [data EXCEPT ![f] = [k \in GpuReads(f) |-> "nothing"]]
     /\ Arm({<<f, "cpuData">>, <<f, "gpuData">>})
     /\ queue' = [system |-> Append(queue["system"],
                                    Batch(f, {CpuData}, "CpuData", <<f, "cpuData">>)),
                  gpu |-> Append(queue["gpu"],
                                 Batch(f, GpuReads(f), "GpuData", <<f, "gpuData">>))]
     /\ file' = [file EXCEPT ![f] = "LoadingContent"]
     /\ ids' = Tail(ids)
     /\ UNCHANGED <<status, manager, app, loop, shown>>
     /\ UNCHANGED loaderVars

\* The end of SetNextSet.
EndSetNextSet ==
  /\ loop = "SetNextSet" /\ ids = <<>> /\ HasCapacity /\ loop' = "none"
  /\ queue' = [queue EXCEPT !["gpu"] =
                 Append(@, Batch(NoEntry, {}, NoEntry, LoadComplete))]
  /\ manager' = "Loading" /\ app' = "LoadingASet"
  /\ UNCHANGED <<file, status, places, data, armed, signalled, heaps, ids, shown, thrown>>
  /\ UNCHANGED loaderVars

\* MarcFileManager::Update.  The states it reads one after the other only move
\* away from the ones it asks for, so what it finds held at its end.
AllMetadataReady == \A f \in Files : GetState(file[f]) # "Initializing"
AllLoaded == \A f \in Files : GetState(file[f]) \notin {"Initializing", "ContentLoading"}

ManagerAfter ==
  IF manager = "LoadingMetadata" /\ AllMetadataReady THEN "ReadyToLoad"
  ELSE IF manager = "Loading" /\ AllLoaded THEN "Loaded"
  ELSE manager

\* The demo's Update: by its state, and by that of the manager after its own.
Updates(state) == loop = "none" /\ app = state

\* AllocateDescriptors asks every file for its size, which throws when there is
\* no metadata.
AskSizes ==
  thrown' = (thrown \/ /\ manager = "LoadingMetadata" /\ ManagerAfter = "ReadyToLoad"
                       /\ \E f \in Files : file[f] \notin
                            {"MetadataReady", "LoadingContent", "ContentLoaded", "Error"})

SetNextSet ==
  /\ Updates("Idle") /\ ManagerAfter = "ReadyToLoad"
  /\ AskSizes
  /\ manager' = ManagerAfter
  /\ heaps' = [k \in DOMAIN heaps |-> Clear(heaps[k])]
  /\ loop' = "SetNextSet" /\ ids' \in Orders
  /\ UNCHANGED <<file, status, places, data, armed, signalled, queue, app, shown>>
  /\ UNCHANGED loaderVars

ShowSet ==
  /\ Updates("LoadingASet") /\ ManagerAfter = "Loaded"
  /\ manager' = ManagerAfter
  /\ shown' = {f \in Files : file[f] = "ContentLoaded"}
  /\ app' = "ShowingASet"
  /\ UNCHANGED <<file, status, places, data, armed, signalled, queue, heaps, loop, ids, thrown>>
  /\ UNCHANGED loaderVars

\* After ten seconds.
StopShowing ==
  /\ Updates("ShowingASet") /\ app' = "Unloading"
  /\ UNCHANGED <<file, status, places, data, armed, signalled, queue, heaps, manager, loop, ids,
                 shown, thrown>>
  /\ UNCHANGED loaderVars

\* When the GPU has drawn the last frame with the models.
UnloadSet ==
  LET held == {f \in Files : file[f] # "Error"}
  IN /\ Updates("Unloading")
     /\ thrown' = (thrown \/ \E f \in held : file[f] \notin {"MetadataReady", "ContentLoaded"})
     /\ file' = [f \in Files |-> IF f \in held THEN "MetadataReady" ELSE file[f]]
     /\ places' = [f \in Files |-> IF f \in held THEN <<>> ELSE places[f]]
     /\ data' = [f \in Files |-> IF f \in held THEN <<>> ELSE data[f]]
     /\ shown' = {} /\ manager' = "ReadyToLoad" /\ app' = "Idle"
     /\ UNCHANGED <<status, armed, signalled, queue, heaps, loop, ids>>
     /\ UNCHANGED loaderVars

\* An Update that finds nothing new: the demo draws on.
NothingNew ==
  /\ \/ Updates("Idle") /\ ManagerAfter = "LoadingMetadata"
     \/ Updates("LoadingASet") /\ ManagerAfter = "Loading"
  /\ UNCHANGED vars

Main ==
  \/ Add \/ EndAdd \/ SkipFile \/ StartContentLoad \/ EndSetNextSet
  \/ SetNextSet \/ ShowSet \/ StopShowing \/ UnloadSet

Handlers ==
  \E f \in Files :
    OnHeaderLoaded(f) \/ OnCpuMetadataLoaded(f) \/ OnCpuDataLoaded(f) \/ OnGpuDataLoaded(f)

DirectStorage ==
  \E q \in {"system", "gpu"} :
    \/ SetEvent(q)
    \/ \E i \in DOMAIN queue[q] : \E r \in queue[q][i].reads :
         ReadCompressed(q, i, r) \/ \E ok \in BOOLEAN : Read(q, i, r, ok)

Decompression ==
  \/ LoaderStep /\ UNCHANGED bulkVars
  \/ \E q \in {"system", "gpu"} : \E i \in DOMAIN queue[q] :
       \E r \in queue[q][i].reads, ok \in BOOLEAN : SetRequestResult(q, i, r, ok)

Next ==
  \/ Main \/ NothingNew \/ DirectStorage \/ Decompression
  \/ Handlers

\* The main thread draws frame after frame; what was asked for goes on, by
\* DirectStorage or on the thread pool, as long as any of it can.
Spec ==
  /\ Init /\ [][Next]_vars
  /\ WF_vars(Main) /\ WF_vars(DirectStorage \/ Decompression \/ Handlers)

------------------------------------------------------------------------------

TypeOK ==
  /\ file \in [Files -> States]
  /\ manager \in {"LoadingMetadata", "ReadyToLoad", "Loading", "Loaded"}
  /\ app \in {"Idle", "LoadingASet", "ShowingASet", "Unloading"}
  /\ shown \subseteq Files
  /\ \A f \in Files : Len(places[f]) \in {0, Len(Archive[f].textures) + 1}
  /\ callback.left \in 0 .. BatchSize
  /\ \A k \in {Textures, Buffers} : \A i \in DOMAIN heaps[k] : heaps[k][i].next \in 0 .. heaps[k][i].size

\* No call comes in a state that does not allow it, and no work item finds the
\* deque empty, in whatever order the handlers, the work items and the main
\* thread come (ValidateState, ASSERT in DecompressionWork).
NothingFails == ~ thrown /\ WorkFindsRequest

\* What is drawn does not change any more: nothing is on its way to the places
\* of its models, neither of this set nor of an earlier one.  What came there is
\* their own data or, while the set was loading, that of a file that failed
\* before its read ended; a file in good order never writes to another's.
ShownSettled ==
  \A f \in shown : \A k \in DOMAIN places[f] :
    /\ data[f][k] \in {"own", "stray"}
    /\ \A i \in DOMAIN queue["gpu"] : \A r \in queue["gpu"][i].reads :
         ~ Overlap(places[queue["gpu"][i].file][r], places[f][k])

\* A model that is drawn has all of its own data where it was placed.  The code
\* says so where it makes the model ("At this point all of the data is there",
\* OnAllDataLoaded), but the read of a file that failed may have ended last.
ShownIntact ==
  \A f \in shown : \A k \in DOMAIN places[f] : data[f][k] = "own"

\* Every set that starts to load is loaded, with failures or without.
SetLoads == manager = "Loading" ~> manager = "Loaded"

=============================================================================
