-------------------------- MODULE ThreadedReplayer --------------------------
(***************************************************************************)
(* ThreadedReplayer of cli/fossilize_replay.cpp: the main thread cuts the  *)
(* graphics pipelines, then the compute pipelines, into chunks and takes   *)
(* every chunk through seven passes, two chunks at a time in two memory    *)
(* contexts; the passes put work items into one queue that the worker      *)
(* threads serve, and wait for each other by counting the items of a       *)
(* memory context.  As a child of the robust replayer it has one worker,   *)
(* may die in any item or by timeout, and is started again behind the      *)
(* index it reports.                                                       *)
(*                                                                         *)
(* A hash stands for its pipeline.  What parsing allocates in a memory     *)
(* context carries the context's epoch, which a reset of the allocators    *)
(* ends; a VkShaderModule carries the generation of its creation, which    *)
(* its destruction ends.  A pass enqueues its items in one step: only the  *)
(* main thread enqueues and waits, so nothing can tell the difference.     *)
(* Loops over vectors are written as what they leave behind: a listing of  *)
(* the set of what they picked, in their order.                            *)
(***************************************************************************)
EXTENDS Integers, Sequences, FiniteSets, SequencesExt

CONSTANTS
    Hash, Module,
    List,        \* List[t]: the database's hashes of tag t, in replay order
    Base,        \* Base[h]: basePipelineHandle, NoHash if h is not derived
    Parent,      \* hashes with VK_PIPELINE_CREATE_ALLOW_DERIVATIVES_BIT
    Stages,      \* Stages[h]: its shader modules, in the order of pStages
    Unreadable,  \* hashes whose payload read_entry refuses
    Malformed,   \* hashes whose blob does not parse
    Lost,        \* modules that cannot be read or do not parse
    Failing,     \* hashes that are not compiled in the end: blacklisted,
                 \* unsupported, refused by the driver
    Rejected,    \* modules that end as VK_NULL_HANDLE
    PerContext,  \* NUM_PIPELINES_PER_CONTEXT (1024 in the code)
    CacheSize,   \* target_size of shader_modules, in modules
    Threads,     \* largest num_threads
    Robust,      \* the process may be a child of the robust replayer
    MaxCrashes   \* bound: deaths of the process

Tag    == {"graphics", "compute"}
NoHash == 0
NoMod  == "no_module"

\* A hash has one tag: graphics_pipelines and compute_pipelines are apart.
ASSUME ReplayerAssumption ==
    /\ IsFiniteSet(Hash) /\ IsFiniteSet(Module) /\ NoHash \notin Hash /\ NoMod \notin Module
    /\ List \in [Tag -> Seq(Hash)] /\ \A t \in Tag : IsInjective(List[t])
    /\ \A t, u \in Tag : \A h \in ToSet(List[t]) :
           t # u => h \notin ToSet(List[u]) /\ Base[h] \notin ToSet(List[u])
    /\ Base \in [Hash -> Hash \cup {NoHash}]
    /\ \A h \in Hash : Base[h] = NoHash \/ Base[h] \in Parent    \* Vulkan requires it
    /\ Stages \in [Hash -> Seq(Module)]
    /\ PerContext \in Nat \ {0} /\ CacheSize \in Nat /\ Threads \in Nat \ {0}
    /\ Robust \in BOOLEAN /\ MaxCrashes \in Nat

\* Memory contexts: two for pipelines, one for parents, one for modules.
PARENT == 2
SHADER == 3
Ctx    == 0..3
NoCtx  == -1

VARIABLES
    threads,    \* num_worker_threads; robustness implies 1
    robust,     \* robustness
    start,      \* start_graphics_index, start_compute_index
    masked,     \* masked_shader_modules
    \* The main thread:
    tag,        \* workload being run: a tag, "end" behind both, "done"
    order,      \* order_index of the function being run
    todo,       \* what that function has still to do
    waiting,    \* context whose work_done_condition it sleeps on, or NoCtx
    deferred,   \* deferred[t][c]: deferred_graphics, deferred_compute
    derived,    \* derived[c]: derived pipelines of the chunk in context c
    parents,    \* graphics_parents, compute_parents: parsed, not enqueued
    outside,    \* outside_range_hashes
    enqueued,   \* enqueued_shader_modules
    \* Shared:
    queue,      \* pipeline_work_queue
    queued, completed,  \* queued_count, completed_count
    pipelines,  \* value of graphics_pipelines, compute_pipelines: "absent",
                \* "null" (VK_NULL_HANDLE) or "live"
    cache,      \* shader_modules, the most recently used first
    handle,     \* handle[m]: "null" or "live", for m in the cache
    epoch,      \* resets of the allocators of each context
    gen,        \* destructions of each module
    \* The workers:
    work,       \* item of each worker, or Idle, Boot, Gone
    seen,       \* modules its replayer has parsed (replayed_shader_modules)
    at,         \* current_graphics_index and current_compute_index
    blame,      \* failed_module_hashes
    \* History:
    compiled,   \* calls of vkCreate*Pipelines for each hash in this process
    ever,       \* hashes whose creation item some process has begun
    crashes

main    == <<tag, order, todo, waiting, deferred, derived, parents, outside, enqueued>>
workers == <<work, seen, at, blame>>
options == <<threads, robust, start, masked>>
shared  == <<queue, queued, completed, pipelines, cache, handle, epoch, gen>>
history == <<compiled, ever, crashes>>
vars == <<threads, robust, start, masked, tag, order, todo, waiting, deferred, derived,
          parents, outside, enqueued, queue, queued, completed, pipelines, cache, handle,
          epoch, gen, work, seen, at, blame, compiled, ever, crashes>>

-----------------------------------------------------------------------------
(***************************************************************************)
(* Work items and deferred entries.  "ep" is the epoch in which the create *)
(* info was parsed, "from" (history) the hash the slot was meant for.      *)
(***************************************************************************)
NoInfo == [h |-> NoHash, index |-> 0, ep |-> 0, from |-> NoHash]
Info(h, i, e) == [h |-> h, index |-> i, ep |-> e, from |-> h]

BlankItem == [kind |-> "idle", h |-> NoHash, m |-> NoMod, tag |-> "graphics", index |-> 0,
              ctx |-> 0, outside |-> FALSE, ep |-> 0, from |-> NoHash,
              base |-> "none", mods |-> {}, missing |-> {}, valid |-> FALSE]
Idle == BlankItem
Boot == [BlankItem EXCEPT !.kind = "boot"]
Gone == [BlankItem EXCEPT !.kind = "gone"]

ParseItem(t, h, i, c, out) ==
    [BlankItem EXCEPT !.kind = "parse", !.tag = t, !.h = h, !.index = i, !.ctx = c,
                      !.outside = out]
ModuleItem(m) == [BlankItem EXCEPT !.kind = "module", !.m = m, !.ctx = SHADER]

Thread == 1..threads

\* The indices of a vector that a loop picks, in ascending order.
Picks(S) == {f \in SetToSeqs(S) : \A i, j \in DOMAIN f : i < j => f[i] < f[j]}

(***************************************************************************)
(* enqueue_create_*_pipeline: a parent that is derived itself is made      *)
(* non-derived.                                                            *)
(***************************************************************************)
Derived(h) == Base[h] # NoHash /\ h \notin Parent

-----------------------------------------------------------------------------
(***************************************************************************)
(* The plan of enqueue_deferred_pipelines: get_order_index, and what each  *)
(* pass does in which order.                                               *)
(***************************************************************************)
PASS_COUNT == 7
Pass(o)  == (o % (2 * PASS_COUNT)) \div 2
Place(o) == o % 2                                       \* memory_index
Chunk(o) == 2 * (o \div (2 * PASS_COUNT)) + Place(o)    \* iteration

Count(t)  == Len(List[t]) - start[t]
Chunks(t) == (Count(t) + PerContext - 1) \div PerContext
\* Slip: the last pass, too, is run for the first context only.
HasDerivedOnce(t, o) == Chunk(o) < Chunks(t) /\ (Pass(o) \in {1, 5, 6} => Place(o) = 0)

Has(t, o) == Chunk(o) < Chunks(t) /\ (Pass(o) \in {1, 5} => Place(o) = 0)
Orders(t) == {o \in 0..(PASS_COUNT * (Chunks(t) + 1)) : Has(t, o)}

Offset(o) == Chunk(o) * PerContext                      \* hash_offset
Submit(t, o) == IF Count(t) - Offset(o) < PerContext THEN Count(t) - Offset(o) ELSE PerContext
HashAt(t, o, i) == List[t][start[t] + Offset(o) + i]    \* i-th of the chunk

Step(op, c) == [op |-> op, ctx |-> c]
Sync(c) == Step("sync", c)

\* Slip: the derived pipelines are enqueued without waiting for the others.
ScriptNoJoin(o) ==
    LET c == Place(o)
    IN  CASE Pass(o) = 0 -> <<Sync(c), Step("parse", c)>>
          [] Pass(o) = 1 -> <<Step("prune", c)>>
          [] Pass(o) = 2 -> <<Sync(c), Step("modules", c)>>
          [] Pass(o) = 3 -> <<Sync(SHADER), Step("primary", c)>>
          [] Pass(o) = 4 -> <<Step("outside", c)>>
          [] Pass(o) = 5 -> <<Sync(PARENT), Step("parent_modules", c), Sync(SHADER),
                              Step("parents", c)>>
          [] Pass(o) = 6 /\ c = 0 -> <<Sync(PARENT), Step("reclaim", c), Step("derived", c)>>
          [] Pass(o) = 6 /\ c = 1 -> <<Step("derived", c)>>

\* Slip: the allocators of a context are reset while its items are in use.
ScriptNoDrain(o) ==
    LET c == Place(o)
    IN  CASE Pass(o) = 0 -> <<Step("parse", c)>>
          [] Pass(o) = 1 -> <<Step("prune", c)>>
          [] Pass(o) = 2 -> <<Sync(c), Step("modules", c)>>
          [] Pass(o) = 3 -> <<Sync(SHADER), Step("primary", c)>>
          [] Pass(o) = 4 -> <<Step("outside", c)>>
          [] Pass(o) = 5 -> <<Sync(PARENT), Step("parent_modules", c), Sync(SHADER)>> \o
                            <<Step("parents", c), Sync(0), Sync(1)>>
          [] Pass(o) = 6 /\ c = 0 -> <<Sync(PARENT), Step("reclaim", c), Step("derived", c)>>
          [] Pass(o) = 6 /\ c = 1 -> <<Step("derived", c)>>

Script(o) ==
    LET c == Place(o)
    IN  CASE Pass(o) = 0 -> <<Sync(c), Step("parse", c)>>
          [] Pass(o) = 1 -> <<Step("prune", c)>>
          [] Pass(o) = 2 -> <<Sync(c), Step("modules", c)>>
          [] Pass(o) = 3 -> <<Sync(SHADER), Step("primary", c)>>
          [] Pass(o) = 4 -> <<Step("outside", c)>>
          [] Pass(o) = 5 -> <<Sync(PARENT), Step("parent_modules", c), Sync(SHADER)>> \o
                            <<Step("parents", c), Sync(0), Sync(1)>>
          [] Pass(o) = 6 /\ c = 0 -> <<Sync(PARENT), Step("reclaim", c), Step("derived", c)>>
          [] Pass(o) = 6 /\ c = 1 -> <<Step("derived", c)>>

EndScript == <<Sync(0), Sync(1), Sync(2)>> \o <<Sync(3), Step("tear_down", 0)>>

-----------------------------------------------------------------------------
(***************************************************************************)
(* The process starts, with num_threads workers.                           *)
(***************************************************************************)
Init ==
    /\ robust \in {FALSE, Robust}
    /\ threads = IF robust THEN 1 ELSE Threads
    /\ start = [t \in Tag |-> 0] /\ masked = {}
    /\ tag = "graphics" /\ order = -1 /\ todo = <<Step("boot", 0)>> /\ waiting = NoCtx
    /\ deferred = [t \in Tag |-> [c \in {0, 1} |-> <<>>]]
    /\ derived = [c \in {0, 1} |-> <<>>]
    /\ parents = {} /\ outside = {} /\ enqueued = {}
    /\ queue = <<>> /\ queued = [c \in Ctx |-> 0] /\ completed = [c \in Ctx |-> 0]
    /\ pipelines = [h \in Hash |-> "absent"]
    /\ cache = <<>> /\ handle = [m \in Module |-> "null"]
    /\ epoch = [c \in Ctx |-> 0] /\ gen = [m \in Module |-> 0]
    /\ work = [w \in Thread |-> Boot] /\ seen = [w \in Thread |-> {}]
    /\ at = [w \in Thread |-> start] /\ blame = [w \in Thread |-> {}]
    /\ compiled = [h \in Hash |-> 0] /\ ever = {} /\ crashes = 0

\* The next process of a robust slot: the same, from indices s.  It cuts an
\* index behind the list and goes on reporting the one it was given.
Restart(s, ms) ==
    /\ threads' = 1 /\ masked' = ms
    /\ start' = [t \in Tag |-> IF s[t] < Len(List[t]) THEN s[t] ELSE Len(List[t])]
    /\ tag' = "graphics" /\ order' = -1 /\ todo' = <<Step("boot", 0)>> /\ waiting' = NoCtx
    /\ deferred' = [t \in Tag |-> [c \in {0, 1} |-> <<>>]]
    /\ derived' = [c \in {0, 1} |-> <<>>]
    /\ parents' = {} /\ outside' = {} /\ enqueued' = {}
    /\ queue' = <<>> /\ queued' = [c \in Ctx |-> 0] /\ completed' = [c \in Ctx |-> 0]
    /\ pipelines' = [h \in Hash |-> "absent"]
    /\ cache' = <<>> /\ handle' = [m \in Module |-> "null"]
    /\ epoch' = [c \in Ctx |-> 0] /\ gen' = [m \in Module |-> 0]
    /\ work' = <<Boot>> /\ seen' = <<{}>> /\ at' = <<s>> /\ blame' = <<{}>>
    /\ compiled' = [h \in Hash |-> 0]

-----------------------------------------------------------------------------
(***************************************************************************)
(* The main thread.                                                        *)
(***************************************************************************)
Doing(op) == todo # <<>> /\ Head(todo).op = op
Here      == Head(todo).ctx
Done      == todo' = Tail(todo)

\* start_worker_threads: until every thread has its replayers.
AwaitBoot ==
    /\ Doing("boot") /\ \A w \in Thread : work[w] # Boot
    /\ Done
    /\ UNCHANGED <<options, tag, order, waiting, deferred, derived, parents, outside,
                   enqueued, shared, workers, history>>

\* The workloads run one function after the other, graphics first.
Advance ==
    /\ todo = <<>> /\ tag \in Tag
    /\ LET later == {o \in Orders(tag) : o > order}
       IN  \/ /\ \E o \in later : /\ \A p \in later : o <= p
                                 /\ order' = o /\ todo' = Script(o)
              /\ UNCHANGED <<tag, outside>>
           \/ /\ later = {} /\ tag = "graphics"
              /\ tag' = "compute" /\ order' = -1 /\ outside' = {}
              /\ UNCHANGED todo
           \/ /\ later = {} /\ tag = "compute"
              /\ tag' = "end" /\ todo' = EndScript
              /\ UNCHANGED <<order, outside>>
    /\ UNCHANGED <<options, waiting, deferred, derived, parents, enqueued, shared, workers,
                   history>>

\* sync_worker_memory_context: checked and, if need be, slept on under the mutex.
SyncContext ==
    /\ Doing("sync") /\ waiting = NoCtx
    /\ IF queued[Here] = completed[Here]
       THEN Done /\ UNCHANGED waiting
       ELSE waiting' = Here /\ UNCHANGED todo
    /\ UNCHANGED <<options, tag, order, deferred, derived, parents, outside, enqueued, shared,
                   workers, history>>

\* enqueue_work_item, for the items of one pass.
Enqueue(items, c) ==
    /\ queue' = queue \o items
    /\ queued' = [queued EXCEPT ![c] = @ + Len(items)]

(***************************************************************************)
(* Pass 0: reset the allocators of the context, resize deferred and parse  *)
(* what has not been compiled as a parent before.  resize keeps what the   *)
(* slots held.                                                             *)
(***************************************************************************)
Known(i) == pipelines[HashAt(tag, order, i)] # "absent"
Resized(old, i) == [(IF Known(i) \/ i > Len(old) THEN NoInfo ELSE old[i])
                      EXCEPT !.from = HashAt(tag, order, i)]

Parse ==
    /\ Doing("parse")
    /\ LET c == Here
           slots == 1..Submit(tag, order)
       IN  /\ deferred' = [deferred EXCEPT ![tag][c] = [i \in slots |-> Resized(deferred[tag][c], i)]]
           /\ epoch' = [epoch EXCEPT ![c] = @ + 1]
           /\ \E f \in Picks({i \in slots : ~Known(i)}) :
                 Enqueue([k \in DOMAIN f |->
                             ParseItem(tag, HashAt(tag, order, f[k]), f[k] - 1, c, FALSE)], c)
    /\ Done
    /\ UNCHANGED <<options, tag, order, waiting, derived, parents, outside, enqueued,
                   completed, pipelines, cache, handle, gen, workers, history>>

(***************************************************************************)
(* Pass 1: prune_cache destroys the least recently used modules; every     *)
(* worker's replayer forgets which modules it has parsed.                  *)
(***************************************************************************)
\* Slip: the replayers are not told to forget.
ForgottenNot == seen

Forgotten == [w \in Thread |-> {}]

Prune ==
    /\ Doing("prune")
    /\ LET keep == SubSeq(cache, 1, IF Len(cache) < CacheSize THEN Len(cache) ELSE CacheSize)
           evicted == ToSet(cache) \ ToSet(keep)
       IN  /\ cache' = keep
           /\ enqueued' = enqueued \ evicted
           /\ gen' = [m \in Module |-> IF m \in evicted THEN gen[m] + 1 ELSE gen[m]]
    /\ seen' = Forgotten
    /\ Done
    /\ UNCHANGED <<options, tag, order, waiting, deferred, derived, parents, outside, queue,
                   queued, completed, pipelines, handle, epoch, work, at, blame, history>>

(***************************************************************************)
(* Pass 2: enqueue the modules of the chunk and split off its derived      *)
(* pipelines.  The vector is cut behind its last plain pipeline and is not *)
(* cut at all when it has none.  The stages of a slot that was not         *)
(* rewritten name no module.                                               *)
(***************************************************************************)
Stale(d, c) == d.ep # epoch[c]

\* Where module m is named: the k-th stage of the i-th pipeline.
Uses(infos, c, m) ==
    UNION {{<<i, k>> : k \in {n \in DOMAIN Stages[infos[i].h] : Stages[infos[i].h][n] = m}} :
           i \in {j \in DOMAIN infos : infos[j].h # NoHash /\ ~Stale(infos[j], c)}}
Earlier(x, y) == x[1] < y[1] \/ (x[1] = y[1] /\ x[2] < y[2])

\* Modules in the order in which they are first named.
AsNamed(S, infos, c) ==
    {ms \in SetToSeqs({m \in S : Uses(infos, c, m) # {}}) :
        \A a, b \in DOMAIN ms : a < b =>
            \E x \in Uses(infos, c, ms[a]) : \A y \in Uses(infos, c, ms[b]) : Earlier(x, y)}

\* Slip: a module is enqueued once per pass and not once.
NewModulesPass(infos, c) == AsNamed(Module, infos, c)

NewModules(infos, c) == AsNamed(Module \ enqueued, infos, c)

Late(d) == d.h = NoHash \/ Derived(d.h)
Before(d, e) == IF Late(d) = Late(e) THEN d.index < e.index ELSE Late(e)

\* What std::sort may leave: equals in any order.
Sortings(s) ==
    {[i \in DOMAIN s |-> s[p[i]]] :
        p \in {q \in SetToSeqs(DOMAIN s) :
                \A i, j \in DOMAIN s : i < j => ~Before(s[q[j]], s[q[i]])}}

\* end_index_non_derived: behind the last plain one.
CutAt(sorted, cut) ==
    LET plain == {i \in DOMAIN sorted : ~Late(sorted[i])}
    IN  IF plain = {} THEN cut = Len(sorted) ELSE cut \in plain /\ \A i \in plain : i <= cut

EnqueueModules ==
    /\ Doing("modules")
    /\ \E ms \in NewModules(deferred[tag][Here], Here) :
           /\ Enqueue([k \in DOMAIN ms |-> ModuleItem(ms[k])], SHADER)
           /\ enqueued' = enqueued \cup ToSet(ms)
    /\ \E sorted \in Sortings(deferred[tag][Here]) : \E cut \in 0..Len(sorted) :
           /\ CutAt(sorted, cut)
           /\ deferred' = [deferred EXCEPT ![tag][Here] = SubSeq(sorted, 1, cut)]
           /\ \E f \in Picks({i \in cut + 1..Len(sorted) : sorted[i].h # NoHash}) :
                 derived' = [derived EXCEPT ![Here] = [k \in DOMAIN f |-> sorted[f[k]]]]
    /\ Done
    /\ UNCHANGED <<options, tag, order, waiting, parents, outside, completed, pipelines, cache,
                   handle, epoch, gen, workers, history>>

(***************************************************************************)
(* resolve_shader_modules and enqueue_pipeline for a sequence of parsed    *)
(* pipelines.  An item whose stages are not all live carries no create     *)
(* info, and only one that does makes an entry in graphics_pipelines.      *)
(* What a slot that was not rewritten looks like is undefined: "ub" says   *)
(* whether its stages pass for live.                                       *)
(***************************************************************************)
CreateItem(d, c, off, base, ub) ==
    LET ms == IF Stale(d, c) THEN {} ELSE ToSet(Stages[d.h])
        live == {m \in ms : m \in ToSet(cache) /\ handle[m] = "live"}
    IN  [BlankItem EXCEPT !.kind = "create", !.tag = tag, !.h = d.h, !.ctx = c,
            !.index = d.index + off + start[tag], !.ep = d.ep, !.from = d.from, !.base = base,
            !.mods = {<<m, gen[m]>> : m \in live}, !.missing = ms \ ToSet(cache),
            !.valid = IF Stale(d, c) THEN ub ELSE live = ms]

\* ObjectCache::find_object makes a module the most recently used.
Touched(infos, c) ==
    {q \in SetToSeqs(ToSet(cache)) :
        \A a, b \in DOMAIN q : a < b =>
            \/ \E x \in Uses(infos, c, q[a]) : \A y \in Uses(infos, c, q[b]) : Earlier(y, x)
            \/ /\ Uses(infos, c, q[a]) = {} /\ Uses(infos, c, q[b]) = {}
               /\ \E i, j \in DOMAIN cache : i < j /\ cache[i] = q[a] /\ cache[j] = q[b]}

EnqueuePipelines(infos, c, off, bases) ==
    \E ub \in IF \E i \in DOMAIN infos : Stale(infos[i], c) THEN BOOLEAN ELSE {TRUE} :
        LET items == [i \in DOMAIN infos |->
                          CreateItem(infos[i], c, off, bases[infos[i].h], ub)]
            entered == {items[i].h : i \in {j \in DOMAIN items : items[j].valid}}
        IN  /\ Enqueue(items, c)
            /\ cache' \in Touched(infos, c)
            /\ pipelines' = [h \in Hash |-> IF h \in entered /\ pipelines[h] = "absent"
                                            THEN "null" ELSE pipelines[h]]

\* Pass 3: compile what is left in deferred.  A derived pipeline among it
\* still has the hash of its base for a handle.
EnqueuePrimary ==
    /\ Doing("primary")
    /\ LET ds == deferred[tag][Here]
       IN  \E f \in Picks({i \in DOMAIN ds : ds[i].h # NoHash}) :
               EnqueuePipelines([k \in DOMAIN f |-> ds[f[k]]], Here, Offset(order),
                                [h \in Hash |-> IF Derived(h) THEN "raw" ELSE "none"])
    /\ Done
    /\ UNCHANGED <<options, tag, order, waiting, deferred, derived, parents, outside, enqueued,
                   completed, handle, epoch, gen, workers, history>>

\* Pass 4: parse the bases that no pass has enqueued so far.
Wanted(ds) ==
    {i \in DOMAIN ds : /\ pipelines[Base[ds[i].h]] = "absent" /\ Base[ds[i].h] \notin outside
                       /\ \A j \in 1..(i - 1) : Base[ds[j].h] # Base[ds[i].h]}

EnqueueOutside ==
    /\ Doing("outside")
    /\ LET ds == derived[Here]
       IN  /\ \E f \in Picks(Wanted(ds)) :
                 Enqueue([k \in DOMAIN f |->
                             ParseItem(tag, Base[ds[f[k]].h], ds[f[k]].index, PARENT, TRUE)], PARENT)
           /\ outside' = outside \cup {Base[ds[i].h] : i \in Wanted(ds)}
    /\ Done
    /\ UNCHANGED <<options, tag, order, waiting, deferred, derived, parents, enqueued,
                   completed, pipelines, cache, handle, epoch, gen, workers, history>>

\* Pass 5: the modules of those bases, then the bases, in the order of a hash map.
EnqueueParentModules ==
    /\ Doing("parent_modules")
    /\ \E infos \in SetToSeqs(parents) : \E ms \in NewModules(infos, PARENT) :
           /\ Enqueue([k \in DOMAIN ms |-> ModuleItem(ms[k])], SHADER)
           /\ enqueued' = enqueued \cup ToSet(ms)
    /\ Done
    /\ UNCHANGED <<options, tag, order, waiting, deferred, derived, parents, outside,
                   completed, pipelines, cache, handle, epoch, gen, workers, history>>

EnqueueParents ==
    /\ Doing("parents")
    /\ \E infos \in SetToSeqs(parents) :
           EnqueuePipelines(infos, PARENT, Offset(order), [h \in Hash |-> "none"])
    /\ parents' = {}
    /\ Done
    /\ UNCHANGED <<options, tag, order, waiting, deferred, derived, outside, enqueued,
                   completed, handle, epoch, gen, workers, history>>

\* Pass 6: the parents' create infos are given back, ...
Reclaim ==
    /\ Doing("reclaim")
    /\ epoch' = [epoch EXCEPT ![PARENT] = @ + 1]
    /\ Done
    /\ UNCHANGED <<options, tag, order, waiting, deferred, derived, parents, outside, enqueued,
                   queue, queued, completed, pipelines, cache, handle, gen, workers, history>>

\* ... and the derived pipelines whose base was enqueued are compiled, in
\* whichever order unstable_remove_if has left them.
Ready(ds) == {i \in DOMAIN ds : pipelines[Base[ds[i].h]] # "absent"}

BaseHandle(h) == IF pipelines[Base[h]] = "absent" THEN "null" ELSE pipelines[Base[h]]

EnqueueDerived ==
    /\ Doing("derived")
    /\ LET ds == derived[Here]
       IN  \E f \in SetToSeqs(Ready(ds)) :
               EnqueuePipelines([k \in DOMAIN f |-> ds[f[k]]], Here, Offset(order),
                                [h \in {ds[i].h : i \in DOMAIN ds} |-> BaseHandle(h)])
    /\ derived' = [derived EXCEPT ![Here] = <<>>]
    /\ Done
    /\ UNCHANGED <<options, tag, order, waiting, deferred, parents, outside, enqueued,
                   completed, handle, epoch, gen, workers, history>>

\* tear_down_threads: set shutting_down, join.
TearDown ==
    /\ Doing("tear_down")
    /\ todo' = <<Step("join", 0)>>
    /\ UNCHANGED <<options, tag, order, waiting, deferred, derived, parents, outside, enqueued,
                   shared, workers, history>>

Join ==
    /\ Doing("join") /\ \A w \in Thread : work[w] = Gone
    /\ tag' = "done" /\ Done
    /\ UNCHANGED <<options, order, waiting, deferred, derived, parents, outside, enqueued,
                   shared, workers, history>>

Main ==
    \/ AwaitBoot \/ Advance \/ SyncContext \/ Parse \/ Prune \/ EnqueueModules
    \/ EnqueuePrimary \/ EnqueueOutside \/ EnqueueParentModules \/ EnqueueParents
    \/ Reclaim \/ EnqueueDerived \/ TearDown \/ Join

-----------------------------------------------------------------------------
(***************************************************************************)
(* The workers.                                                            *)
(***************************************************************************)
ShuttingDown == Doing("join")

BootWorker(w) ==
    /\ work[w] = Boot
    /\ work' = [work EXCEPT ![w] = Idle]
    /\ UNCHANGED <<options, main, shared, seen, at, blame, history>>

\* A worker takes the front item.  For a pipeline it notes the index behind
\* it and its modules before anything can crash, then calls the driver unless
\* the item has no create info or a base that failed.
Calls(item) == item.valid /\ item.base # "null"

Take(w) ==
    /\ work[w] = Idle /\ queue # <<>> /\ ~ShuttingDown
    /\ LET item == Head(queue)
           create == item.kind = "create"
       IN  /\ work' = [work EXCEPT ![w] = item]
           /\ at' = IF create THEN [at EXCEPT ![w][item.tag] = item.index + 1] ELSE at
           /\ blame' = IF create /\ item.valid /\ robust
                       THEN [blame EXCEPT ![w] = {x[1] : x \in item.mods}] ELSE blame
           /\ ever' = IF create THEN ever \cup {item.h} ELSE ever
           /\ compiled' = IF create /\ Calls(item) THEN [compiled EXCEPT ![item.h] = @ + 1]
                          ELSE compiled
    /\ queue' = Tail(queue)
    /\ UNCHANGED <<options, main, queued, completed, pipelines, cache, handle, epoch, gen, seen,
                   crashes>>

\* The end of an item: count it and wake the main thread, after the last one of
\* the context; a robust child may have a timeout, then after each item.
\* Slip: only an item that empties the queue wakes the main thread.
WakesQueueEmpty(c) == queue = <<>>

Wakes(c) == completed[c] + 1 = queued[c]

Complete(w) ==
    LET c == work[w].ctx
    IN  /\ work' = [work EXCEPT ![w] = Idle]
        /\ completed' = [completed EXCEPT ![c] = @ + 1]
        /\ \E timeout \in {FALSE, robust} :
              waiting' = IF waiting = c /\ (timeout \/ Wakes(c)) THEN NoCtx ELSE waiting

\* run_parse_work_item for a pipeline.  An entry that cannot be read leaves
\* its slot as it is, one that cannot be parsed clears it.
ParsePipeline(w) ==
    /\ work[w].kind = "parse"
    /\ LET item == work[w]
           info == Info(item.h, item.index, epoch[item.ctx])
           slot == IF item.h \in Malformed THEN [NoInfo EXCEPT !.from = item.h] ELSE info
       IN  IF item.h \in Unreadable THEN UNCHANGED <<deferred, parents>>
           ELSE IF item.outside
                THEN /\ parents' = IF item.h \in Malformed THEN parents ELSE parents \cup {info}
                     /\ UNCHANGED deferred
                ELSE /\ deferred' = [deferred EXCEPT ![item.tag][item.ctx][item.index + 1] = slot]
                     /\ UNCHANGED parents
    /\ Complete(w)
    /\ UNCHANGED <<options, tag, order, todo, derived, outside, enqueued, queue, queued,
                   pipelines, cache, handle, epoch, gen, seen, at, blame, history>>

\* run_parse_work_item for a module: nothing happens if the worker's replayer
\* has seen it, else enqueue_create_shader_module puts it into the cache.
MakeModule(w) ==
    /\ work[w].kind = "module"
    /\ LET m == work[w].m
       IN  IF m \in Lost \cup seen[w] THEN UNCHANGED <<seen, cache, handle>>
           ELSE /\ seen' = [seen EXCEPT ![w] = @ \cup {m}]
                /\ cache' = <<m>> \o cache
                /\ handle' = [handle EXCEPT ![m] = IF m \in Rejected \cup masked THEN "null"
                                                   ELSE "live"]
    /\ Complete(w)
    /\ UNCHANGED <<options, tag, order, todo, deferred, derived, parents, outside, enqueued,
                   queue, queued, pipelines, epoch, gen, at, blame, history>>

\* run_creation_work_item, behind the call of the driver: only a pipeline that
\* may be a parent keeps its handle.
CreatePipeline(w) ==
    /\ work[w].kind = "create"
    /\ LET item == work[w]
           stale == item.ep # epoch[item.ctx]
           result == IF stale THEN {"null", "live"}
                     ELSE IF item.h \in Parent \ Failing THEN {"live"} ELSE {"null"}
       IN  \E r \in IF Calls(item) THEN result ELSE {pipelines[item.h]} :
               pipelines' = [pipelines EXCEPT ![item.h] = r]
    /\ Complete(w)
    /\ UNCHANGED <<options, tag, order, todo, deferred, derived, parents, outside, enqueued,
                   queue, queued, cache, handle, epoch, gen, seen, at, blame, history>>

Quit(w) ==
    /\ work[w] = Idle /\ ShuttingDown
    /\ work' = [work EXCEPT ![w] = Gone]
    /\ UNCHANGED <<options, main, shared, seen, at, blame, history>>

Worker(w) ==
    /\ w \in Thread
    /\ \/ BootWorker(w) \/ Take(w) \/ ParsePipeline(w) \/ MakeModule(w) \/ CreatePipeline(w)
       \/ Quit(w)

(***************************************************************************)
(* The death of a robust child: a signal in the worker, or timeout_handler *)
(* sending one to it.  The master starts the next process behind the       *)
(* indices it was told, with the modules it was told masked, unless        *)
(* nothing is left.                                                        *)
(***************************************************************************)
Die(w) ==
    /\ robust /\ crashes < MaxCrashes
    /\ crashes' = crashes + 1
    /\ IF \A t \in Tag : at[w][t] >= Len(List[t])
       THEN /\ tag' = "done" /\ todo' = <<>> /\ waiting' = NoCtx /\ work' = <<Gone>>
            /\ UNCHANGED <<threads, start, masked, order, deferred, derived, parents, outside,
                           enqueued, shared, seen, at, blame, compiled>>
       ELSE Restart(at[w], masked \cup blame[w])
    /\ UNCHANGED <<robust, ever>>

Crash(w) ==
    /\ tag # "done" /\ work[w].kind \in {"parse", "module", "create"}
    /\ Die(w)

Timeout(w) ==
    /\ waiting # NoCtx /\ work[w] = Idle
    /\ Die(w)

Next ==
    \/ Main
    \/ \E w \in Thread : Worker(w) \/ Crash(w) \/ Timeout(w)

Spec ==
    /\ Init /\ [][Next]_vars
    /\ WF_vars(Main)
    /\ \A w \in 1..Threads : WF_vars(Worker(w))

-----------------------------------------------------------------------------
(***************************************************************************)
(* Type invariant.                                                         *)
(***************************************************************************)
InfoSet == [h : Hash \cup {NoHash}, index : Nat, ep : Nat, from : Hash \cup {NoHash}]

ItemOK(i) ==
    /\ i.kind \in {"idle", "boot", "gone", "parse", "module", "create"}
    /\ i.h \in Hash \cup {NoHash} /\ i.m \in Module \cup {NoMod}
    /\ i.tag \in Tag /\ i.ctx \in Ctx
    /\ i.kind = "parse" /\ ~i.outside =>
           i.ctx < 2 /\ i.index < Len(deferred[i.tag][i.ctx])
    /\ i.kind = "create" => i.index < Len(List[i.tag]) \/ Unreadable # {}
    /\ i.base \in {"none", "raw", "null", "live"}

(***************************************************************************)
(* The types, and two bounds the code asserts or relies on: a parse item   *)
(* finds its slot in deferred_graphics, and an index that is reported      *)
(* stays in the list unless the slot of an entry that could not be read    *)
(* holds another chunk's index.                                            *)
(***************************************************************************)
TypeOK ==
    /\ threads \in 1..Threads /\ robust \in BOOLEAN
    /\ start \in [Tag -> Nat] /\ masked \subseteq Module
    /\ tag \in Tag \cup {"end", "done"} /\ order \in -1..(PASS_COUNT * (Len(List["graphics"]) +
                                                         Len(List["compute"]) + 1))
    /\ waiting \in Ctx \cup {NoCtx}
    /\ \A t \in Tag, c \in {0, 1} : deferred[t][c] \in Seq(InfoSet)
    /\ \A c \in {0, 1} : derived[c] \in Seq(InfoSet)
    /\ parents \subseteq InfoSet /\ outside \subseteq Hash /\ enqueued \subseteq Module
    /\ \A i \in ToSet(queue) \cup {work[w] : w \in Thread} : ItemOK(i)
    /\ \A c \in Ctx : completed[c] \in 0..queued[c]
    /\ pipelines \in [Hash -> {"absent", "null", "live"}]
    /\ cache \in Seq(Module) /\ IsInjective(cache) /\ handle \in [Module -> {"null", "live"}]
    /\ seen \in [Thread -> SUBSET Module] /\ blame \in [Thread -> SUBSET Module]
    /\ at \in [Thread -> [Tag -> Nat]]
    /\ compiled \in [Hash -> Nat] /\ ever \subseteq Hash /\ crashes \in 0..MaxCrashes

-----------------------------------------------------------------------------
Running == {w \in Thread : work[w].kind = "create"}
Pending == ToSet(queue) \cup {work[w] : w \in Thread}
Creates(h) == {i \in Pending : i.kind = "create" /\ i.h = h}

\* The hashes of the chunk that the list index i belongs to.
ChunkOf(t, i) ==
    LET first == start[t] + ((i - start[t]) \div PerContext) * PerContext
    IN  {List[t][j + 1] : j \in {k \in first..(first + PerContext - 1) : k < Len(List[t])}}

(***************************************************************************)
(* The memory contexts.  A pipeline that is queued or being compiled has   *)
(* its create info in allocators that have not been reset since it was     *)
(* parsed: sync_worker_memory_context in pass 0 waits for its user.  The   *)
(* only exception is a slot whose own entry could not be read, which still *)
(* points at what an earlier chunk parsed.                                 *)
(***************************************************************************)
InfoAlive ==
    \A i \in Pending : i.kind = "create" /\ i.ep # epoch[i.ctx] => i.from \in Unreadable

(***************************************************************************)
(* Derived pipelines.  When one is compiled, the compilation of its base   *)
(* is over, whichever chunk, context or pass it was in, and the handle it  *)
(* was given is the one the base has.  There are two exceptions.  A base   *)
(* that a slot still held that was not rewritten is compiled again, and    *)
(* its handle replaced.  A chunk that has no other pipeline to parse is    *)
(* compiled before its bases, with their hashes for handles.               *)
(***************************************************************************)
BaseReady ==
    \A w \in Running :
        LET i == work[w]
        IN  i.ep = epoch[i.ctx] /\ Derived(i.h) =>
                \/ /\ i.base = pipelines[Base[i.h]] \/ compiled[Base[i.h]] > 1
                   /\ \A j \in Creates(Base[i.h]) : j.from \in Unreadable
                \/ /\ i.base = "raw"
                   /\ \A k \in ChunkOf(i.tag, i.index) :
                          Derived(k) \/ k \in Unreadable \cup Malformed \cup outside

(***************************************************************************)
(* The module cache.  A pipeline is compiled with modules that were not    *)
(* destroyed, and lacks one only if the database does, although            *)
(* prune_cache evicts modules and two contexts share them.  The exception  *)
(* is a derived pipeline of context 1 that is still to be compiled when    *)
(* a batch without a chunk for context 1 prunes the cache.                 *)
(***************************************************************************)
ModulesFound ==
    \A i \in Pending : i.kind = "create" =>
        /\ i.missing \subseteq Lost
        /\ (\E x \in i.mods : gen[x[1]] # x[2]) =>
               /\ i.ctx = 1 /\ Derived(i.h)
               /\ tag # "done" =>
                      tag \in Tag /\ ~Has(tag, 2 * PASS_COUNT * (order \div (2 * PASS_COUNT)) + 1)

(***************************************************************************)
(* Coverage.  No pipeline is compiled twice, unless an entry more than a   *)
(* chunk behind it in the list cannot be read and finds it in its slot,    *)
(* left there by an earlier batch.  At the end every pipeline that can be  *)
(* compiled was compiled, whether its turn came in its chunk or as the     *)
(* base of another.  And whatever crashes and timeouts did, every pipeline *)
(* that parses and is not derived had its turn, unless an entry that       *)
(* cannot be read is near enough to be in its chunk: the index that is     *)
(* reported for that one may be too far.                                   *)
(***************************************************************************)
Buildable(h) ==
    /\ h \notin Unreadable \cup Malformed
    /\ \A m \in ToSet(Stages[h]) : m \notin Lost \cup Rejected
Compilable(h) ==
    Buildable(h) /\ (Derived(h) => Buildable(Base[h]) /\ Base[h] \notin Failing)

Spoiled(h) ==
    \E t \in Tag : \E i, j \in DOMAIN List[t] :
        i + PerContext < j /\ List[t][i] = h /\ List[t][j] \in Unreadable
Exposed(t, i) ==
    \E j \in DOMAIN List[t] : /\ List[t][j] \in Unreadable
                              /\ i < j + PerContext /\ j < i + PerContext

AllReplayed ==
    /\ \A h \in Hash : compiled[h] > 1 => Spoiled(h)
    /\ tag = "done" => \A t \in Tag : \A i \in DOMAIN List[t] :
           LET h == List[t][i]
           IN  /\ crashes = 0 /\ Compilable(h) =>
                      compiled[h] >= 1 \/ (Derived(h) /\ compiled[Base[h]] > 1)
               /\ h \notin Unreadable \cup Malformed /\ ~Derived(h) =>
                      h \in ever \/ (crashes > 0 /\ Exposed(t, i))

(***************************************************************************)
(* The main thread is always woken: the replay ends.                       *)
(***************************************************************************)
Terminates == <>(tag = "done")

(***************************************************************************)
(* fossilize_replay.cpp:1943 says of the pass that prunes the cache: "Now  *)
(* all worker threads are drained for any work which needs shader          *)
(* modules".                                                               *)
(***************************************************************************)
ModulesAlive ==
    \A w \in Running : \A x \in work[w].mods : gen[x[1]] = x[2]
=============================================================================
