# TLA+ models and proofs for CodeSuture

CodeSuture watches a Python program through `sys.settrace` and `sys.excepthook`.
When a frame raises, it analyses the bytecode around the crash, builds a code object
with a guard, puts it into the function (`func.__code__ = ...`), stores it for later
processes, rewinds the frame or answers the request, and files an incident.  This
directory models that control flow, checks it with TLC on small instances and proves
part of it with TLAPS for every instance.

The models are read from `src/codesuture/`.  An action is one block under a lock, or
one access to state that no lock protects, of the code that `PROJECT.json` maps it to;
texts and formats are left out.  Byte code is a value of the models of the pipeline, and has
a model of its own, which runs it.

Contents: [the system](#1-the-system) ·
[modules](#2-modules-and-how-they-correspond-to-the-code) ·
[runs](#3-the-runs) · [bounds](#4-bounds) · [fairness](#5-fairness) ·
[proofs](#6-proofs) · [what does not hold](#7-what-does-not-hold) ·
[not modelled](#8-what-is-not-modelled) · [plan](#9-plan) ·
[running the tools](#10-running-the-tools)

## 1. The system

### Parts, their state and their operations

| Part | Source | State | Operations |
|---|---|---|---|
| Healing pipeline | `tracer.py`, `code_replacer.py`, `guard_synthesizer.py`, `frame_rewind.py` | `func.__code__` of every function; `_ORIGINAL_CODES`, `patched_signatures`, `attempts`, `_handled_exc_ids`, `_rewound_exc_ids`, `stats`; `_patch_lock`, `_state_lock` | `_handle_exception` (analyse, test the attempts, resolve, back up, synthesise, replace, save, publish, count), rewind, fallback response, excepthook, runtime rollback |
| Patch store | `persistence.py`, `rollback.py` | `.codesuture_store/`: `secret.key` and a pair `f.code`, `f.json` for each function; `_store_lock` | `save_patch`, `_load_cached_code`, loading at import, `rollback_function`, `rollback_all` |
| HTTP recovery | `tracer.py` (`_install_http_transaction_replay`) | thread-local replay flag, status lines sent, label of the handler class | `handle_one_request`, degraded response, replay |
| Shadow execution | `shadow.py` | `_original_codes`, `_func_locks`, `_shadow_results` | `register_original`, `shadow_execute`, `clear` |
| Fingerprint registry | `fingerprint.py` | `.codesuture_fingerprints`, one file for all processes; `_registry_lock` | `compute_fingerprint`, `lookup`, `record` |
| Web middleware | `middleware.py`, `middleware_asgi.py` | `_retried_exc_ids` and, for ASGI, a `threading.Lock` | `__call__`, `_handle_exception`, replay |
| Lifecycle manager | `lifecycle.py` | `lifecycle.json`; `_patches`, a copy of it in each process; `_lock` | `track`, `mark_fixed`, `mark_rolled_back`, the loop of `rollback_all`; queries |
| Alert router, channels | `alerts/` | batch buffer and timer, patch times of each function, alert directory with `unread.md` | `route`, escalation, batch flush, `send`, `dismiss`, `dismiss_all` |
| Incident log | `incidents/` | a log file for each day | `classify_severity`, `log_incident`, digest |
| Rewind recorder | `rewind/` | ring buffer, enabled flag, dump files | trace callback, `dump`, `save_rewind_dump`, `load_latest_rewind` |
| Crash analysis | `pattern_matcher.py`, `opcodes.py` | none | `analyze_exception` |
| Guard synthesis | `guard_synthesizer.py`, `diff_guard.py` | none | `synthesize_guarded_code` with a builder for each guard, `validate_patch`, `propagate_patch` |
| Run and watch loops | `cli.py`, `watcher.py`, `debuggee.py` | re-execution count; restart count, last exception | `codesuture run`, `codesuture watch` |
| Autonomous mode, learned rules | `plugins/autonomous.py`, `knowledge.py`, `sandbox.py`, `_eval_fix.py` | learned rules | ask a language model, test in a subprocess |
| Reports | `audit.py`, `explain.py`, `suggest.py`, `metrics.py` | none | render files |

### How they interact

* The interpreter calls the tracer in every frame an exception leaves, so one exception
  reaches `_handle_exception` several times.  The pipeline asks crash analysis for a spec,
  guard synthesis for a code object, writes the function, then **calls** the store, the
  fingerprint registry, the lifecycle manager, the incident log, the alert router and the
  recorder, in this order and without a common transaction.
* The store is **shared state** of all processes that run in a directory; the loops of
  `run` and `watch` hand patches to the next execution only through it.
* HTTP recovery learns of a patch through a **thread-local flag** that the pipeline sets.
* Shadow execution and the pipeline write the same attribute, `func.__code__`, under
  **different locks**.  So do the middlewares, under none (WSGI) or one of their own (ASGI).
* The alert directory is written by the application and edited by the command line, a
  process of its own.

### What is hard, and what makes each part correct

| Part | Hard behaviour | Correct means |
|---|---|---|
| Pipeline | two threads in one handler; unlocked reads; `id()` of dead objects; a step that raises half-way; functions that share a name; an exception that signals across `except` clauses under a lock | a patch that was counted stays in the function, can be repeated, is undone by a rollback, is counted once, and the handler returns |
| Store | truncate-then-write, crashes in between, processes without a common lock, a key created on first use | a process runs nothing but the source of, or a patch made for, a function or one that shares its name; an undisturbed save can be loaded; a rollback leaves nothing it matched |
| HTTP recovery | a flag that outlives its request, a second crash or time-out in the replay, headers already sent, patches of other requests to the same function | mutating requests run once, a request that ends is answered, a replay has the patch |
| Shadow | other threads call or patch the function during the swap; time-outs | original code is visible only during a shadow and is taken out again |
| Middleware | crash of a frame whose code is not the live one; a thread lock held over an `await` | a remembered site has its guard, a replay has the guard it was made for and answers once |
| Analysis and guards | lists of instructions written by hand go into code that has guards already; specs are taken over from other crashes | guarded code is sound on every path, a guard stops the crash it was made for, and nothing else changes |
| Ledger and registry | truncate-then-write, whole-file rewrites from a copy, of which a process may have two, kills in between | what was noted is not lost or replaced by something older; a torn registry does not end the tracing |
| Alerts | timers against incidents, a moving window, writes that fail, commands of another process | every due alert is written, once, with the right severity |
| Recorder | eviction and disabling under running callbacks, file names to the second that functions share | a dump is the newest part of what was recorded, the latest dump is found |
| Loops | time-outs, exceptions that repeat, guards that do not stop their bug, re-definition of functions | a bug whose guard works does not come back, the watcher gives up when it should and always ends |

`PROJECT.json` lists 40 hazards under `hazards`, each at its line with the properties
that guard against it.

## 2. Modules and how they correspond to the code

| Module | Models | State ↔ code | Actions ↔ code |
|---|---|---|---|
| `PatchEngine` | `_handle_exception`, propagation, excepthook, rollbacks | `heap` the code object at an address, `fcode` `func.__code__`, `originals` the backups, `sigs` `patched_signatures`, `registry` the fingerprints, `handled`/`rewound` the two sets of exception ids, `attempts`, `patchLock`, `store` the code in each file; `unsaved` history; `pc`, `spec`, `func`, `old`, `new` the locals of the handler; `stack` the frames of a thread | `CheckHandled` … `Count`, `Repin`, `Rewind`, `Fallback` are the blocks of the handler in order; `Propagate`, `Catch`, `PassBy`, `Uncaught`, `ExceptHook` what the interpreter does with the exception; `RollbackRuntime`, `RollbackStore` the two halves of a rollback |
| `PatchCache` | the promise of the store, in three actions | `offered`, `live` | `Patch`, `Switch`, `Restart` |
| `PatchStore` | the files, workers of several processes, crashes | `key`, `code`, `json` the files' contents, `storeLock` one lock per process, `live` what a process runs, `task`/`pc` an operation in progress | `KeyCheck` … `KeyRead` is `_get_hmac_key`; `CodeOpen` … `JsonWrite` `save_patch`, truncation and write apart; `ReadMeta`, `Apply` `_load_cached_code` and its caller; `ListFiles`, `RemoveFile` `rollback_function`; `Crash` ends a process anywhere |
| `CrashAnalysis` | `analyze_exception` and the rule for each kind of crash | none: operators from instructions, the place of the crash and the bindings of names to a spec | `NullGuardSpec`, `DivisionGuardSpec`, … are `_null_guard_spec`, `_division_guard_spec`, …; `TryChain` `_try_chain_subscript`; `Analyze` the order they are asked in |
| `GuardSynthesis` | `synthesize_guarded_code`, the builders, `validate_patch` | none: operators from instructions and a spec to instructions | `NullGuard`, `ChainWalkGuard`, `SubscriptGuard`, … are the builders; `Build` chooses, `Synthesize` validates |
| `GuardedCalls` | one function that is called, crashes, is guarded and called again, an instruction at a time | `code` of the function and of a property's getter, `frames` program counter, operand stack and locals, `patches` `patched_signatures` with the fingerprints; `plain` history | `Nop` … `ReturnOp`, `Unwind`: kinds of instructions of CPython 3.11 (external); `Heal` is `_handle_exception` from fingerprint to swap; `Call` the application |
| `PatchHistory` | the promise of `lifecycle.json` | `history`, `saved`, `sole` | `Note`, `Save`, `Recover`, and anything while there are two managers (`Shared`) |
| `PatchLedger` | `lifecycle.json` and the registry under engines and commands | `ledger`, `registry` the files, `copy` `_patches` of each process, `lock`/`rlock` `_lock` and `_registry_lock`, `pc`, `kind`, `read`, `then` locals of a thread; `recorded`, `cut` history | `Start` is `__init__` with `_load`, `Stop` a kill; `Lookup`, `RecordLoad`, `RecordOpen`, `RecordWrite` and `NoteHits` the registry; `Track`, `SaveOpen`, `SaveWrite` the manager; `MarkMatching`, `RollBackAll`, `RemoveRegistry` the commands; `RollBackInside` a rollback within an engine, by a second manager (`inner`) |
| `HttpReplay` | the replaced `handle_one_request` | `armed` the thread's flag, `label` the class attribute, `fixed` the guards in the functions, `ran` those in a handler's frames, `tracing` how far the engine is; `first`, `alone`, `statuses`, `runs`, `answer` history of a request | `Receive`, `Call`, `SendResponse`, `Raise` are the handler; `Find`, `Swap`, `Arm` the engine at work on its exception; `Finish`, `DegradeMutating`, `Ask` (`_handle_http_transaction_exception`), `DegradeUnpatched`, `Replay`, `EndRequest` `handle_one_request` |
| `ShadowExec` | `shadow_execute` next to calls and patches | `code`, `original`, `lock` per key, `saved`/`shadow` its locals | `Lookup`, `Acquire`, `ReadCurrent`, `SwapIn`, `ShadowEnds`, `Timeout`, `LeavePool`, `Restore`, `Record` are its statements; `Call`, `Return`, `Crash`, `Patch` its environment |
| `WebMiddleware` | both middlewares; `server` says which one a behaviour has | `code` of the endpoints' functions, `ran` the code a frame runs, `seen` `_retried_exc_ids`, `lock`, `stalled` | WSGI in single steps (`Test`, `Lookup`, `Swap`, `Remember`, `Replay`, …) because threads interleave anywhere; ASGI from await to await (`Reraise`, `Stall`, `RefuseSeen`, `Patch`, …) |
| `IncidentAlerts` | `_log_incident`, router, file channel, dismissal | `registry`, `tracker` `_escalation_tracker`, `buffer`/`timer` the batch, `dir` and `listed` the files and the lines of `unread.md` | `Record`, `Log`, `Escalate`, `AddToBatch`, `Flush`, `WriteAlert`, `AppendUnread`, `LoseAlert` (a write that fails), `EndFlush`, `Dismiss`, `DismissAll` … `EndDismissAll`, `Tick`, `Exit` |
| `RewindRecorder` | callback, buffer, dumps and their files | `current`, `enabled`, `frames`, `dumpFiles`; `appended`, `opened`, `view` history | `Enable`, `Disable`, `ReadBuffer`, `Stamp`, `Test`, `AppendFrame`, `Dump`, `OpenFile`, `WriteFile`, `Elapse` |
| `RunLoop` | `run` with re-executions, `watch` with restarts | `restarts`, `last`, `same` of the watcher; `run`, `before`, `patched`, `again` of the child; `live`/`stored` the guards of functions in memory and in the store | `Launch`, `Define`, `Import`, `Crash` (`Patch` or `PatchFails` inside), `Reexecute`, `GiveUp`, `Finish`, `Exit`, `TimeOut`, `Clean`, `Judge`, `Exhausted` |

Each `MC<module>` gives the constants of its component values for TLC.

Two components have an abstract specification of what they promise, and are shown to
implement it.  `PatchStore` instantiates `PatchCache`: `ImplementsCache` is the abstract
specification with `offered` and `live` mapped to the variables of the same names.
`PatchLedger` instantiates `PatchHistory` `WITH history <- Current, saved <- Readable(ledger), sole <- (doubled = {})`:
`Current` is the copy of the process that is up, or else what the next one would load; `doubled` are the
processes in which a rollback has made a second `LifecycleManager`.

Definitions such as `AttemptOffByOne` or `ReadMetaUnsigned`, which stand before the
definition they resemble, are its faulty variants: `mutants` in `PROJECT.json` says which
property finds each of them when it takes the place of the right one.  They are not part
of the specifications.

The component models meet at the following points, each of which one of them states as an
assumption and the other one models:

* `ShadowExec`, `WebMiddleware` and `RunLoop` take "the engine patches this function" as one
  step, `HttpReplay` as three (`Find`, `Swap`, `Arm`); `PatchEngine` has all steps.
* A guard need not stop its bug: `Ineffective` in `PatchEngine` and `RunLoop`, `Effective` in
  `HttpReplay`.  `RunLoop` bounds the patches made again for that reason (`MaxAgain`).
* `PatchEngine` takes "the patch is in the store" as one step; `PatchStore` has the files.
* `PatchEngine` leaves out the branch of the rewind region that arms the HTTP replay; it has
  the effect on the engine's state of a rewind that succeeds, and `HttpReplay` has the flag.
* `IncidentAlerts` and `PatchLedger` start where `PatchEngine` publishes a patch.
* `PatchEngine` knows crash analysis and synthesis by their results: `At` and `Fix` the function
  that crashes and the one to patch, `Sig` the signature, `NoSpec` what no rule applies to,
  `Rejected` what the validators refuse, `Ineffective` a guard that does not stop its crash.
  `CrashAnalysis`, `GuardSynthesis` and `GuardedCalls` are the code behind these constants, and
  the unmet formulas of section 7 show that none of the sets may be taken to be empty.

### Abstractions worth knowing

* A code object of `PatchEngine` is a function name with a set of guards, at an address
  that is reused when nothing refers to the object; exceptions have addresses too.  This is
  what `id()` sees.
* Functions have names, and share them as the code lets them.  `PatchEngine` gives a function a
  source file and a `co_name` (`Source`, `Name`), which make the key of its backup (`Key`), and a
  pair of files in the store (`File`).  `RollbackRuntime(n)` puts the backup of any key with the
  name n into any function with code of that name, and `RollbackStore` removes the files whose
  names match n (`Removes`).  `PatchStore` has the same constants (`Slot`, `Matching`), and
  `RewindRecorder` the name of a dump's file (`SafeName`, in which `.` and `_` are one).  What
  holds of functions that share nothing is stated under `OwnName`.
* `save_patch` may raise before, between or in its two writes (`NotSaved`): the handler gives up,
  the guard stays live, and `unsaved` remembers the file.
* A crash kind (`Crashes`) of `PatchEngine` stands for an instruction with an exception type.
* `GuardedCalls` computes with terms: the result of `a / b` is the term of that quotient, and of
  a message only what the analysis looks for is kept.  An instruction means what CPython 3.11
  makes of it; labels and try ranges stand where the `bytecode` library lists them.  After a
  crash the frame is left, and a retry is another call.
* `PatchLedger` keeps of a patch the sequence of the states it moved to, and of a registry entry
  its `hit_count`.  The tracer's threads look up, record and track under the locks the code
  takes; between `open` for writing and the end of the write the file is `Torn`, and two
  processes that write at once leave the data of either or a torn file.
* An operation of `PatchStore` notes whether it is `alone`: no other one that writes or removes
  files of its functions overlaps it, and none at all that does so for other functions before
  there is a key that nobody is about to replace (`KeySettled`).
* `PatchStore`'s code files hold a version number or `Torn`: two writers of one file may
  leave the bytes of either or a mixture.  A signature is `<<key, version>>`.
* `ShadowExec` patches a function and registers its original in one step, so that the
  branch for a missing original is never taken; only original code crashes.
* `IncidentAlerts`' escalation reads the clock in the same step in which it takes the
  router's lock.  The list of times the router keeps of a function is a set of incidents with
  their times: two incidents of one time count twice, as in the list.
* A dump of `RewindRecorder` is a set of snapshots; their order is that in which the buffer was
  given them.  Wall clock and monotonic clock of the recorder are both `ticks`.
* `HttpReplay` ends a second execution that raises in `failed`, or in `late` when it is a
  `TimeoutError`, which `handle_one_request` takes for one of the connection.  A swap gives the
  function the code of the crashed frame and one guard more, so it may drop guards of others.
* `RunLoop` patches at once and in one thread, and a script defines each function once in
  an execution.

## 3. The runs

"Deadlock" says whether TLC looks for deadlocks; it does not
where a behaviour ends because the requests, saves or incidents it is bounded to are used
up, or because the program itself ends (`RunLoop`'s verdicts, a process that exits, an event
loop that is stuck).

| Run | Question | Properties |
|---|---|---|
| `engine_threads` (deadlock) | Do two threads that crash at the same time, in the same function or in one that calls the other, leave the engine consistent? | `GuardLive`: a counted patch is in the code the next call runs. `CountedIsOnRecord`: it can be repeated by signature or fingerprint. `CountedOnce`: an exception is patched once on its way up. `HandlerReturns`: nobody waits for ever for a lock the signal of the fallback left behind |
| `engine_apart` (deadlock, symmetry) | Do memory, store and backups agree when two threads patch, crash again, nest calls, fail to save and roll back by name, but never patch one function at the same time? | `OwnBody`: a function runs code of its name, its own where it is alone with it. For functions with names of their own: `BackupPristine`: a patched function has a backup, which is its code in the source; `LiveMatchesStore`: the file has the live code, or lags behind after a save that raised; `GuardsGrow` |
| `store` | What do two processes, one of them with two threads, make of one store, with a crash anywhere, no key at the start, two functions with one pair of files, rollbacks that match several functions and saves without a spec? | `ImplementsCache`: never anything else than the source of, or a version made for, the function or one it shares a name or files with. `CleanSaveLoads`: an undisturbed save survives a restart. `RollbackErases` |
| `http_recovery` | Is a request that crashes answered, and by whom? | `MutatingOnce`; `Answered`: what ends without an exception of the second execution; `ReplayGetsFurther`: a replay does not fail at the bug it was armed for, if the guard works and no other thread was between finding and swapping the function when it was made |
| `shadow` | Does the swap of `__code__` leak? | `SourceOnlyInShadow`, `SwapLeavesNoTrace` |
| `web_replay` | Do the middlewares' remembered sites, guards and replays belong together? | `GuardsStay`: a remembered site, and the frame of a replay, have their guard; `ReplayAnswersOnce` |
| `alerts` | Does every incident lead to one alert of the right severity? | `EscalationExact`, `AlertedOnce`, `AlertsArrive`: unless its own write fails or the process ends |
| `run_loop` | Do re-executions and restarts profit from patches, and do they stop? | `NoRecurrence`, `GivesUpExactly`, `WatchEnds` |
| `rewind` (symmetry) | Do dumps tell what was recorded last? | `DumpIsNewest`, `LoadIsLatest` |
| `guards` | What do the guards do when a function that has some crashes again, and when it is called without a crash? | `StackFits`: operands, bindings, jumps and the stack at a return are right, on every path through the text of the code (`CodeFits`) and for each instruction that runs (`RunFits`), and each guard has a place where it has what it reads (`GuardsPlaced`). `GuardStops`: a guard in front of the crash (`Reaches`) stops it, whatever guards come later. `CallsPreserved`: a call that returned before the patch returns the same (`Keeps`) |
| `ledger` | Do `lifecycle.json` and the registry agree with what happened, through kills and restarts, and rollbacks within an engine? | `ImplementsHistory`: the life of a patch is only added to, or lost in a write that was cut short. `FilesExact`: the registry has the hits that were recorded, the file what the manager has. `TracingKept`: no thread loses its tracing but by such a write |
| `engine_lost_guard` | *(violated)* "All shared state is lock-protected" (README 164) | `GuardsGrow` with two threads and two crash sites in one function: the second swap, built from the frame of the second thread, drops the first guard |

Every component's first run also checks its `TypeOK` (the recorder's is `RRTypeOK`).

`GuardLive` holds in `engine_threads`, where each function has one site that can be
patched, and `GuardsGrow` in `engine_apart` for the functions with names of their own (`OwnName`), whose `CONSTRAINT` `PatchedApart` leaves out
the states in which two handlers hold one function to patch.  That both
restrictions are needed is what `engine_lost_guard` and the configurations of section 7 show.
In the same way `GuardsStay` speaks of WSGI functions with one
patchable bug and of all ASGI functions (`Exclusive`), `LoadIsLatest` of functions whose
name no other contains and whose dumps share their file names with no other dump, `SwapLeavesNoTrace` of
functions that are not patched during a swap, `NoRecurrence` of functions a global name or
attribute leads to and guards that stop their bug, `ReplayGetsFurther` of such guards too, `FilesExact` of processes that run one after the other (`Alone`) and have one manager, `GuardStops`
of guards that stand in front of the crash, `CallsPreserved` of calls that the guard at the
entry of a function can tell from a crash, `StackFits` of all but the variables a guard at the
entry presumes (`Presumed`) and the returns of functions with a guard for another guard's
variable (`Neat`).  In each case the formula without the restriction is stated in the
module too, and does not hold.

## 4. Bounds

All bounds are constants named in the `.cfg`.

| Run | Instance | Why this is enough to see the interesting cases |
|---|---|---|
| `engine_threads` | 2 threads, 2 functions, 3 crash kinds (one without a rule, one fingerprinted by an earlier process), one function that cannot be rewound, one with a socket, 2 exceptions, 4 code addresses, `MaxRetries` 1, 2 raises, depth 2 | every pair of handler steps of two threads; the branches rewind, fallback, repin and give-up; a known fingerprint |
| `engine_apart` | 2 threads, 3 functions, two of which are methods of one name, 2 sites in the one with a name of its own, a refused patch in another, 2 exceptions, 6 addresses, `MaxRetries` 1, 2 raises, depth 2, saves that succeed or fail, one rollback, by either name or a qualified one, while no handler runs | a second patch on top of the first, by the same thread or the other one, a frame below that runs older code, a rollback between patches, a failed save before or after a good one, a thread that is retried while the other one patches another function |
| `engine_lost_guard` | 2 threads, 1 function with 2 sites | the smallest instance with two guards of one function |
| `store` | 2 processes, of 2 threads and of 1; 3 functions: two of one name in two source files that share a pair of files, and one of the engine itself (saved without a spec); a rollback by a name that matches one or both pairs; no key; 2 saves, 1 load, 1 rollback, 1 crash | both processes create the key; two writes of one pair of files overlap, for one function or for two, and are overlapped by a load, a removal, a crash; two threads contend for `_store_lock` |
| `http_recovery` | 2 threads, one traced, one connection each; 2 endpoints, 2 functions, 4 bugs (two of one function with guards, of which one does not stop its bug, one the application catches, one without a guard that is a `TimeoutError`), GET and DELETE, 3 requests | a flag left by one request meets the next, in another endpoint and with another method; two requests patch one function from frames of different code; a replay meets the other bug, or times out |
| `shadow` | 3 threads, 1 function, 3 patches | two shadows compete while a third thread patches or calls; functions share nothing but a key, and the proof covers any number |
| `web_replay` | 2 workers, 2 endpoints, 5 bugs on 3 sites, 3 with a guard, 4 requests, WSGI or ASGI | two requests in one function at bugs of one line and of two, then two more against the result |
| `alerts` | 2 incidents, 2 timers' threads, 2 dismissals, threshold 2, window 2, clock 2 | the threshold is reached inside and missed outside of the window; the second incident comes before, during and after the flush of the first |
| `run_loop` | 4 bugs (two patchable and one not in the script's function, one in an imported function), one guard that does not stop its bug, `--retries` 1, `--max-restarts` 3, `MaxAgain` 1 | three equal failures need three children, a fourth one is where the limit takes over |
| `rewind` | 2 threads, 2 buffers, 3 functions, two of which share the name of their files, `max_frames` 2, `last_n` 1, age 1, 2 ticks per second, clock 2, 3 snapshots, 2 dumps | the third snapshot evicts; a snapshot is stamped young and dumped old; two dumps in one second and in two, of one function, of two and of two with one name |
| `guards` | 33 functions of one to five expressions, at least one for each rule, each with 2 to 5 arguments it takes or crashes on; 4 calls, 3 patches | a function crashes at three sites, or at one in three ways, and is called once more; guards meet in one function, before and after each other, and in a property's getter |
| `ledger` | an engine of 2 threads and a command, one at a time; 3 crash kinds of 2 patches, one that json cannot write; 3 starts, 4 crashes or commands | an engine is killed in a write, a command works on what is left, a second engine continues; two threads write both files |

`RewindRecorder`'s threads and buffers are interchangeable, and so are the threads, the
exceptions and the free addresses of `engine_apart` and the two threads of one process in `store`; these runs are
checked for safety only, and so the symmetry is sound.  No other run uses symmetry.

## 5. Fairness

* `PatchEngine`: weak fairness of `Handle(t)` and `Leaving(t)`: a thread inside the handler,
  or with an exception on its way out, keeps running.  No thread has to call or raise.
* `IncidentAlerts`: weak fairness for the threads of incidents and timers; a
  `threading.Timer` that was started fires.  The process may exit at any time.
* `RunLoop`: weak fairness of `Launch`, of the watcher's verdicts, and of `TimeOut`, because
  `subprocess.run(timeout=60)` ends the child.  Nothing is assumed of the script: it may
  loop for ever.
* `PatchStore`, `HttpReplay`, `GuardedCalls` and `PatchLedger` state no fairness: what is asked of them is safety.
* `ShadowExec`: weak fairness of the engine's own steps, nothing of the original code it
  runs; used only for the time-out of section 7.

## 6. Proofs

`tlapm` checks every leaf; nothing is assumed besides the named assumptions on constants in
the modules (which TLC evaluates in the runs).

| Module | Theorem | Says |
|---|---|---|
| `PatchEngineProofs` | `TypeCorrect` | `Spec => []TypeOK` |
| | `BodiesAreOwn` | `Fix = At /\ Spec => []OwnBody`: if every crash is repaired in the function it happens in, a function runs a body of its own name, and no function whose names are its own ever runs, or has in the store, the body of another one, whatever addresses are reused and names are rolled back |
| | `CountedPatchesAreOnRecord` | `Spec => []CountedIsOnRecord` |
| | `ExceptionsCountOnce` | `Spec => []CountedOnce` |
| | `GuardsAreLive` | `Fix = At /\ OneSignature /\ MaxRollbacks = 0 /\ Spec => []GuardLive`: any number of threads |
| | `BackupsArePristine`, `LiveIsStored`, `GuardsAreKept` | `BackupPristine`, `LiveMatchesStore` and the action property `GuardsGrow`, from `Fix = At /\ ~RollbackAnytime /\ Spec /\ []PatchedApart`: any number of threads, as long as no two patch one function at once, and functions that share their names or not, of which those with names of their own have the properties |
| `PatchStoreProofs` | `TypeCorrect` | `Spec => []TypeOK` |
| | `StoreImplementsCache` | `Spec => ImplementsCache`: the files implement `PatchCache` |
| | `CleanSavesLoad`, `RollbacksErase` | `Spec => []CleanSaveLoads`, `Spec => []RollbackErases`: what an operation that is alone on its files leaves |
| `HttpReplayProofs` | `TypeCorrect`, `MutatingRunsOnce`, `EveryEndAnswered`, `ReplayHasThePatch` | the invariants of `http_recovery` |
| `AcrossRunsProofs` | `TypeCorrect` | `Spec => []TypeOK`, for any number of processes up |
| | `LedgerKeepsHistory` | `Alone => (Spec => ImplementsHistory)`: the file implements `PatchHistory`, which promises nothing once a rollback has made a second manager |
| | `FilesStayExact`, `TracingIsKept` | `Alone => (Spec => []FilesExact)`, `Alone => (Spec => []TracingKept)`; `CopiesExact` is about processes with one manager |
| `ShadowExecProofs` | `TypeCorrect`, `PatchedStaysPatched`, `SwapsAreUndone` | the invariants of `shadow` |
| `WebMiddlewareProofs` | `TypeCorrect`, `GuardsStayInPlace`, `ReplaysAnswerOnce` | the invariants of `web_replay` |
| | `LoopTypeCorrect`, `PatchedBugsStayAway`, `WatcherGivesUpExactly` | the invariants of `run_loop`, as `RLSpec => ...` |
| `GuardedCallsProofs` | `GuardedCodeRuns` | `Spec /\ []GuardsPlaced => []StackFits`: whatever functions are called, crash and are patched, their code stays sound on all its paths and every instruction that runs finds what it needs, if each guard gets a place where it has what it reads |
| | `BuildFits` | the same of code alone: each guard of `Build` but one keeps any sound code sound |
| | `RewrittenFits` | the lemma under it: any instructions of any code replaced by blocks that do the same to the stack and the variables |
| | `FlowFits` | the typing `Flow` computes is sound for every code that has a sound typing |
| `CrashRecordsProofs` | `TypeCorrect`, `NoAlertTwice`, `EscalatesExactly` | the invariants of `alerts` |
| | `RecorderTypeCorrect`, `DumpsAreNewest`, `LatestIsLoaded` | the invariants of `rewind`, as `RRSpec => ...` |

`CrashRecordsProofs` is about two components that share nothing: what is kept of a crash for
people.  So is `AcrossRunsProofs`: what the engine hands from one process to the next.
`RewindRecorder` (`RRSpec`, `RRTypeOK`, `ticks` ...) and `RunLoop` (`RLSpec` ...) have names of
their own so that one module can extend both components.

The arguments, each with the reason for its strengthening:

* **`TypeInv` = `TypeOK /\ Stages /\ NoDangling`.**  Types alone are not inductive:
  `heap[old[t]]` is a code object only if `old[t]` is set, so `Stages` says which locals are
  set at which step, and `NoDangling` that whatever a function, backup, frame or local refers
  to has not been collected.  For `BodiesAreOwn` the body of every object that is referred
  to is traced back to a function of the same name, and that in a file of its own to its function; a rollback
  by name moves a body between namesakes only.  An allocation is shown to use an address that
  nothing refers to (`LiveNotFree`).  The hypothesis `Fix = At` is needed: section 7.
* **`CountInv` = `TypeInv /\ OnRecord /\ CountedIsOnRecord /\ Marked`.**  A patch that reuses a
  known fingerprint or signature is not recorded again, so `OnRecord` follows the flags
  `cached` and `reuse` from where they are set to where they are believed.  `Marked`
  says that an exception that was counted is in `_handled_exc_ids` as long as it flies.
* **`GuardInv` = `BodyInv /\ Superseded /\ SiteIsTop /\ Patching /\ CountedIsLive`.**  A thread
  builds the new code from the code its frame runs, which may be older than the function's; so
  the swap of one thread can drop the guard of another.  With `OneSignature` (all crashes of a
  function have one) every new code object holds the guard all of them need: `Patching` says so
  of the code in a thread's hands, `Superseded` that whoever has old code that the function no
  longer runs finds the function guarded, and `SiteIsTop` that the crash at hand is one of the
  function on top.  The hypotheses are not for the prover's sake: `engine_lost_guard` breaks the
  formula with two signatures, `MCPatchEngine_unmet` with a frame that is older than
  its function, `MCPatchEngine_getters` with `Fix # At`.
* **`ApartInv` = `BodyInv /\ RollingBack /\ Swapping /\ Matching /\ BackupPristine /\ Unused`.**
  `Swapping` follows a patch through backup, synthesis, swap and save: the function runs the
  old code up to the swap and the new one after it, the backup is missing only before it is taken,
  and the new guards include the old ones.  `Matching`: the file of a function never has a guard that
  the live code is without (`Behind`), and is level with it but between swap and save and after
  a save that raised.  All of it is about functions with names of their own, and holds
  whatever is done to others; `Unused`: the code a thread has built but not
  swapped in is nobody else's.  Each part is false when two threads patch one function, as
  `MCPatchEngine_races` shows, and with a rollback in the middle of a handler, which is why
  `[]PatchedApart` and `~RollbackAnytime`.  `PatchedApart` speaks of a thread from the choice of its
  function to the end of its handler; that the code does not see to it is section 7.
* **`PatchStoreProofs!Inv` = `TypeOK /\ Locals /\ Provenance`.**  `Provenance`: every version in
  a file, a process, a backup or the hands of an operation is one that fits the
  function it is there for (`Fitting`): of itself or of one it shares a name or files with.  It is kept by torn
  writes, because a torn file matches no signature, and by mixed pairs, because both halves are of
  functions with these files.
  `CacheStep` maps each step to a step of `PatchCache` or a stutter.
* **`AloneInv` = `TypeOK /\ Locals /\ KeyUsers /\ Apart /\ Saving /\ Erasing /\ Clean`.**  `Apart`:
  nobody else touches the files of an operation that is alone.  `Saving` and `Erasing` say how
  far such an operation has come with its files, `Clean` that a clean save is complete, is
  signed with the bytes of the key and has nobody at work on it.  `KeyUsers` keeps signatures
  from being made without a key.  That the others work on other files is not enough: a
  process that has not found a key is about to write one, and what was signed before it does
  cannot be loaded afterwards.  `KeySettled`, part of what "alone" means, excludes that; the
  first form of `CleanSaveLoads` did not, and failed once three saves were allowed.
* **`HttpReplayProofs!Inv` = `TypeOK /\ Progress /\ Tracing /\ Standing`.**  `Progress` counts the executions
  and status lines at each stage; `Tracing`: whoever the engine works for has a bug at hand.
  `Standing` follows the guard of a request that was `alone` with its patch: it is in the function
  from the swap to the replay and in the frames of the replay (`Held`, `Run`), because any other
  thread that has found the function since then found it with this guard in its frame (`KeptBy`).
  Without `alone` a thread that had found the function before drops it: `GuardStays` in section 7.
* **`ShadowExecProofs!Inv` = `TypeOK /\ Locals /\ SourceOnlyInShadow /\ SwapLeavesNoTrace /\
  Counted`.**  `Locals` says that a thread in a swap holds the lock of its function's key and
  has saved patched code, hence that nobody else of that function is in a swap.
* **`AcrossRunsProofs!FilesInv` = `Busy /\ RegistryInv /\ LedgerInv`.**  `RegistryInv`: what a record
  is about to write is one hit more than was recorded, and the registry is torn while it is
  written; `LedgerInv` the same of `lifecycle.json`, in processes with one manager; `Busy`: who is in an operation is up, and a
  command does not heal.  The step from "holds the lock of its process" (in `TypeOK`, proved
  for any number of processes) to "is the only writer" needs `Alone`, the assumption that
  engines and commands follow each other: section 7.  `HistoryStep` maps each step to a step of
  `PatchHistory` or a stutter.
* **`WebMiddlewareProofs!Inv` = `TypeOK /\ Requests /\ Steps /\ Remembered /\ Responses`.**
  `Requests` counts the workers whose request may still make a code object.  `Steps` and
  `Remembered` say that a guard is in the live function from the swap on; a swap keeps those
  of others (`GuardsAreKept`) because a task patches the code its frame ran, and because
  threads of an endpoint with one bug to guard put in the same guard (`OneBug`).
* **`AcrossRunsProofs!Inv` = `RLTypeOK /\ Kept /\ Counted /\ Streak`.**  `Kept`: what was patched
  and not lost to a later save that broke off is stored, and in memory where its function is defined.
  `Counted` bounds `stats["patched"]` by the guards in memory, the executions before and the patches
  made `again`.  `Streak` reads the watcher's two variables
  off the history of the children that failed.
* **`AlertInv` = `TypeOK /\ Progress /\ Batched /\ AlertedOnce`.**  `Batched`: the incidents that wait
  are in the buffer or in one batch, at one place of it, and their threads have ended, so that
  nobody else sends them; of a batch only the first may have been sent, while its line in
  `unread.md` is missing.  An alert whose write fails leaves its place like one that was sent (`Passing`).
* **`GradeInv` = `TypeOK /\ Progress /\ Routed /\ Tracked /\ EscalationExact`.**  `Tracked`: what the
  router has pruned from its list lies outside of every window that is still to come, so the
  length of the list is the number of incidents in the window (`Cardinality` of two sets of
  which one is mapped onto the other).
* **`RingInv` = `RRTypeOK /\ Holding /\ Ends /\ DumpIsNewest`** (of the recorder).  `Ends`: a buffer
  is the end of what it was given, and misses something only if it is full.  So a young snapshot
  that a dump leaves out either was evicted, and `max_frames` newer ones came after it, or is in
  the buffer with at least `last_n` young ones behind it; those are mapped one to one into
  what the buffer was given (`OneToOne`).
* **`FileInv` = `RRTypeOK /\ Holding /\ Filed /\ Savers /\ Contents`.**  `Filed`: names carry the
  second the file was opened in, so those of one function grow in the order of opening.  `Contents`: a
  file whose name no other dump had (`Sole`) is torn while its dump is saved and whole
  afterwards, whatever else is written.  `LatestLoads` then compares the sorted names.

* **`GuardedCallsProofs!Inv` = `Shape /\ FramesFit /\ CodeStands`.**  A typing (`IsTyping`) gives every
  position of a code the depth of the stack and the variables bound there; `CodeStands`: the code
  a call would run has one.  `FramesFit`: every frame is where the typing *of the code it was called
  with* says, which need not be the function's any more, and a frame that waits for a property's
  getter has one value less on its stack than the typing says (`Stands`).  A patch changes no frame,
  and makes `Presumed` grow and `Neat` fail at most (`Weaker`).
* **That a patch keeps `CodeStands`** is the other half, and speaks of code only.  `RewrittenFits`:
  if each instruction of a set is replaced by a block that, typed on its own, begins with the type
  of that instruction and ends with the type of what follows it (`Does`), the code has the old
  typing spread over the new positions; labels and try ranges move along because the block's labels
  are new (`Numbered`).  `FlattenLays` says where `FlattenSeq` puts the blocks.  A guard that is
  inserted is an instruction replaced by itself and the guard (`InsertFits`).  Each block then has
  a lemma with its typing written out (`NoneReturns`, `IndexReturns`, ... `SubscriptReplaces`); the
  walk along a chain of attributes has one for every length (`WalkReturns`).  `BuildFits` puts
  them together along `Build`.
* **The hypothesis `GuardsPlaced`** is what the synthesiser does not look after: the function is
  sound as it was compiled, a crash is one of the function and not of its getter, and where `Build`
  puts the guard the variables it reads are bound and, if the guard returns, nothing else is on the
  stack (`HasPlace`).  It asks nothing of the guard's instructions, with one exception:
  `chain_subscript_guard` takes the instructions of the chain out of the code, others of the
  function may jump over or into them, and so the code it leaves is checked instead.  The run
  `guards` checks `GuardsPlaced` with `StackFits`, so it holds for all its functions.  It cannot be proved: an
  index guard, for one, goes behind the last store to either of its two variables, and the other
  one need not be bound on each path there.  What the code gets wrong in any case, `Presumed` and
  `Neat` let pass: `EveryLocalBound` and `EveryReturnClean` of section 7 are the formulas without them.

The library's induction theorems cannot be cited, but where a lemma speaks of code, chains or
sequences of any length the proof takes the least counterexample (`LeastOf`, used for
`AccumulatesAt`, `FlowsAt`, `AllLaid`).

Only model-checked: all liveness (`HandlerReturns`, `AlertsArrive`,
`WatchEnds`), which the prover does not handle with fairness; and `GuardStops` and
`CallsPreserved`, which speak of the values single functions compute and relate a call to the same
call of older code: they hold for the guards' instructions and the arguments of the run, and no
simulation between the two calls is proved.

## 7. What does not hold

The following are statements of the documentation, the comments or the tests that the code
does not keep; `findings` in `PROJECT.json` quotes each of them.  A configuration
`MC..._unmet.cfg` lists several; TLC stops at the first it meets, and shows another one when
the names before it are deleted.

| Configuration | Formula | What happens |
|---|---|---|
| `MCPatchEngine_lost_guard` | `GuardsGrow` | see the run `engine_lost_guard` |
| `MCPatchEngine_races` | `BackupPristine` | a thread looks for a backup, another one patches, the first backs up patched code |
| | `LiveMatchesStore` | two threads write memory in one order and the store in the other |
| `MCPatchEngine_unmet` | `RetriesBounded` | attempts are keyed by a code object that every patch replaces |
| | `OneFallback` | the signal raised after a fallback response is caught by the clause that sends one |
| | `SwallowOnlyPatched` | the id of a dead exception is reused by one that was not healed |
| | `GuardLive` | a frame runs older code than its function; the new code is built from the frame's |
| `MCPatchEngine_getters` | `OwnBody` | the backup of a crashed function holds the code of a property getter, and a rollback installs it |
| | `GuardLive` | a second getter with the same signature is taken for the first |
| `MCPatchEngine_names` | `EveryBodyOwn` | a rollback by name puts the backup of one method into another one of this name |
| | `EveryBackupPristine` | the second of two methods of one name and file finds the backup of the first and has none of its own |
| | `LiveIsSaved` | `save_patch` raises after the swap: the guard is live and not in the store |
| `MCPatchEngine_forgotten_target` | `GuardLive` | a fingerprint of an earlier process forgets that the getter was to be patched |
| `MCPatchStore_unmet` | `OneKey` | two processes create the key; or one reads it between `open` and `write` |
| | `RollbackRestores` | a process that loaded its patch has no original to go back to |
| | `OwnVersion` | two functions with one module and qualified name, in two scripts, load what was signed for the other |
| `MCHttpReplay_unmet` | `ReplayAfterPatch` | a flag left by an earlier request starts a replay without a patch |
| | `OneStatus`, `NoSocketClose` | a crash after the status line; a second crash in the replay |
| | `ReturnsAnswered` | a `TimeoutError` of the replay is taken by the outer clause: a normal return without a response |
| | `GuardStays` | another request swaps in the code of an older frame between a patch and its replay, which then fails at the patched bug |
| | `PatchedIsLabelled`, `HonestLabel` | the header misses a patch, or names one that was not made |
| `MCShadowExec_unmet` | `CallersGuarded` | a call during a swap runs the original code |
| | `LatestPatchStays` | a patch made during a swap is overwritten by the restore |
| | `OwnOriginal` | two functions of one name and file share an original |
| | `ShadowsEnd` | leaving the thread pool waits for the thread the time-out gave up |
| `MCWebMiddleware_unmet` | `MutatingNotReplayed` | both middlewares call the application again whatever the method |
| | `LoopLives` | a second task waits for the lock that a task holds over `await send` |
| | `OneResponse` | an ASGI replay crashes after its response started |
| | `SeenIsGuarded` | two WSGI threads replace each other's guards, the site stays remembered |
| `MCIncidentAlerts_unmet` | `FirstIsHigh`, `LogAgrees` | the fingerprint is recorded before it is looked up; the log is written before escalation |
| | `ListedIsThere`, `ThereIsListed` | dismissal forgets `unread.md`, or removes it after an alert was added |
| | `AlertsSurvive` | the batch dies with the process |
| `MCRunLoop_unmet` | `CleanIsClean` | `codesuture run` returns 0 for a script that crashed |
| | `ThriceUnpatched` | the first of the three failures may have patched |
| | `NothingRecurs` | nested functions never take their patch from the store |
| `MCRewindRecorder_unmet` | `TimelineOrdered` | stamps are taken before the lock |
| | `LatestIsLatest`, `DumpsKept` | file names sort by function first, and have a resolution of a second |
| | `LatestOfFunction` | `A.b` and `A_b` have one file name: the dump of one overwrites the other's |
| `MCGuardedCalls_unmet` | `EveryGuardStops` | `a % b` gets a guard for `a / b`; the first `["k"]` is guarded, not the one that crashed; the attributes of an assigned variable, a negative index, a function with a `try`; a spec taken over from a crash with the same fingerprint |
| | `EveryCallPreserved` | `.get` on a list; `str(v)` for the whole function; `int("+5")` becomes 0; `os` is not imported; `__missing__` is not called |
| | `EveryLocalBound` | the guard at the entry of a function with a `try` loads a variable that the function has yet to assign: every later call fails |
| | `EveryReturnClean` | an index guard for the variable of another guard goes into the middle of an expression and returns from there |
| `MCPatchLedger_unmet` | `HitsExact`, `CopiesExact` | two processes rewrite a file from what they read before: hits are lost, a FIXED patch is PATCHED again |
| | `CopiesCurrent` | a rollback inside an engine notes its state through a second manager, and the tracer's overwrites it |
| | `TracingKept` | one process reads the registry another one has just truncated |

Two more differences between the documents and the code need no model: `README.md:210` puts alerts into
`.codesuture_alerts/`, the code into `.codesuture_incidents/alerts`; and the lifecycle of
`README.md:261` has states (`PERSISTED`, `VERIFIED`, `EXPIRED`, `REPLAYED`) that no code ever sets,
and a last one (`FIXED`) that is not: `States` in `PatchLedger` has the four that are reached.

## 8. What is not modelled

* **Parts of crash analysis and guard synthesis**: `callable_guard`, whose only known callable is
  a function of the engine, cell variables, coroutines, `STORE_SUBSCR` and `DELETE_ATTR`, defaults
  guessed from the names of variables, code that `semantic_diff` finds too different,
  `_force_despecialize`, and interpreters other than CPython 3.11.
* **Queries of the lifecycle manager**, TTL and age among them: they read and print.
* **Autonomous mode, learned rules**: a language model and a subprocess decide.
* **Reports, metrics, digest**: functions from files to text.
* Of the modelled parts: `rollback_all` of the store (removes a directory; only the command line calls it), the TTL of patches, the `.orig.code`
  files (the engine never passes `original_code`), `ShadowExecutor.clear`, `flush()` of the
  router and `dump_for_function` (nothing calls them), the webhook's HTTP call, scopes of
  ASGI other than `http`, refused HTTP requests, the frames the recorder skips, the texts `_extract_exception` looks for, the
  listing of dumps.

## 9. Plan

The order followed the importance of the behaviour: the pipeline, the store it
writes, the three ways to re-run something (HTTP, shadow, middleware), then what is told to
people (alerts, recorder) and the loops around all of it, and at last what the pipeline had
as constants and variables only: what the guards are and do, and the files behind the
registry and the lifecycle.  What is left:

1. TTL and `rollback_all` in `PatchStore`; `PatchLedger` has the latter's effect on its two files.
2. `callable_guard`, coroutines and the instructions of CPython 3.12 in `CrashAnalysis`.
3. Proofs: `GuardStops` for one guard at the entry of any function, by an invariant over the
   instructions of the guard.  `GuardsAreLive` needs `MaxRollbacks = 0`: what was counted (`applied`)
   is not taken back by a rollback, so that the formula is false with rollbacks even between handlers.

## 10. Running the tools

    tlc -workers 2 -config MCPatchEngine_threads.cfg MCPatchEngine
    tlapm PatchEngineProofs.tla

`PROJECT.json` names the module, configuration and properties of each run, the source lines
of each definition (`map`), the faulty variants (`mutants`) and the theorems.  The largest run,
`rewind`, has 8.6 million distinct states and takes a minute and a half.
