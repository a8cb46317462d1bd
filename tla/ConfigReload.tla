---------------------------- MODULE ConfigReload ----------------------------
(***************************************************************************)
(* Hot reload, from the config file to the runtime that serves requests:   *)
(* the watcher and its debounce timer, loads started by the timer or by    *)
(* POST /admin/reload (config.Loader), the one-slot subscriber channel,    *)
(* and the goroutine that applies what it receives (runtime.Reloader).     *)
(*                                                                         *)
(* A config is an opaque value; all that matters is whether it loads       *)
(* (reads, parses and validates) and whether a runtime can be built from   *)
(* it.  A file caught half written is one that does not load.              *)
(*                                                                         *)
(* Nothing serialises loads: a callback of the timer that has started is   *)
(* not stopped by the next one, and the admin handler runs beside both.    *)
(* Loaders bounds how many are under way at the same time.                 *)
(***************************************************************************)
EXTENDS Integers, Sequences

CONSTANTS
    Configs,        \* contents the file may have
    Invalid,        \* those that loadAndValidate rejects
    Unbuildable,    \* those that load but make runtime.Build fail
    InitialConfig,  \* the content the gateway started with
    EditModes,      \* how the file is edited: "write" in place, "rename" over it
    Loaders,        \* goroutines that may run a load at the same time
    MaxEdits,       \* bound on the edits of the file
    MaxAdmin        \* bound on the admin reloads

ASSUME ReloadAssumption ==
    /\ Invalid \cup Unbuildable \subseteq Configs
    /\ Invalid \cap Unbuildable = {}
    /\ InitialConfig \in Configs \ (Invalid \cup Unbuildable)
    /\ EditModes \subseteq {"write", "rename"}
    /\ MaxEdits \in Nat /\ MaxAdmin \in Nat

VARIABLES
    file,       \* the content of the config file
    edits,      \* edits made
    watching,   \* the watch is still on the inode at the config's path
    event,      \* a write event waits for the watcher goroutine
    timer,      \* the debounce timer is armed
    admin,      \* admin reloads made
    loader,     \* per load: [pc, cfg]
    current,    \* Loader.current
    ch,         \* the Reloader's channel, capacity 1
    subscribed, \* the Reloader has been started and its channel registered
    overlap,    \* auxiliary: the latest load began before another had ended
    dropped,    \* auxiliary: what became of the latest send, "no" (delivered),
                \* "full" (the channel was) or "early" (nobody had subscribed)
    reloader,   \* the Reloader goroutine: [pc, cfg]
    registry,   \* the config the shared service registry was last diffed to
    versions,   \* Reloader.versionCount
    holder      \* the served runtime: [ver, cfg]

vars == <<file, edits, watching, event, timer, admin, loader, current, ch,
          subscribed, overlap, dropped, reloader, registry, versions, holder>>

fileVars     == <<file, edits, watching, event, timer, admin>>
loaderVars   == <<loader, current, overlap>>
reloaderVars == <<subscribed, reloader, registry, versions, holder>>

Loads == Configs \ Invalid

Servable == Loads \ Unbuildable

Init ==
    /\ file = InitialConfig
    /\ edits = 0 /\ admin = 0
    /\ watching = TRUE /\ event = FALSE /\ timer = FALSE
    /\ loader = [l \in Loaders |-> [pc |-> "idle", cfg |-> InitialConfig]]
    /\ current = InitialConfig
    /\ ch = <<>>
    /\ subscribed = FALSE
    /\ overlap = FALSE
    /\ dropped = "no"
    /\ reloader = [pc |-> "idle", cfg |-> InitialConfig]
    /\ registry = InitialConfig
    /\ versions = 0
    /\ holder = [ver |-> 0, cfg |-> InitialConfig]

-----------------------------------------------------------------------------
(* The file changes.  A write in place raises a Write event while the      *)
(* watch lasts.  A rename puts a new inode at the path: the watch goes     *)
(* with the old one, and what it reports of it is no Write or Create.      *)
Edit(c, mode) ==
    /\ edits < MaxEdits
    /\ c # file
    /\ edits' = edits + 1
    /\ file' = c
    /\ watching' = (watching /\ mode = "write")
    /\ event' = (event \/ watching')
    /\ UNCHANGED <<timer, admin, loaderVars, ch, dropped, reloaderVars>>

(* An armed timer is stopped and no new one is armed.                      *)
WatchEventStopsOnly ==
    /\ event
    /\ event' = FALSE
    /\ timer' = ~timer
    /\ UNCHANGED <<file, edits, watching, admin, loaderVars, ch, dropped, reloaderVars>>

(* The watcher takes the event and arms the timer anew; stopping the old   *)
(* timer does not wait for a callback that has started.                    *)
WatchEvent ==
    /\ event
    /\ event' = FALSE
    /\ timer' = TRUE
    /\ UNCHANGED <<file, edits, watching, admin, loaderVars, ch, dropped, reloaderVars>>

(* The goroutine holds the config it has read, and is not alone with it if *)
(* another one is under way.                                               *)
BeginLoad(l) ==
    /\ loader' = [loader EXCEPT ![l] = [pc |-> "store", cfg |-> file]]
    /\ overlap' = \E k \in Loaders : loader[k].pc # "idle"

(* loadAndValidate without the call of Validate.                           *)
LoadUnchecked(l) ==
    /\ loader[l].pc = "idle"
    /\ BeginLoad(l)

(* loadAndValidate: the file is read now; a config that does not load is   *)
(* logged and the current one kept.                                        *)
Load(l) ==
    /\ loader[l].pc = "idle"
    /\ IF file \in Loads THEN BeginLoad(l) ELSE UNCHANGED <<loader, overlap>>

(* The debounce timer fires and its callback loads.                        *)
TimerFires(l) ==
    /\ timer
    /\ timer' = FALSE
    /\ Load(l)
    /\ UNCHANGED <<file, edits, watching, event, admin, current, ch, dropped, reloaderVars>>

(* POST /admin/reload runs the same load in the handler's goroutine.       *)
ForceReload(l) ==
    /\ admin < MaxAdmin
    /\ admin' = admin + 1
    /\ Load(l)
    /\ UNCHANGED <<file, edits, watching, event, timer, current, ch, dropped, reloaderVars>>

(* The new pointer is stored but no subscriber is told.                    *)
StoreOnly(l) ==
    /\ loader[l].pc = "store"
    /\ current' = loader[l].cfg
    /\ loader' = [loader EXCEPT ![l].pc = "idle"]
    /\ UNCHANGED <<fileVars, overlap, ch, dropped, reloaderVars>>

(* StorePointer(&l.current).                                               *)
Store(l) ==
    /\ loader[l].pc = "store"
    /\ current' = loader[l].cfg
    /\ loader' = [loader EXCEPT ![l].pc = "fanout"]
    /\ UNCHANGED <<fileVars, overlap, ch, dropped, reloaderVars>>

(* fanOut: a send that would block is dropped, and without a subscriber    *)
(* there is none.                                                          *)
FanOut(l) ==
    /\ loader[l].pc = "fanout"
    /\ dropped' = CASE ~subscribed -> "early"
                    [] subscribed /\ ch # <<>> -> "full"
                    [] OTHER -> "no"
    /\ ch' = IF dropped' = "no" THEN <<loader[l].cfg>> ELSE ch
    /\ loader' = [loader EXCEPT ![l].pc = "idle"]
    /\ UNCHANGED <<fileVars, current, overlap, reloaderVars>>

-----------------------------------------------------------------------------
(* Reloader.Start subscribes; the Loader has watched the file since        *)
(* NewLoader returned.                                                     *)
Start ==
    /\ ~subscribed
    /\ subscribed' = TRUE
    /\ UNCHANGED <<fileVars, loaderVars, ch, dropped, reloader, registry, versions, holder>>

(* The goroutine receives a config; applyReload takes the next version.    *)
Receive ==
    /\ reloader.pc = "idle"
    /\ ch # <<>>
    /\ reloader' = [pc |-> "diff", cfg |-> Head(ch)]
    /\ ch' = Tail(ch)
    /\ versions' = versions + 1
    /\ UNCHANGED <<fileVars, loaderVars, subscribed, dropped, registry, holder>>

(* applyServiceDiff changes the shared registry, health checkers and       *)
(* balancers at once.                                                      *)
ServiceDiff ==
    /\ reloader.pc = "diff"
    /\ registry' = reloader.cfg
    /\ reloader' = [reloader EXCEPT !.pc = "build"]
    /\ UNCHANGED <<fileVars, loaderVars, ch, subscribed, dropped, versions, holder>>

(* The build is skipped for a config equal to the registry's, to which     *)
(* the diff has just been applied.                                         *)
BuildIfChanged ==
    /\ reloader.pc = "build"
    /\ holder' = IF reloader.cfg \in Servable /\ reloader.cfg # registry
                 THEN [ver |-> versions, cfg |-> reloader.cfg]
                 ELSE holder
    /\ reloader' = [reloader EXCEPT !.pc = "idle"]
    /\ UNCHANGED <<fileVars, loaderVars, ch, subscribed, dropped, registry, versions>>

(* Build, then the swap; a failed build keeps the served runtime.          *)
BuildAndSwap ==
    /\ reloader.pc = "build"
    /\ holder' = IF reloader.cfg \in Servable
                 THEN [ver |-> versions, cfg |-> reloader.cfg]
                 ELSE holder
    /\ reloader' = [reloader EXCEPT !.pc = "idle"]
    /\ UNCHANGED <<fileVars, loaderVars, ch, subscribed, dropped, registry, versions>>

-----------------------------------------------------------------------------
Next ==
    \/ \E c \in Configs, mode \in EditModes : Edit(c, mode)
    \/ WatchEvent
    \/ \E l \in Loaders : TimerFires(l) \/ ForceReload(l) \/ Store(l) \/ FanOut(l)
    \/ Start \/ Receive \/ ServiceDiff \/ BuildAndSwap

(* The gateway's goroutines and timers run; nobody has to edit the file or *)
(* call the admin endpoint.                                                *)
Fairness ==
    /\ WF_vars(WatchEvent)
    /\ WF_vars(\E l \in Loaders : TimerFires(l))
    /\ \A l \in Loaders : WF_vars(Store(l)) /\ WF_vars(FanOut(l))
    /\ WF_vars(Start) /\ WF_vars(Receive)
    /\ WF_vars(ServiceDiff) /\ WF_vars(BuildAndSwap)

Spec == Init /\ [][Next]_vars

FairSpec == Spec /\ Fairness

-----------------------------------------------------------------------------
(* The state has its types; the channel never holds more than its slot.    *)
TypeOK ==
    /\ file \in Configs
    /\ edits \in 0 .. MaxEdits /\ admin \in 0 .. MaxAdmin
    /\ watching \in BOOLEAN /\ event \in BOOLEAN /\ timer \in BOOLEAN
    /\ loader \in [Loaders -> [pc : {"idle", "store", "fanout"}, cfg : Configs]]
    /\ current \in Configs
    /\ ch \in Seq(Configs) /\ Len(ch) <= 1
    /\ subscribed \in BOOLEAN /\ overlap \in BOOLEAN
    /\ dropped \in {"no", "full", "early"}
    /\ reloader \in [pc : {"idle", "diff", "build"}, cfg : Configs]
    /\ registry \in Configs
    /\ versions \in Nat
    /\ holder \in [ver : Nat, cfg : Configs]

(* Nothing that failed to load is ever current, queued or applied to the   *)
(* registry, and nothing that failed to build is ever served, whatever the *)
(* file goes through ("keeping current config", "keeping current           *)
(* runtime").                                                              *)
ServedIsVetted ==
    /\ current \in Loads /\ registry \in Loads
    /\ \A i \in 1 .. Len(ch) : ch[i] \in Loads
    /\ holder.cfg \in Servable

(* Nothing is on its way from the file to the registry.                    *)
Quiescent ==
    /\ \A l \in Loaders : loader[l].pc = "idle"
    /\ ch = <<>>
    /\ reloader.pc = "idle"

(* Once nothing is on its way, the registry is that of the current config, *)
(* unless the latest send was lost or the latest load overlapped another:  *)
(* these two are all that lets what is applied fall behind what is loaded, *)
(* however many loads there are (watch, ForceReload, fanOut, applyReload). *)
QuiescentAgreement ==
    (Quiescent /\ dropped = "no" /\ ~overlap) => registry = current

(* Between reloads the registry is that of the served runtime, or else of  *)
(* a config that failed to build: applyReload changes the registry before  *)
(* it builds and does not undo it.  Nothing else lets them drift apart.    *)
RegistryAheadOnFailure ==
    reloader.pc = "idle" => registry = holder.cfg \/ registry \in Unbuildable

(* Once the edits are over, a content that loads becomes Current(), unless *)
(* a rename has ended the watch or the latest loads overlapped.            *)
CurrentUnlessLost ==
    <>[](~watching \/ overlap \/ (file \in Loads => current = file))

(* Once the edits are over, a content that loads and builds is served; the *)
(* only ways to fail are a rename, overlapping loads and a lost send.      *)
ServedUnlessLost ==
    <>[](~watching \/ overlap \/ dropped # "no"
         \/ (file \in Servable => holder.cfg = file))

(* Once the edits are over, a content that loads becomes Current()         *)
(* (loader.go:17-19 on editors that rename, :84 on a valid new config).    *)
(* The code does not keep this: the watch is lost with the first rename,   *)
(* and of two loads that overlap the one that read first may store last.   *)
LoadedCatchesUp == <>[](file \in Loads => current = file)

(* The subscriber ends up with the latest config although sends to a full  *)
(* channel are dropped (loader.go:57-60, "the subscriber's next read will  *)
(* still process the latest config").  The code does not keep this: the    *)
(* channel holds the older config, and there may be no next reload.        *)
LatestIsProcessed ==
    <>[](dropped = "early" \/ (current \in Servable => holder.cfg = current))
=============================================================================
