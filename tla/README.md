# A TLA+ development of gtk-session-lock

gtk-session-lock is a C library that lets a GTK 3 program lock a Wayland session
(`ext-session-lock-v1`) and show its windows as lock surfaces. This directory holds a model of
it in TLA+, the TLC configurations that check the model, and theorems that TLAPS proves.

## 1. The system

| Component | State | Operations | Modelled in |
|---|---|---|---|
| Session lock objects, `src/session-lock.c` | `lock_obj` of every `GtkSessionLockLock`, the signals it emitted | prepare, `lock`, `destroy`, `unlock_and_destroy`, `new_surface`, unref; handlers of `locked`, `finished` | `SessionLock`, `LockSurface` |
| The protocol and the compositor, `protocol/ext-session-lock-v1.xml` | record of each object, who holds the session, protocol errors | grant, deny, revoke, the destructors, disconnection, configure | `SessionLock`, `LockSurface` |
| Lock surfaces, `src/lock-surface.c` | `LockSurface`: monitor, copy of `lock_obj`, `lock_surface`, `first_commit_done`, size | new, map, unmap, finalize; handler of `configure` | `LockSurface` |
| Custom shell surfaces, `src/custom-shell-surface.c` | the struct attached to a window, its signal handlers, the mark on its `GdkWindow` | init (of a new, realized or mapped window), realize, map, window destroyed; `needs_commit` and `remap` have no caller in the library | `LockSurface` |
| Public API, `src/api.c` | none | `unmap_lock_window`, queries | `LockSurface`; the queries that initialise the library: `Registry` |
| Wayland registry, `src/gtk-wayland.c` | `has_initialized`, the registry and manager globals | initialisation by a round trip, `global`, `global_remove` | `Registry` |
| GDK private access, `src/gtk-priv-access.c` | one version id per header, the flag of the warning | `gdk_window_set_priv_mapped`, the version checks of `gtk-priv/h` | `PrivAccess` |
| Generated private headers, `gtk-priv/h` | none | definitions of ten GDK structs, `get_version_id`, accessors | `PrivHeaders` (the tables), `PrivAccess` (what is done with them) |
| gtk-priv generator, `gtk-priv/scripts` | per struct, the list of its versions | order of versions, merging of equal struct layouts, generated lookup and accessors | `GtkPriv` |
| Example application, `examples` | none | lock, unlock, sync, quit | as the documented application |
| Test harness, `test` | a scripted compositor and a log checker | - | not modelled |

The parts talk in three ways. The application calls the library and gets GObject signals back.
The library writes requests into the connection and its handlers are called when the GTK main
loop (or a blocking `gdk_display_sync`) dispatches events; both directions are FIFO and are
flushed asynchronously. GTK calls the library through the `realize`, `map` and `destroy` signals
of the windows. There is one thread: an interleaving is an order of calls, of dispatched events
and of what the compositor does on the other side of two queues.

### What is hard here

* Which destructor of a lock is legal depends on what the compositor decided; the application
  knows only what it has been told, and further events may be on the wire.
* `finished` may follow `locked`, at any time, and races with an unlock in flight.
* Requests are only queued; a program that ends too early loses its unlock and leaves the session
  locked for good.
* The library keeps pointers without references: the listener to its GObject, the lock surface to
  the lock's proxy, the handlers of a window to its struct.
* A lock surface must not get a buffer before its first `configure` was acked, nor a frame of
  another size than the last one acked; drawing is held back by freezing the `GdkWindow`, and the
  freeze has to be balanced over map, configure, unmap, hide and map again.
* GDK may attach a buffer to a new wl_surface before the library gives it its role, which the
  compositor would reject; the library attaches a null buffer first.
* The first call blocks in a round trip that dispatches other events, whose handlers may call the
  library again while it is not yet initialised.
* The headers the library reads private GTK structs with are generated: equal versions are merged
  over several rounds, and the C code must pick the right one for the GTK that is running, in ten
  headers that each decide for themselves and embed each other's structs. A wrong choice overwrites
  something else in GDK and reports nothing.
* A window may be shown before it is prepared, or prepared when it is realized or mapped already;
  GDK must not have given its surface a role by then.

`PROJECT.json` lists each of these at its line, with the properties that cover it.

## 2. The modules

`SessionLock` - the locks, the connection, the compositor. One action per entry point
(`PrepareLock`, `Lock`, `Destroy`, `UnlockAndDestroy`, `Unref`), per handler (`HandleLocked`,
`HandleFinished`) and per thing the compositor may do (`Grant`, `Deny`, `Revoke`, `HandleDestroy`,
`HandleUnlock`, `HandleSync`, `Hangup`, `OtherLocks`, `OtherUnlocks`). The guards of the library's
actions are the checks of the C code and nothing more. What applications do is stated apart:

* `AnyApp` calls the functions of the header in any order on objects it owns (`AnySpec`); it does not
  write the GObject property `lock-obj`, which would overwrite the pointer from outside;
* `DocumentedApp` follows README.md, steps 4 to 13, and the header (`Spec`): a lock is locked once
  and cannot be reused, is unlocked only after `locked`, is destroyed only after `finished` without
  `locked`, and the process exits after a sync and without active locks. It may crash at any
  time. That its reference is dropped only once it has no protocol object is an assumption of the
  model: no document says so, and the class has no `dispose` that would see to it.

`toServer` and `toClient` are the two directions of the connection, `proxy` and `listener` the
client's half of each protocol object, `res` the compositor's. `signals` records what each lock
told the application, `emitted` how many emissions that took: a signal told twice changes the second
only. `PrepareLock` returns NULL when no manager is bound; whether one is, is decided in `Registry`
and left open here. A denied lock, a granted one, one taken back, one destroyed and one whose
client died while it held the session are the states of `res`. libwayland is modelled by what it
does: events of a destroyed proxy are dropped, a request on one that does not exist is an error,
and a protocol error ends the process. A handler that runs on a freed GObject either crashes or
goes unnoticed.

`LockService` - what a lock is without pointers and messages: `idle`, `asked`, `refused`, `held`,
`taken`, `over` or `stranded`, one owner of the session, and what the application was told.
`LockRefinement` maps `SessionLock` to it: the phase of a lock is read off the compositor's record
of the one protocol object it ever had. `MCLockSurface` puts it next to `LockSurface`: the
service knows nothing of surfaces, and must be implemented beside them.

`LockSurface` extends `SessionLock` with windows, the `LockSurface` structs attached to them
(`st`, `data`), the wl_surface and lock surface object of every showing (`slot`, `role`), the
freeze count of the `GdkWindow` (`freeze`), the last frame (`painted`, `cur`), and whether GDK was told
to keep its own role off the window (`marked`, `xdg`), and whether a buffer is attached to the surface (`buf`). `NewSurface`,
`Realize`, `Show`, `Unmap`, `Hide`, `DestroyWindow` and `HandleConfigure` are the operations and
handlers; `Map` is `lock_surface_map`. `Show` lets GDK attach a buffer to the new surface or not;
`Detached` is the null attach in the `map` handler of a lock window. `Paint` is the frame clock of GDK. The size a configure asks
for is identified with its serial. A `role` records the lock it was asked from: the one surface per
monitor that the protocol allows is one of this lock (`Covered`). Three kinds of application again: documented
(`SurfaceSpec`), careless in two ways no document warns of (`CarelessSurfaceSpec`), arbitrary
(`AnySurfaceSpec`). The arbitrary one also shows windows that are no lock windows, and prepares
windows that are mapped already, for which `custom_shell_surface_init` gives up and the struct that
its caller allocated is nobody's. The compositor rejects `get_lock_surface` on a surface that has a
role of GDK's (`role`) or a buffer (`already_constructed`). The documented application hides a window
only once its wl_surface has no lock surface (README.md puts `unmap_lock_window` before the hiding);
the arbitrary one hides as it likes.

`Registry` - how the library finds the lock manager. `StartInit` and `Return` are
`gtk_wayland_init_if_needed` before and after its blocking round trip; `Call` makes it from the
main loop, `HandleOutput` (a GDK handler that runs application code) from inside another round
trip. `waiting` is the stack of round trips, of which only the innermost can return, and `fired`
the callbacks that have run. The compositor offers, withdraws and offers again. A bind of a manager
withdrawn meanwhile succeeds and is inert, as with compositors that use `wl_global_remove`.

`GtkPriv` - the generator of the private headers: the versions found in the GTK repository
(`version.py`), `Update` per version, `SimplifyStruct` per struct and `EndRound` per round of
`Project.simplify`; `VersionId` and `Accessor` are what the generated C computes. A struct's text
is one of a few values, with the structs it embeds by value kept apart, since only those are
printed by a name that merging changes. `Sorted` is the order that sorting by `Less` gives the versions,
`Merging` one pass over the versions of a struct.

`PrivHeaders` - the ten generated headers as tables: for each struct the definitions it had, the
releases each is valid for, its members in order and the structs embedded by value; the comparisons
of `get_version_id`; the accessors with the ids they work for. A definition is written as the
difference to the one before it. Members that are not embedded structs take one cell each: an
accessor reaches the right member if the cell is the same, so two definitions differ here when a
member was added, removed, moved or changed its type, which is when the headers distinguish them.

`PrivAccess` - one process under one release of GTK: `Map` ends with `gdk_window_set_priv_mapped`,
which chooses an id in two headers (`TakeIds`), warns of an unknown release (`Warn`) or aborts on an
unsupported one (`MapFails`), reads `impl` of the `GdkWindow` and sets the `mapped` bit of what it
points to. `Query` is the first use of a header by any of its accessors; of those of the other eight headers the
library calls none, so it stands for the generated code (`emit_get_version_id_fn`) and not for a
caller. Where the bit lands is compared with the
definition the running release has (`Real`); of a release no header is valid for nothing is known,
and the bit may land anywhere. `Real` is the header's own declaration for that release: the properties
find a wrong choice among the definitions, not a definition that differs from GTK's source, which
is outside the repository. The tables are parameters, with four assumptions on
them (`TablesHaveTypes`, `TablesAgree`, `PartsAreInStep`, `AccessorsAreDeclared`) that
`MCPrivAccess` has TLC evaluate on the real ones.

`MCSessionLock`, `MCLockSurface`, `MCGtkPriv`, `MCPrivAccess` - symmetry sets and instances for TLC.
`SessionLockProofs`, `LockServiceProofs`, `LockRefinementProofs`, `LockSurfaceProofs`,
`DocumentedSurfaceProofs`, `RegistryProofs`, `PrivAccessProofs`, `GtkPrivProofs` - theorems.

Operators whose comment starts with `mutant:` are alternative bodies of the definition they stand
next to, each with one plausible mistake; no specification uses them. They are there to show that
each property fails when the code is wrong in that way.

## 3. The runs

| Run | Question | Result |
|---|---|---|
| `lock_documented` | With a documented application and any compositor: is the protocol kept, is what is signalled true, told once and nothing after `finished`, is no handler run on freed memory, can a held session always be unlocked, is a session stranded only by a crash, does no answer get lost that somebody waits for, is every step a step of `LockService` and do its invariants hold? Is every `lock()` answered, does every unlock open the session, does the sync before exit return? | yes |
| `lock_any` | With any order of calls: is `lock_obj` always NULL or the live proxy that reports to this lock, and a destructor the last request on its object? | yes |
| `lock_finished_doc` | README.md, step 6: does `finished` mean that the session could not be locked? | no (finding) |
| `surface_windows` | Two windows on two monitors, with or without a buffer of GDK's on their new surfaces: protocol kept, each struct freed exactly when its window is destroyed? | yes |
| `surface_reshow` | A window shown, unmapped, hidden and shown again, configures crossing on the wire: protocol kept, the window frozen once by each showing and thawed by the first configure only, no showing left with the lock surface of an earlier one, nothing lost that it waits for, its first showing displayed in the last size asked for? And beside surfaces, do the locks still implement `LockService`? | yes |
| `surface_any` | Any order of calls, two structs for one window, windows prepared late: does a configure ever reach a freed struct, or a lock window's surface have another role, or a buffer, when its lock surface is asked for? | no, never |
| `surface_frozen` | Is every showing displayed, not only the first? | no (finding) |
| `surface_stale_lock` | Is a window only ever mapped on a live lock, as the assertion in `lock_surface_map` wants? | no (finding) |
| `surface_reuse` | Does a struct live as long as its window, whatever the application does? | no (finding) |
| `registry` | Nested first calls, a manager that comes late or is replaced: do the calls return, is an initialised library up to date, is no unknown version bound? | yes |
| `priv_access` | On every release of GTK, known, too old or too new: is the id chosen that of the definition in force, is only the `mapped` bit written and is it right, do the headers agree on what they embed, do all accessors reach their member or give up, is an unknown release noticed and an unsupported one left alone? | yes |
| `gtk_priv` | For every history of three nested structs: are versions in order, is the layout picked that of the running GTK, are neighbouring ids different, do accessors touch only members that are there? | yes |

### Findings

* `finished` after `locked` is passed on like any other, but README.md reads it as "could not be
  locked" and advises `destroy`, which is then a fatal protocol error.
* `lock_surface_map` freezes the window at every map; the thaw in `lock_surface_handle_configure`
  is guarded by `first_commit_done`, which nothing resets. The documented unmap and hide followed
  by another show leaves the window frozen for good.
* The assertion in `lock_surface_map` tests a copy of `lock_obj` that the destructors do not clear.
* A second `new_surface` on a window frees the first struct while its handlers stay connected.

### Bounds

Two locks are enough for a lock to be asked for while another is granted, refused or in flight;
`lock_any` has a third protocol object so that a lock can be locked again while the first object
is still in use. The queues are unbounded: they stay finite because each lock is locked once, or
the ids run out. `Ids`, `MaxShows` and `MaxConfigures` bound the showings of windows and the
configures of a surface: two showings make an unmapped surface's configures cross the second
mapping, two configures make an ack stale. Outputs do not come and go. `LockSurface` leaves out
crashes, syncs other than the one before exit, and other clients that lock while this one is
connected, all of which `SessionLock` covers.
Calls made from inside a handler during a blocking sync are not modelled.

`MaxInits` is one more than `MaxOutputs`, so that every handler that may start a registry can;
two announcements are a manager and its replacement. In `gtk_priv` three structs, each embedding
the next, listed in the order in which merging needs most rounds, go through all assignments of two
texts to up to four versions; the repositories have releases around 3.24.19, the one left out, and
outside the supported range. The texts differ in a member's type and in a member.

`priv_access` runs on every release of the headers, on 3.24.19, on later ones and on ones that are
too old, with two windows and, next to the two headers the library uses, up to two more
(`MaxQueries`): enough for every pair of headers to meet in either order.

Deadlock is checked in every run of the locks and surfaces; a client that has ended leaves
`OtherLocks` and `OtherUnlocks` enabled. It is not checked for `Registry`, whose environment is
used up by its bounds (that calls return is a liveness property), nor for `PrivAccess`, whose process
may abort, nor for the generator, which ends.

### Fairness

`FairSpec` assumes what the scheduling gives: the main loop (or the blocking sync) keeps
dispatching, the compositor keeps reading requests and notices a closed connection, each as weak
fairness since nothing disables them. `FairSurfaceSpec` adds the frame clock. Nothing is assumed
of the application, of other clients, or of the compositor's policy: it need never grant a lock.
`Registry` assumes the same dispatching and reading, and that a round trip returns once its
callback has run. Where `LockSurface` states no fairness its runs check safety only.

## 4. What is proved

`SessionLockProofs`, from `ConstantsAssumption` only (null and "other" are no locks or objects),
for every set of locks and of objects:

* `TypeCorrect`: `AnySpec => []TypeOK`, by induction over the actions.
* `HandlesAreSound`: `AnySpec => []HandleIntegrity`. `HandleIntegrity` speaks of the order of
  requests in the queue and does not say why a destructor cannot be sent twice; `HandleInv` adds
  that nothing was sent on an object without a proxy and no destructor while the proxy is live.

Also in `SessionLockProofs`, from the same assumption, about a documented application (`Spec`):

* `ProtocolIsKept` (`NoProtocolError`), `ListenersAreAlive` (`ListenerIsAlive`),
  `LockedSignalIsTrue` (`LockedIsTrue`), `HeldSessionsAreUnlockable` (`Unlockable`),
  `ExitsLeaveNoLock` (`StrandedOnlyByCrash`) and `NothingAfterFinished` (`FinishedIsLast`). The last
  is an action property over the count of emissions (`emitted`): a step either emits nothing, or
  emits one signal that had not been emitted, on a lock that has not told `finished`.

* `AnswersAreDue` (`AnswerIsDue`): while a lock has not been told anything, and while a sync blocks,
  the request or its answer is on the wire. It is what `LockIsAnswered` and `SyncReturns` need
  besides fairness.

None of the seven is inductive. A destructor is legal because of what the compositor decided before
it was called, which the application knows only through a signal, that is, through an event that
was in a queue in between. `LockInv` follows one protocol object all along this way. Its parts:

* `Ownership` - each live proxy belongs to exactly one live lock, whose `lock_obj` it is; a lock
  without one has never been locked or has destroyed its object.
* `EventsOrdered`, `RecordMatchesWire(o)` - the compositor's record of an object decides what is
  queued in both directions: a `lock` request unread means no record, a granted object has at most
  one `locked` under way, a revoked one `finished` behind it, a destructor is the last request.
* `SignalsMatchRecord(o)` - what was told, with what is still queued, is what was decided. Hence
  `locked` among the signals means the object was granted (so `unlock_and_destroy` is legal
  whatever happens meanwhile), and `finished` without `locked` means it was denied.
* `HolderMatchesRecord` - the holder is the one object recorded as `locked`.
* `SyncInv` - behind an unanswered sync there are no requests, so a process that exits after one
  has no request that could be lost (`ExitsLeaveNoLock`); while it is unanswered it is on the wire
  in one direction or the other.

Each lemma takes one action and shows the parts it can disturb; `LockStep` puts them together, and
each theorem follows from `LockInvHolds` by a short step of its own. The lemmas name the kinds of
message that are a lock's and leave the queues free to hold others, so that they serve
`DocumentedSurfaceProofs` as well, where surfaces share the wire.

`LockServiceProofs`: `ServiceKeepsItsPromise`, `Spec => []ServiceInv` for the abstract service, from
`HoldersDiffer` (which `ConstantsAssumption` implies for the instance in `LockRefinement`).

`LockRefinementProofs`, from `ConstantsAssumption`:

* `TheServiceIsImplemented` (`ImplementsService`): with a documented application every step maps to
  a step of `LockService` or changes nothing of it. Under `LockInv` an object belongs to one lock
  and a lock has one object (`TheObject`), so a step that changes one record of `res` moves one
  phase (`OneMoves`); then one lemma per kind of step.
* `TheServiceIsKept` (`ServiceInvariant`): the service's invariant as one of the implementation.
  `LockInv` speaks of live proxies only; `ToldMatchesRecord` extends what it says of signals to
  objects destroyed already, and `HeldOnline` says that a client that is gone holds nothing.
* `TheServiceIsImplementedWithSurfaces` and `TheServiceIsKeptWithSurfaces`: the same two of
  `SurfaceSpec`, from `SurfaceConstants` as well. A step of the locks among surfaces is a step of
  `SessionLock`; every other one - a window's, a surface's, the compositor's answer to one - leaves
  all that the mapping reads alone (`SurfacesPassBy`), which takes `DocumentedInv`: a surface request
  that were rejected would end the client, and with it its locks.

`LockSurfaceProofs`, from `ConstantsAssumption` and `SurfaceConstants` (numbered structs and surfaces,
finitely many surfaces, null none of them and no monitor or window), for any number of windows, monitors, structs, showings and configures:

* `SurfaceTypes` (`SurfaceTypeOK`), `SurfaceListenersAreAlive` (`SurfaceListenerIsAlive`) and
  `SurfacesAreBlank` (`SurfaceIsBlank`), for any order of calls (`AnySurfaceSpec`). The last two hold
  because a struct and its lock surface point at each other (`Backed`, `Owned`) until both pointers
  are cut at once, by `lock_surface_unmap` or by the finalizer (`UnmappingKeeps`); a struct attached
  to a window is alive and the window's own (`Attached`); and a realized window with a struct is
  marked, whichever came first (`MarkedInTime`), and loses any buffer before it gets its lock surface. `SurfaceInv` is their conjunction, and each lemma
  takes one operation, handler or answer of the compositor.
* `FreezesAreBalanced` (`FrozenUntilConfigured`), for a documented application and any number of
  showings: a mapped window has been frozen once by each showing and thawed once, if its struct has
  seen a configure. For one that is shown once this says that it is frozen exactly until its first
  configure; for one that is shown again, that it stays frozen (the finding on `WindowIsShown`).
  `ShowingInv` counts freezes over the whole life of a window, mapped or not (`Balanced`), and adds that a
  window has one live struct and a lock surface is a showing of its struct's window (`OneStruct`,
  `OwnWindow`), so that the configure that thaws is the window's, and that only a mapped window has a
  lock surface (`UnmappedBefore`), so that no show passes without a freeze.
* `SurfacesAreCurrent` (`ShownSurfaceIsCurrent`), part of the same induction: the struct of a shown
  window points to the lock surface of its present wl_surface or to none. `lock_surface_map` returns
  at once when it finds a pointer, so this is why no later showing stays without a role. It rests on
  the application hiding no window whose lock surface is still there (`HiddenUnmapped`).

`DocumentedSurfaceProofs`, from the same two assumptions, about a documented application with its
windows (`SurfaceSpec`), for any number of locks, windows, monitors, showings and configures:

* `SurfaceProtocolIsKept` (`NoSurfaceProtocolError`): neither the lock's protocol nor that of its
  surfaces is ever violated, whether or not GDK attaches buffers to new surfaces: `GetIsLegal` takes
  from `SurfaceIsBlank` that neither `role` nor `already_constructed` is posted.
* `LockedIsTrueWithSurfaces`, `UnlockableWithSurfaces`, `LocksEndWellWithSurfaces`,
  `AnswersAreDueWithSurfaces`, `NothingAfterFinishedWithSurfaces`: what `SessionLockProofs` shows of the locks holds when
  surfaces use the same connection.
* `StructsOutliveWindows` (`LivesAsLongAsWindow`): a struct is freed if and only if its window is
  destroyed. That none is left over takes `OneStruct`: the one struct a window has is the one
  attached to it, which is what the destruction finalizes. `CarelessSurfaceSpec` violates this (a finding), so it rests
  on the documented application preparing each window once.
* `FramesAreDue` (`FrameIsDue`): a mapped window whose lock holds the session, and that is not
  displayed in the size asked for last, has a request, a configure or a frame of its surface on the
  wire, or a frame to draw; and at its first showing nothing keeps it from drawing. It is what
  `FirstShowing` needs besides fairness, and for later showings it names the freeze as the only
  thing that can go wrong.

Whether a surface's request is legal when it is read depends on all that was sent before it.
`DocumentedInv` speaks of positions on the wire (`At`, `Due`) and relates them to the proxies on one
side and to the compositor's records on the other. Its parts, next to `LockInv` and `SurfaceInv`:

* `Shape` - a struct has its lock and monitor to itself, only the latest of its surfaces can be
  alive, and a mapped window shows a surface of its struct.
* `Turns` - a monitor's surface is given up on the wire before the next one is asked for
  (`EndsFirst`), and the next one does not hold the monitor until then (`NextWaits`). Without it
  `duplicate_output` could not be excluded for a window that is unmapped and shown again.
* `GetsInLock` - a surface is asked for between its lock's own two requests, so its lock exists when
  it is read.
* `Serials` - acks are in the order of the configures they answer, and new to the compositor.
* `Frames` - no frame is on the wire before the first ack, nor one of another size than the ack
  before it (`CommitsDue`), and a window that GDK may draw has acked its size (`Thawed`).

The invariant is shifted as messages are added behind and taken in front: one lemma per kind of
message for each part (`TurnsGet`, `SerialsAck`, `FramesCommit`, ...), then one per action.

`FramesAreDue` needs more, for `DocumentedInv` says what may be on the wire and not what must be.
`DueInv`, one lemma per action again, follows a surface from one end to the other: until the
compositor has read of a live surface it is being asked for, until its struct has the size sent last
the configure with that size is on its way (`Pending`, `UpToDate`), and the last frame drawn is the
last commit on the wire or is what is shown (`FramesLast`). An inert surface is one of a lock that
was denied or revoked, and a lock once refused is never granted (`LocksAnswerOnce`). With
`ShowingInv` on the freezes, `FrameIsDue` follows by going down this chain.

`RegistryProofs`, from `RegistryConstants`, for any number of registries, managers, monitors and any
nesting of round trips:

* `RegistryTypes` (`RegistryTypeOK`) and `TheManagerIsCurrent` (`ManagerIsCurrent`). The invariant
  `RegistryInv` says why a `done` is enough: every sync in the queue has a registry request before it
  or the compositor has read one already (`RegistryFirst`), so whoever sees a callback fired is
  known to the compositor (`KnownOnceDone`); announcements arrive in the order of their names
  (`InOrder`), so none that is late overwrites a newer manager; and the manager on offer is held or
  on the wire (`HeldOrAnnounced`).

`PrivAccessProofs`, from the four assumptions on the tables, for every set of headers and releases
that satisfies them:

* `AccessTypes` (`TypeOK`), `TheRightDefinition` (`IdIsInForce`), `NothingIsDamaged`
  (`GdkDataIsIntact`), `GdkKnowsMapped` (`MappedIsKnown`), `UnknownGtkIsNoticed` (`UnknownIsNoticed`),
  `OldGtkIsSafe` (`OldGtkIsUntouched`). The assumptions relate the two accounts a header gives of its
  versions, the comparisons and the comments; `NewIdIsInForce` is the lemma that the comparisons then
  pick the definition in force, and `AccessInv` adds to the theorems that an id once taken was taken
  by `NewVersionId` for a supported release, and that the warning flag was raised for every header
  that does not know the release.
* `AccessorsReachMembers` (`AccessorsFit`): `AccessorsAreDeclared` compares an accessor with the
  definitions of its header, one by one, without a running GTK; that the accessor then reaches its
  member, or gives up, in the GTK that runs follows from `NewIdIsInForce`.
* `HeadersAgree` (`PartsAgree`): each header takes its id on its own, at any time.
  `PartsAreInStep` says that a definition names the one of an embedded struct that begins no
  later and ends no earlier; by their comparisons both headers then choose matching ids on any
  release, whichever is used first, also on one no header is valid for.

`GtkPrivProofs`, from `StructsAreFinite` and `ReleasesAreNumbered`, for every history of releases and
branches and any structs that embed each other without a cycle:

* `VersionsAreInOrder` (`VersionsInOrder`), `RightLayoutIsPicked` (`PicksTheRightLayout`),
  `NoVersionIsNeedless` (`NoNeedlessVersion`), `AccessorsOnlyTouchMembers` (`AccessorsAreSound`).

`GenInv` holds throughout the generator's run: versions are listed in the order the generated C
compares them; the ranges of a struct's versions follow each other without a gap (`Chain`); a range
has one layout from its first version to its last (`Honest`), embedded structs included, whatever
their names are by then; and a struct passed in a round that has changed nothing so far has
neighbours that differ (`Settled`), so that the round that changes nothing proves them all. From
`Chain`, `VersionIdFinds` shows that the chain of comparisons finds the range of a release;
`EmittedIsLayout` that the struct printed for it is the one this release had; `NeighboursDiffer` that
two neighbouring ids could not have been one; `AccessorIs` that an accessor reads a member only under
ids whose struct has it.

Where the argument is an induction - on the number of versions, on the length of a list, on the depth
to which structs are embedded - it takes the smallest counterexample (`Smallest`, from the
well-foundedness of the natural numbers), because the library's induction theorems need an operator
as a parameter, which the installed provers cannot instantiate. That recursive functions such as
`Layout` have a value that satisfies their defining equation is proved the same way (`HaveRows`,
`LayoutUnfolds`, `EmittedUnfolds`, `MergingUnfolds`).

## 5. What is only model-checked

Liveness (`LockIsAnswered`, `UnlockTakesEffect`, `SyncReturns`, `FirstShowing`, `InitReturns`), which
needs fairness and `ENABLED`, is out of the provers' reach. What is proved of it is that nothing these
wait for gets lost (`AnswersAreDue`, `HeldSessionsAreUnlockable`, `FramesAreDue`). The assumptions on
the tables that the theorems of `PrivAccessProofs` start from are evaluated by TLC on the ten
real headers, in the run `priv_access`. Every other property of a passing run is a theorem.

## 6. What is not modelled

* The types of members of private GTK structs: each takes one cell (see `PrivHeaders`), so padding
  and the width of a bit field are the compiler's.
* The parser of C declarations and the layout of the generated text; an error in them ends the
  script before it writes anything.
* `null_buffer`, the error of a commit without a buffer on a lock surface: the only commits modelled
  are those of frames, to which GDK has just attached a buffer (`Paint`); the library's null attach
  is not committed by it.
* The GObject property `lock-obj`, which is writable: an application that sets it replaces the
  pointer the library works with.
* That a reference dropped while the lock is active leaves a listener on freed memory, and that a
  second `lock()` loses the first object: both happen whenever an application does it, so there is
  nothing to check. `AnyApp` does both; the documented application does neither.
* Monitors that are unplugged while a window waits to be mapped on them, sizes beyond 31 bits, and
  calls the application makes from a handler that runs inside `gdk_display_sync`.
* The example application beyond its lock and unlock, the mock compositor and the test runner.
* Getters that read one field, GObject boilerplate, build files, packaging.

## 7. What could follow

All the parts of the library are modelled, and all that the runs check of safety is proved. What
would add to it:

1. Outputs that come and go in `LockSurface`, with the monitor pointer of a struct.
2. The log checker of the test runner (`verify_result`) and the scripted compositor, against the
   protocol rules of `SessionLock`.
