-------------------------- MODULE ItemDialogProofs --------------------------
(***************************************************************************)
(* The safety properties of ItemDialog for any number of handlers in       *)
(* flight, objects, camera requests and failures.                          *)
(*                                                                         *)
(* What a handler may delete or save it read when it began.  Holding is    *)
(* when it still may; Owed and Kept relate what it read to what items and  *)
(* the dialog refer to.                                                    *)
(***************************************************************************)
EXTENDS ItemDialog, FiniteSetTheorems, TLAPS

UiType ==
    [open : BOOLEAN, loading : BOOLEAN, uploading : BOOLEAN,
     photo : Photos \cup {None}, uploaded : Photos \cup {None},
     preview : BOOLEAN, changed : BOOLEAN, camera : BOOLEAN,
     stream : Streams \cup {None}, ready : BOOLEAN, asking : BOOLEAN]

TaskType ==
    [kind : {"none", "file", "capture", "remove", "close", "submit"},
     pc : {"idle", "blob", "delete", "upload", "save"},
     path : Photos \cup {None}, photo : Photos \cup {None}, mine : BOOLEAN]

Active(t) == task[t].pc # "idle"
Holding(t) == task[t].pc \in {"blob", "delete", "save"}
Mine(t) == task[t].mine

(* A handler that does nothing is none.                                    *)
Named(tasks) == \A t \in Tasks : tasks[t].kind = "none" <=> tasks[t].pc = "idle"

(* What a handler is when it is where it is, and the flag of a submit.     *)
Doing ==
    /\ \A t \in Tasks :
        /\ task[t].pc = "blob" => task[t].kind = "capture"
        /\ task[t].pc = "upload" => task[t].kind \in {"file", "capture"}
        /\ task[t].pc = "save" => task[t].kind = "submit"
        /\ task[t].pc = "delete" => task[t].path # None
        /\ Mine(t) => Active(t)
        /\ Active(t) /\ mode = "edit" => Mine(t)
        /\ Mine(t) /\ mode = "create" => ui.open
        /\ Mine(t) /\ task[t].kind = "submit" => ui.loading
    /\ \A s, t \in Tasks :
        /\ task[s].kind = "submit" /\ Mine(s)
        /\ task[t].kind = "submit" /\ Mine(t)
        => s = t
    /\ ui.camera => ui.open

(* Objects are numbered as they are made.                                  *)
Numbered ==
    /\ \A p \in saved \cup store : p <= made
    /\ ui.photo <= made /\ ui.uploaded <= made
    /\ \A t \in Tasks : task[t].path <= made /\ task[t].photo <= made

(* The photo in the form is not the saved one.                             *)
Fresh == mode = "create" \/ ui.changed

(* What may yet be deleted is saved only at risk.                          *)
Owed ==
    /\ \A t \in Tasks : Holding(t) /\ task[t].path \in saved => task[t].path \in risked
    /\ ui.uploaded \in saved => ui.uploaded \in risked
    /\ Fresh /\ ui.photo \in saved => ui.photo \in risked
    /\ \A s, t \in Tasks :
        /\ s # t /\ Holding(s) /\ task[t].pc = "save"
        /\ task[t].photo # None /\ task[s].path = task[t].photo
        => task[t].photo \in risked

(* What is, or may be, submitted has its object.                           *)
Kept ==
    /\ ui.open /\ Fresh /\ ~ui.uploading /\ ui.photo # None =>
           ui.photo \in store \cup risked
    /\ \A t \in Tasks : task[t].pc = "save" /\ task[t].photo # None =>
           task[t].photo \in store \cup risked
    /\ \A t \in Tasks :
        /\ task[t].kind \in {"file", "capture"} /\ Mine(t)
        /\ task[t].pc = "delete" /\ task[t].path = ui.photo
        => ui.uploading \/ task[t].path \in risked

(* What an unmounted dialog left behind is not what the next one has.      *)
Apart ==
    \A t \in Tasks : Active(t) /\ ~Mine(t) =>
        \A p \in {task[t].path, task[t].photo} \ {None} :
            p # ui.photo /\ p # ui.uploaded

(* One handler at a time, and the form knows what it uploaded.             *)
Orderly ==
    calm =>
        /\ ui.uploaded # None => ui.photo = ui.uploaded /\ ui.changed
        /\ ~ui.open => ui.uploaded = None /\ Alone
        /\ \A s, t \in Tasks : Active(s) /\ Active(t) => s = t
        /\ \A t \in Tasks : Active(t) =>
            /\ Mine(t)
            /\ Holding(t) => task[t].path = ui.uploaded
            /\ task[t].pc = "upload" => ui.uploaded = None
            /\ task[t].pc = "save" /\ task[t].path # None =>
                   task[t].photo = task[t].path

Objects ==
    /\ Doing /\ Numbered /\ Owed /\ Kept /\ Apart /\ PhotoSafe
    /\ Orderly /\ NoObjectLeaked

Inv == TypeOK /\ Named(task) /\ Objects

-----------------------------------------------------------------------------
(* What the functions of the dialog do to its state *)

LEMMA CloseCameraUi ==
    ASSUME NEW u \in UiType
    PROVE  /\ CloseCamera(u) \in UiType
           /\ CloseCamera(u).stream = None
           /\ CloseCamera(u).camera = FALSE
           /\ CloseCamera(u).open = u.open
           /\ CloseCamera(u).loading = u.loading
           /\ CloseCamera(u).uploading = u.uploading
           /\ CloseCamera(u).photo = u.photo
           /\ CloseCamera(u).uploaded = u.uploaded
           /\ CloseCamera(u).changed = u.changed
  BY DEF CloseCamera, UiType, None

LEMMA OnCloseUi ==
    ASSUME NEW u \in UiType
    PROVE  /\ OnClose(u) \in UiType
           /\ mode = "create" => OnClose(u) = Unmounted
           /\ OnClose(u).open = FALSE
           /\ mode # "create" =>
                /\ OnClose(u).stream = u.stream
                /\ OnClose(u).camera = u.camera
                /\ OnClose(u).loading = u.loading
                /\ OnClose(u).uploading = u.uploading
                /\ OnClose(u).photo = u.photo
                /\ OnClose(u).uploaded = u.uploaded
                /\ OnClose(u).changed = u.changed
  BY DEF OnClose, Unmounted, UiType, None

LEMMA UnmountedUi ==
    /\ Unmounted \in UiType
    /\ Unmounted.stream = None
    /\ Unmounted.camera = FALSE
    /\ Unmounted.open = FALSE
    /\ Unmounted.loading = FALSE
    /\ Unmounted.uploading = FALSE
    /\ Unmounted.photo = None
    /\ Unmounted.uploaded = None
    /\ Unmounted.changed = FALSE
  BY DEF Unmounted, UiType, None

LEMMA ResetUi ==
    ASSUME NEW u \in UiType, NEW p \in Photos \cup {None}
    PROVE  /\ ResetToItem(u, p) \in UiType
           /\ ResetToItem(u, p).open = u.open
           /\ ResetToItem(u, p).stream = u.stream
           /\ ResetToItem(u, p).camera = u.camera
           /\ ResetToItem(u, p).loading = u.loading
           /\ ResetToItem(u, p).uploading = u.uploading
           /\ ResetToItem(u, p).photo = p
           /\ ResetToItem(u, p).uploaded = None
           /\ ResetToItem(u, p).changed = FALSE
  BY DEF ResetToItem, UiType, None

LEMMA RemovedUi ==
    ASSUME NEW u \in UiType
    PROVE  /\ Removed(u) \in UiType
           /\ Removed(u).open = u.open
           /\ Removed(u).stream = u.stream
           /\ Removed(u).camera = u.camera
           /\ Removed(u).loading = u.loading
           /\ Removed(u).uploading = u.uploading
           /\ Removed(u).photo = None
           /\ Removed(u).uploaded = u.uploaded
           /\ mode = "create" => Removed(u).changed = u.changed
           /\ mode # "create" => Removed(u).changed = TRUE
  BY DEF Removed, UiType, None

LEMMA UploadedUi ==
    ASSUME NEW u \in UiType, NEW p \in Photos
    PROVE  /\ UploadedPhoto(u, p) \in UiType
           /\ UploadedPhoto(u, p).open = u.open
           /\ UploadedPhoto(u, p).stream = u.stream
           /\ UploadedPhoto(u, p).camera = u.camera
           /\ UploadedPhoto(u, p).loading = u.loading
           /\ UploadedPhoto(u, p).uploading = FALSE
           /\ UploadedPhoto(u, p).photo = p
           /\ UploadedPhoto(u, p).uploaded = p
           /\ UploadedPhoto(u, p).changed = TRUE
  BY DEF UploadedPhoto, UiType, None

LEMMA UploadFailedUi ==
    ASSUME NEW u \in UiType
    PROVE  /\ UploadFailed(u) \in UiType
           /\ UploadFailed(u).open = u.open
           /\ UploadFailed(u).stream = u.stream
           /\ UploadFailed(u).camera = u.camera
           /\ UploadFailed(u).loading = u.loading
           /\ UploadFailed(u).uploading = FALSE
           /\ UploadFailed(u).photo = IF mode = "create" THEN None ELSE u.photo
           /\ UploadFailed(u).uploaded = u.uploaded
           /\ UploadFailed(u).changed = u.changed
  BY DEF UploadFailed, UiType, None

LEMMA CreateFailedUi ==
    ASSUME NEW u \in UiType
    PROVE  /\ CreateFailed(u) \in UiType
           /\ CreateFailed(u).open = u.open
           /\ CreateFailed(u).stream = u.stream
           /\ CreateFailed(u).camera = u.camera
           /\ CreateFailed(u).loading = FALSE
           /\ CreateFailed(u).uploading = u.uploading
           /\ CreateFailed(u).photo = None
           /\ CreateFailed(u).uploaded = u.uploaded
           /\ CreateFailed(u).changed = u.changed
  BY DEF CreateFailed, UiType, None

LEMMA FlagsUi ==
    ASSUME NEW u \in UiType, NEW b \in BOOLEAN
    PROVE  /\ [u EXCEPT !.open = b] \in UiType
           /\ [u EXCEPT !.loading = b] \in UiType
           /\ [u EXCEPT !.uploading = b] \in UiType
           /\ [u EXCEPT !.ready = b] \in UiType
           /\ [u EXCEPT !.uploaded = None] \in UiType
  BY DEF UiType, None

LEMMA CameraUi ==
    ASSUME NEW u \in UiType, NEW b \in BOOLEAN, NEW c \in BOOLEAN, NEW d \in BOOLEAN,
           NEW s \in Streams
    PROVE  /\ [u EXCEPT !.camera = b, !.ready = c] \in UiType
           /\ [u EXCEPT !.camera = b, !.ready = c, !.asking = d] \in UiType
           /\ [u EXCEPT !.camera = b, !.asking = c, !.ready = d] \in UiType
           /\ [u EXCEPT !.stream = s, !.asking = b] \in UiType
  BY DEF UiType, None

(* How handlers begin, go on and end.                                      *)
Handlers == {tasks \in [Tasks -> TaskType] : Named(tasks)}

LEMMA TaskUpdates ==
    ASSUME TypeOK, Named(task), NEW t \in Tasks
    PROVE  /\ task \in Handlers
           /\ End(t) \in Handlers
           /\ task[t].pc # "idle" => \A pc \in {"delete", "upload"} : Goto(t, pc) \in Handlers
           /\ \A kind \in {"file", "capture", "remove", "close", "submit"} :
                  \A pc \in {"blob", "delete", "upload", "save"} :
                      Begin(t, kind, pc) \in Handlers
  <1>1. task \in Handlers /\ End(t) \in Handlers
    BY DEF TypeOK, TaskType, NoTask, End, None, Handlers, Named
  <1>2. ASSUME task[t].pc # "idle", NEW pc \in {"delete", "upload"}
        PROVE  Goto(t, pc) \in Handlers
    BY <1>2 DEF TypeOK, TaskType, Goto, Handlers, Named
  <1>3. ASSUME NEW kind \in {"file", "capture", "remove", "close", "submit"},
               NEW pc \in {"blob", "delete", "upload", "save"}
        PROVE  Begin(t, kind, pc) \in Handlers
    BY DEF TypeOK, TaskType, Begin, Handlers, Named
  <1> QED
    BY <1>1, <1>2, <1>3

LEMMA RenderType ==
    ASSUME TypeOK, NEW u \in UiType, NEW ts \in Handlers, Render(u, ts)
    PROVE  /\ ui' \in UiType /\ task' \in Handlers
           /\ asks' \subseteq Streams /\ strays' \subseteq Streams
           /\ lit' \subseteq Streams /\ late' \in BOOLEAN
  <1>1. \A t \in Tasks : [ts[t] EXCEPT !.mine = FALSE] \in TaskType
    BY DEF TaskType, Handlers
  <1>2. task' \in Handlers
    BY <1>1 DEF Render, Handlers, Named, TaskType
  <1>3. lit' \subseteq Streams /\ asks' \subseteq Streams /\ strays' \subseteq Streams
    BY DEF TypeOK, Render, LightsOff
  <1>4. ui' = u /\ late' = (late /\ u.stream # None) /\ late \in BOOLEAN
    BY DEF TypeOK, Render
  <1> QED
    BY <1>2, <1>3, <1>4

(* The camera stays accounted for when a stream is kept or let go.         *)
LEMMA RenderCamera ==
    ASSUME TypeOK, CameraOffWhenClosed, NEW u \in UiType, NEW ts, Render(u, ts),
           u.stream # None => u.stream = ui.stream /\ u.camera = ui.camera
    PROVE  CameraOffWhenClosed'
  BY DEF TypeOK, UiType, CameraOffWhenClosed, Render, LightsOff

(* What an action renders: a dialog that keeps its stream or lets it go.   *)
KeepsStream(u) == u.stream # None => u.stream = ui.stream /\ u.camera = ui.camera

Renders ==
    \E u \in UiType, ts \in Handlers : Render(u, ts) /\ KeepsStream(u)

LEMMA HandlersNow == ASSUME TypeOK, Named(task) PROVE task \in Handlers
  BY DEF TypeOK, TaskType, Handlers

LEMMA ServedType == ASSUME TypeOK PROVE Served \in Photos \cup {None}
  BY DEF TypeOK, Served

LEMMA SetUi ==
    ASSUME TypeOK, NEW t \in Tasks, NEW u \in UiType, KeepsStream(u)
    PROVE  Set(t, u) \in UiType /\ KeepsStream(Set(t, u))
  BY DEF TypeOK, UiType, Set, KeepsStream

LEMMA CloseUi ==
    ASSUME NEW u \in UiType
    PROVE  /\ KeepsStream(u) => KeepsStream(OnClose(u))
           /\ CloseModal(u) \in UiType /\ KeepsStream(CloseModal(u))
  <1>1. KeepsStream(u) => KeepsStream(OnClose(u))
    BY OnCloseUi, UnmountedUi DEF KeepsStream
  <1>2. CloseCamera(u) \in UiType /\ CloseCamera(u).stream = None
    BY CloseCameraUi
  <1>3. OnClose(CloseCamera(u)) \in UiType /\ OnClose(CloseCamera(u)).stream = None
    BY <1>2, OnCloseUi, UnmountedUi
  <1> QED
    BY <1>1, <1>3 DEF CloseModal, KeepsStream

LEMMA FormRenders ==
    ASSUME TypeOK, Named(task), OpenDialog \/ ItemReloaded \/ CancelCamera
    PROVE  Renders
  <1>1. ui \in UiType
    BY DEF TypeOK, UiType
  <1>2. CASE OpenDialog
    <2> DEFINE u == IF mode = "create" THEN [Unmounted EXCEPT !.open = TRUE]
                    ELSE ResetToItem([ui EXCEPT !.open = TRUE], Served)
    <2>1. [Unmounted EXCEPT !.open = TRUE] \in UiType /\ [ui EXCEPT !.open = TRUE] \in UiType
      BY <1>1, UnmountedUi, FlagsUi
    <2>2. [Unmounted EXCEPT !.open = TRUE].stream = None
      BY DEF Unmounted
    <2>3. /\ [ui EXCEPT !.open = TRUE].stream = ui.stream
          /\ [ui EXCEPT !.open = TRUE].camera = ui.camera
      BY <1>1 DEF UiType
    <2>4. u \in UiType /\ KeepsStream(u)
      BY <2>1, <2>2, <2>3, ResetUi, ServedType DEF KeepsStream
    <2>5. Render(u, task) /\ task \in Handlers
      BY <1>2, HandlersNow DEF OpenDialog
    <2> QED
      BY <2>4, <2>5 DEF Renders
  <1>3. CASE ItemReloaded
    <2>1. ResetToItem(ui, Served) \in UiType /\ KeepsStream(ResetToItem(ui, Served))
      BY <1>1, ResetUi, ServedType DEF KeepsStream
    <2>2. Render(ResetToItem(ui, Served), task) /\ task \in Handlers
      BY <1>3, HandlersNow DEF ItemReloaded
    <2> QED
      BY <2>1, <2>2 DEF Renders
  <1>4. CASE CancelCamera
    <2>1. CloseCamera(ui) \in UiType /\ KeepsStream(CloseCamera(ui))
      BY <1>1, CloseCameraUi DEF KeepsStream
    <2>2. Render(CloseCamera(ui), task) /\ task \in Handlers
      BY <1>4, HandlersNow DEF CancelCamera
    <2> QED
      BY <2>1, <2>2 DEF Renders
  <1> QED
    BY <1>2, <1>3, <1>4

LEMMA HandlerRenders ==
    ASSUME TypeOK, Named(task), NEW t \in Tasks,
           \/ ChooseFile(t) \/ RemovePhoto(t) \/ HandleClose(t) \/ HandleSubmit(t)
           \/ CapturePhoto(t)
    PROVE  Renders
  <1>1. ui \in UiType /\ KeepsStream(ui) /\ task \in Handlers
    BY HandlersNow DEF TypeOK, UiType, KeepsStream
  <1>2. \A kind \in {"file", "capture", "remove", "close", "submit"} :
          \A pc \in {"blob", "delete", "upload", "save"} :
              Begin(t, kind, pc) \in Handlers
    BY TaskUpdates
  <1>3. CASE ChooseFile(t)
    <2>1. [ui EXCEPT !.uploading = TRUE] \in UiType
      BY <1>1, FlagsUi
    <2>2. KeepsStream([ui EXCEPT !.uploading = TRUE])
      BY <1>1 DEF KeepsStream, UiType
    <2>3. Render([ui EXCEPT !.uploading = TRUE],
                 Begin(t, "file", IF ui.uploaded = None THEN "upload" ELSE "delete"))
      BY <1>3 DEF ChooseFile
    <2>4. Begin(t, "file", IF ui.uploaded = None THEN "upload" ELSE "delete")
              \in Handlers
      BY <1>2
    <2> QED
      BY <2>1, <2>2, <2>3, <2>4 DEF Renders
  <1>4. CASE RemovePhoto(t)
    <2>1. Removed(ui) \in UiType /\ KeepsStream(Removed(ui))
      BY <1>1, RemovedUi DEF KeepsStream
    <2>2. Render(Removed(ui), task) \/ Render(ui, Begin(t, "remove", "delete"))
      BY <1>4 DEF RemovePhoto
    <2>3. Begin(t, "remove", "delete") \in Handlers
      BY <1>2
    <2> QED
      BY <1>1, <2>1, <2>2, <2>3 DEF Renders
  <1>5. CASE HandleClose(t)
    <2>1. CloseModal(ui) \in UiType /\ KeepsStream(CloseModal(ui))
      BY <1>1, CloseUi
    <2>2. Render(CloseModal(ui), task) \/ Render(ui, Begin(t, "close", "delete"))
      BY <1>5 DEF HandleClose
    <2>3. Begin(t, "close", "delete") \in Handlers
      BY <1>2
    <2> QED
      BY <1>1, <2>1, <2>2, <2>3 DEF Renders
  <1>6. CASE HandleSubmit(t)
    <2> DEFINE p == IF mode = "create" \/ ui.changed THEN ui.photo ELSE Served
               ts == [Begin(t, "submit", "save") EXCEPT ![t].photo = p]
    <2>1. [ui EXCEPT !.loading = TRUE] \in UiType
      BY <1>1, FlagsUi
    <2>2. KeepsStream([ui EXCEPT !.loading = TRUE])
      BY <1>1 DEF KeepsStream, UiType
    <2>3. p \in Photos \cup {None}
      BY <1>1, ServedType DEF UiType
    <2>4. Begin(t, "submit", "save") \in Handlers
      BY <1>2
    <2>5. ts \in Handlers
      <3> HIDE DEF p
      <3> QED
        BY <2>3, <2>4 DEF TaskType, Handlers, Named
    <2>6. Render([ui EXCEPT !.loading = TRUE], ts)
      BY <1>6 DEF HandleSubmit
    <2> QED
      BY <2>1, <2>2, <2>5, <2>6 DEF Renders
  <1>7. CASE CapturePhoto(t)
    <2>1. Render(ui, Begin(t, "capture", "blob"))
      BY <1>7 DEF CapturePhoto
    <2>2. Begin(t, "capture", "blob") \in Handlers
      BY <1>2
    <2> QED
      BY <1>1, <2>1, <2>2 DEF Renders
  <1> QED
    BY <1>3, <1>4, <1>5, <1>6, <1>7

LEMMA AfterDeleteRenders ==
    ASSUME TypeOK, Named(task), NEW t \in Tasks, task[t].pc = "delete",
           NEW u \in UiType, KeepsStream(u), AfterDelete(t, u)
    PROVE  Renders
  <1>1. End(t) \in Handlers /\ Goto(t, "upload") \in Handlers
    BY TaskUpdates
  <1>2. task[t].kind \in {"file", "capture", "remove", "close", "submit"}
    BY DEF TypeOK, Named
  <1>3. CASE task[t].kind \in {"file", "capture"}
    <2>1. Render(u, Goto(t, "upload"))
      BY <1>3 DEF AfterDelete
    <2> QED
      BY <1>1, <2>1 DEF Renders
  <1>4. CASE task[t].kind = "remove"
    <2>1. Render(Set(t, Removed(u)), End(t))
      BY <1>4 DEF AfterDelete
    <2>2. Removed(u) \in UiType /\ KeepsStream(Removed(u))
      BY RemovedUi DEF KeepsStream
    <2> QED
      BY <1>1, <2>1, <2>2, SetUi DEF Renders
  <1>5. CASE task[t].kind = "submit"
    <2>1. Render(Set(t, CreateFailed(u)), End(t))
      BY <1>5 DEF AfterDelete
    <2>2. CreateFailed(u) \in UiType /\ KeepsStream(CreateFailed(u))
      BY CreateFailedUi DEF KeepsStream
    <2> QED
      BY <1>1, <2>1, <2>2, SetUi DEF Renders
  <1>6. CASE task[t].kind = "close"
    <2> DEFINE v == Set(t, CloseCamera(u))
    <2>1. Render(OnClose(v), End(t))
      BY <1>6 DEF AfterDelete
    <2>2. CloseCamera(u) \in UiType /\ KeepsStream(CloseCamera(u))
      BY CloseCameraUi DEF KeepsStream
    <2>3. v \in UiType /\ KeepsStream(v)
      BY <2>2, SetUi
    <2>4. OnClose(v) \in UiType /\ KeepsStream(OnClose(v))
      <3> HIDE DEF v
      <3> QED
        BY <2>3, OnCloseUi, CloseUi
    <2> QED
      BY <1>1, <2>1, <2>4 DEF Renders
  <1> QED
    BY <1>2, <1>3, <1>4, <1>5, <1>6

LEMMA SubmitErrorRenders ==
    ASSUME TypeOK, Named(task), NEW t \in Tasks, task[t].pc = "save", SubmitError(t)
    PROVE  Renders
  <1>1. End(t) \in Handlers /\ Goto(t, "delete") \in Handlers
    BY TaskUpdates
  <1>2. ui \in UiType /\ KeepsStream(ui)
    BY DEF TypeOK, UiType, KeepsStream
  <1>3. [ui EXCEPT !.loading = FALSE] \in UiType
    BY <1>2, FlagsUi
  <1>4. KeepsStream([ui EXCEPT !.loading = FALSE])
    BY <1>2 DEF KeepsStream, UiType
  <1>5. CreateFailed(ui) \in UiType /\ KeepsStream(CreateFailed(ui))
    BY <1>2, CreateFailedUi DEF KeepsStream
  <1>6. Set(t, CreateFailed(ui)) \in UiType /\ KeepsStream(Set(t, CreateFailed(ui)))
    BY <1>5, SetUi
  <1>7. \/ Render([ui EXCEPT !.loading = FALSE], End(t))
        \/ Render(Set(t, CreateFailed(ui)), End(t))
        \/ Render(ui, Goto(t, "delete"))
    BY DEF SubmitError
  <1> QED
    BY <1>1, <1>2, <1>3, <1>4, <1>6, <1>7 DEF Renders

LEMMA AnswerRenders ==
    ASSUME TypeOK, Named(task), NEW t \in Tasks, Answer(t)
    PROVE  Renders
  <1>1. ui \in UiType /\ KeepsStream(ui)
    BY DEF TypeOK, UiType, KeepsStream
  <1>2. /\ task \in Handlers /\ End(t) \in Handlers
        /\ task[t].pc # "idle" => /\ Goto(t, "upload") \in Handlers
                                  /\ Goto(t, "delete") \in Handlers
    BY TaskUpdates
  <1>3. CASE Deleted(t)
    <2>1. [ui EXCEPT !.uploaded = None] \in UiType
      BY <1>1, FlagsUi
    <2>2. KeepsStream([ui EXCEPT !.uploaded = None])
      BY <1>1 DEF KeepsStream, UiType
    <2>3. /\ Set(t, [ui EXCEPT !.uploaded = None]) \in UiType
          /\ KeepsStream(Set(t, [ui EXCEPT !.uploaded = None]))
      BY <2>1, <2>2, SetUi
    <2>4. task[t].pc = "delete" /\ AfterDelete(t, Set(t, [ui EXCEPT !.uploaded = None]))
      BY <1>3 DEF Deleted
    <2> QED
      BY <2>3, <2>4, AfterDeleteRenders
  <1>4. CASE DeleteFails(t)
    BY <1>1, <1>4, AfterDeleteRenders DEF DeleteFails
  <1>5. CASE Uploaded(t)
    <2> DEFINE u == UploadedPhoto(ui, made + 1)
               v == IF task[t].kind = "capture" THEN CloseCamera(u) ELSE u
    <2>1. made + 1 \in Photos
      BY DEF TypeOK, Photos, None
    <2>2. u \in UiType /\ u.stream = ui.stream /\ u.camera = ui.camera
      BY <1>1, <2>1, UploadedUi
    <2>3. v \in UiType /\ KeepsStream(v)
      <3> HIDE DEF u
      <3> QED
        BY <2>2, CloseCameraUi DEF KeepsStream
    <2>4. Render(Set(t, v), End(t))
      BY <1>5 DEF Uploaded
    <2>5. Set(t, v) \in UiType /\ KeepsStream(Set(t, v))
      BY <2>3, SetUi
    <2> QED
      BY <1>2, <2>4, <2>5 DEF Renders
  <1>6. CASE UploadFails(t)
    <2>1. UploadFailed(ui) \in UiType /\ KeepsStream(UploadFailed(ui))
      BY <1>1, UploadFailedUi DEF KeepsStream
    <2>2. /\ Set(t, UploadFailed(ui)) \in UiType
          /\ KeepsStream(Set(t, UploadFailed(ui)))
      BY <2>1, SetUi
    <2>3. Render(Set(t, UploadFailed(ui)), End(t))
      BY <1>6 DEF UploadFails
    <2> QED
      BY <1>2, <2>2, <2>3 DEF Renders
  <1>7. CASE Submitted(t)
    <2> DEFINE u == IF mode = "create" THEN ui ELSE ResetToItem(ui, task[t].photo)
               v == [u EXCEPT !.loading = FALSE]
               w == Set(t, CloseCamera(v))
    <2>1. task[t].photo \in Photos \cup {None}
      BY DEF TypeOK
    <2>2. u \in UiType
      BY <1>1, <2>1, ResetUi
    <2>3. v \in UiType
      <3> HIDE DEF u
      <3> QED
        BY <2>2, FlagsUi
    <2>4. CloseCamera(v) \in UiType /\ KeepsStream(CloseCamera(v))
      <3> HIDE DEF v
      <3> QED
        BY <2>3, CloseCameraUi DEF KeepsStream
    <2>5. w \in UiType /\ KeepsStream(w)
      <3> HIDE DEF v
      <3> QED
        BY <2>4, SetUi
    <2>6. OnClose(w) \in UiType /\ KeepsStream(OnClose(w))
      <3> HIDE DEF w
      <3> QED
        BY <2>5, OnCloseUi, CloseUi
    <2>7. Render(OnClose(w), End(t))
      BY <1>7 DEF Submitted
    <2> HIDE DEF w
    <2> QED
      BY <1>2, <2>6, <2>7 DEF Renders
  <1>8. CASE SubmitRefused(t)
    BY <1>8, SubmitErrorRenders DEF SubmitRefused
  <1>9. CASE AnswerLost(t)
    BY <1>9, SubmitErrorRenders DEF AnswerLost
  <1>10. CASE BlobReady(t)
    <2>1. [ui EXCEPT !.uploading = TRUE] \in UiType
      BY <1>1, FlagsUi
    <2>2. KeepsStream([ui EXCEPT !.uploading = TRUE])
      BY <1>1 DEF KeepsStream, UiType
    <2>3. /\ Set(t, [ui EXCEPT !.uploading = TRUE]) \in UiType
          /\ KeepsStream(Set(t, [ui EXCEPT !.uploading = TRUE]))
      BY <2>1, <2>2, SetUi
    <2>4. task[t].pc = "blob"
      BY <1>10 DEF BlobReady
    <2>5. \/ Render(Set(t, [ui EXCEPT !.uploading = TRUE]),
                    Goto(t, IF task[t].path = None THEN "upload" ELSE "delete"))
          \/ Render(ui, End(t))
      BY <1>10 DEF BlobReady
    <2>6. Goto(t, IF task[t].path = None THEN "upload" ELSE "delete") \in Handlers
      BY <1>2, <2>4
    <2> QED
      BY <1>1, <1>2, <2>3, <2>5, <2>6 DEF Renders
  <1> QED
    BY <1>3, <1>4, <1>5, <1>6, <1>7, <1>8, <1>9, <1>10 DEF Answer

-----------------------------------------------------------------------------
(* Types, and the camera *)

Rendering ==
    \/ OpenDialog \/ ItemReloaded \/ CancelCamera
    \/ \E t \in Tasks : ChooseFile(t) \/ RemovePhoto(t) \/ HandleClose(t)
           \/ HandleSubmit(t) \/ CapturePhoto(t) \/ Answer(t)

CameraMoves ==
    \/ OpenCamera \/ PreviewStarts
    \/ \E s \in Streams : Granted(s) \/ GrantedLate(s) \/ Denied(s) \/ DeniedLate(s)

LEMMA RenderingRenders == ASSUME TypeOK, Named(task), Rendering PROVE Renders
  BY FormRenders, HandlerRenders, AnswerRenders DEF Rendering

LEMMA NextCases == Next => Rendering \/ CameraMoves
  BY DEF Next, Rendering, CameraMoves

(* What the handlers leave to the store, the items and the histories.      *)
RestType ==
    /\ mode \in Modes
    /\ asked \in 0 .. MaxAsks
    /\ made \in Nat
    /\ store \subseteq Photos /\ saved \subseteq Photos /\ risked \subseteq Photos
    /\ calm \in BOOLEAN
    /\ faults \in 0 .. MaxFaults

LEMMA TypeParts ==
    /\ TypeOK <=> /\ RestType /\ ui \in UiType /\ task \in [Tasks -> TaskType]
                  /\ asks \subseteq Streams /\ strays \subseteq Streams
                  /\ lit \subseteq Streams /\ late \in BOOLEAN
    /\ TypeOK' <=> /\ RestType' /\ ui' \in UiType /\ task' \in [Tasks -> TaskType]
                   /\ asks' \subseteq Streams /\ strays' \subseteq Streams
                   /\ lit' \subseteq Streams /\ late' \in BOOLEAN
  BY DEF TypeOK, RestType, UiType, TaskType

LEMMA FaultType == ASSUME TypeOK, Fault PROVE faults' \in 0 .. MaxFaults
  BY DialogAssumption DEF TypeOK, Fault

LEMMA AnswerRest ==
    ASSUME TypeOK, NEW t \in Tasks, Answer(t)
    PROVE  RestType'
  <1>1. /\ made + 1 \in Photos /\ made + 1 \in Nat
        /\ {task[t].photo} \ {None} \subseteq Photos
        /\ {ui.photo} \ {None} \subseteq Photos
    BY DEF TypeOK, Photos, None
  <1>2. CASE Deleted(t)
    BY <1>2 DEF Deleted, RestType, TypeOK
  <1>3. CASE DeleteFails(t)
    BY <1>3, FaultType DEF DeleteFails, RestType, TypeOK
  <1>4. CASE Uploaded(t)
    BY <1>1, <1>4 DEF Uploaded, RestType, TypeOK
  <1>5. CASE UploadFails(t)
    BY <1>1, <1>5, FaultType DEF UploadFails, RestType, TypeOK
  <1>6. CASE Submitted(t)
    BY <1>1, <1>6, FaultType DEF Submitted, Save, RestType, TypeOK
  <1>7. CASE SubmitRefused(t)
    BY <1>7 DEF SubmitRefused, storeVars, RestType, TypeOK
  <1>8. CASE AnswerLost(t)
    BY <1>1, <1>8, FaultType DEF AnswerLost, RestType, TypeOK
  <1>9. CASE BlobReady(t)
    BY <1>9 DEF BlobReady, storeVars, RestType, TypeOK
  <1> QED
    BY <1>2, <1>3, <1>4, <1>5, <1>6, <1>7, <1>8, <1>9 DEF Answer

LEMMA RenderingRest ==
    ASSUME TypeOK, Rendering
    PROVE  RestType'
  <1>1. CASE OpenDialog \/ ItemReloaded \/ CancelCamera
    BY <1>1 DEF TypeOK, RestType, OpenDialog, ItemReloaded, CancelCamera, storeVars
  <1>2. ASSUME NEW t \in Tasks,
               \/ ChooseFile(t) \/ RemovePhoto(t) \/ HandleClose(t) \/ CapturePhoto(t)
        PROVE  RestType'
    BY <1>2 DEF TypeOK, RestType, ChooseFile, RemovePhoto, HandleClose, CapturePhoto,
                storeVars
  <1>3. ASSUME NEW t \in Tasks, HandleSubmit(t) PROVE RestType'
    <2>1. {ui.photo} \ {None} \subseteq Photos
      BY DEF TypeOK
    <2> QED
      BY <1>3, <2>1 DEF TypeOK, RestType, HandleSubmit, storeVars
  <1> QED
    BY <1>1, <1>2, <1>3, AnswerRest DEF Rendering

LEMMA CameraType ==
    ASSUME TypeOK, CameraMoves
    PROVE  TypeOK' /\ task' = task
  <1>1. ui \in UiType
    BY DEF TypeOK, UiType
  <1>2. CASE OpenCamera
    <2>1. CASE ui.stream # None
      <3>1. Render([ui EXCEPT !.camera = TRUE, !.ready = FALSE], task)
        BY <1>2, <2>1 DEF OpenCamera
      <3>2. [ui EXCEPT !.camera = TRUE, !.ready = FALSE] \in UiType
        BY <1>1 DEF UiType
      <3>3. ~Left([ui EXCEPT !.camera = TRUE, !.ready = FALSE])
        BY <1>1 DEF Left, UiType
      <3>4. /\ ui' \in UiType /\ task' = task /\ asks' = asks /\ strays' = strays
            /\ lit' \subseteq lit /\ late' \in BOOLEAN
        BY <3>1, <3>2, <3>3 DEF Render, LightsOff
      <3>5. RestType'
        BY <1>2, <2>1 DEF OpenCamera, storeVars, RestType, TypeOK
      <3> QED
        BY <3>4, <3>5, TypeParts
    <2>2. CASE ui.stream = None
      <3>1. [ui EXCEPT !.camera = TRUE, !.ready = FALSE, !.asking = TRUE] \in UiType
        BY <1>1 DEF UiType
      <3>2. /\ ui' \in UiType /\ task' = task /\ strays' = strays
            /\ lit' = lit /\ late' = late /\ asks' = asks \cup {asked + 1}
        BY <1>2, <2>2, <3>1 DEF OpenCamera
      <3>3. asked + 1 \in Streams
        BY <1>2, <2>2, DialogAssumption DEF OpenCamera, Streams, TypeOK
      <3>4. RestType'
        BY <1>2, <2>2, DialogAssumption DEF OpenCamera, storeVars, RestType, TypeOK
      <3> QED
        BY <3>2, <3>3, <3>4, TypeParts
    <2> QED
      BY <2>1, <2>2
  <1>3. CASE PreviewStarts
    <2>1. [ui EXCEPT !.ready = TRUE] \in UiType
      BY <1>1, FlagsUi
    <2> QED
      BY <1>3, <2>1, TypeParts DEF PreviewStarts, cameraVars, storeVars, RestType
  <1>4. ASSUME NEW s \in Streams, Granted(s)
        PROVE  TypeOK' /\ task' = task
    <2>1. [ui EXCEPT !.stream = s, !.asking = FALSE] \in UiType
      BY <1>1, CameraUi
    <2>2. ui.camera \in BOOLEAN
      BY <1>1 DEF UiType
    <2> QED
      BY <1>4, <2>1, <2>2, TypeParts DEF Granted, storeVars, RestType, LightsOff
  <1>5. ASSUME NEW s \in Streams, GrantedLate(s)
        PROVE  TypeOK' /\ task' = task
    BY <1>5, TypeParts DEF GrantedLate, cameraVars, storeVars, RestType
  <1>6. ASSUME NEW s \in Streams, Denied(s)
        PROVE  TypeOK' /\ task' = task
    <2>1. [ui EXCEPT !.camera = FALSE, !.asking = FALSE, !.ready = FALSE] \in UiType
      BY <1>1, CameraUi
    <2> QED
      BY <1>6, <2>1, TypeParts DEF Denied, storeVars, RestType
  <1>7. ASSUME NEW s \in Streams, DeniedLate(s)
        PROVE  TypeOK' /\ task' = task
    BY <1>7, TypeParts DEF DeniedLate, storeVars, RestType
  <1> QED
    BY <1>2, <1>3, <1>4, <1>5, <1>6, <1>7 DEF CameraMoves

(* A camera request, its answers and the preview.                          *)
LEMMA CameraSteps ==
    ASSUME TypeOK, CameraOffWhenClosed, CameraMoves
    PROVE  CameraOffWhenClosed'
  <1>1. ui \in UiType
    BY DEF TypeOK, UiType
  <1>2. CASE OpenCamera
    <2>1. CASE ui.stream # None
      <3> DEFINE u == [ui EXCEPT !.camera = TRUE, !.ready = FALSE]
      <3>1. Render(u, task)
        BY <1>2, <2>1 DEF OpenCamera
      <3>2. u.stream = ui.stream /\ u.camera = TRUE
        BY <1>1 DEF UiType
      <3>3. ui' = u /\ lit' = lit /\ strays \subseteq strays'
        BY <3>1, <3>2 DEF Render, LightsOff
      <3> QED
        BY <3>2, <3>3 DEF CameraOffWhenClosed
    <2>2. CASE ui.stream = None
      <3>1. ui' = [ui EXCEPT !.camera = TRUE, !.ready = FALSE, !.asking = TRUE]
        BY <1>2, <2>2 DEF OpenCamera
      <3>2. ui'.stream = None
        BY <1>1, <2>2, <3>1 DEF UiType
      <3> QED
        BY <1>2, <2>2, <3>2 DEF OpenCamera, CameraOffWhenClosed
    <2> QED
      BY <2>1, <2>2
  <1>3. CASE PreviewStarts
    <2>1. ui'.stream = ui.stream /\ ui'.camera = ui.camera
      BY <1>1, <1>3 DEF PreviewStarts, UiType
    <2> QED
      BY <1>3, <2>1 DEF PreviewStarts, cameraVars, CameraOffWhenClosed
  <1>4. ASSUME NEW s \in Streams, Granted(s)
        PROVE  CameraOffWhenClosed'
    <2>1. ui'.stream = s /\ ui'.camera = ui.camera
      BY <1>1, <1>4 DEF Granted, UiType
    <2>2. strays' = strays /\ late' = ~ui.camera /\ lit' = LightsOff(ui') \cup {s}
      BY <1>4 DEF Granted
    <2> QED
      BY <2>1, <2>2 DEF CameraOffWhenClosed, LightsOff
  <1>5. ASSUME NEW s \in Streams, GrantedLate(s)
        PROVE  CameraOffWhenClosed'
    BY <1>5 DEF GrantedLate, cameraVars, CameraOffWhenClosed
  <1>6. ASSUME NEW s \in Streams, Denied(s)
        PROVE  CameraOffWhenClosed'
    <2>1. ui'.stream = ui.stream
      BY <1>1, <1>6 DEF Denied, UiType
    <2> QED
      BY <1>6, <2>1 DEF Denied, CameraOffWhenClosed
  <1>7. ASSUME NEW s \in Streams, DeniedLate(s)
        PROVE  CameraOffWhenClosed'
    BY <1>7 DEF DeniedLate, CameraOffWhenClosed
  <1> QED
    BY <1>2, <1>3, <1>4, <1>5, <1>6, <1>7 DEF CameraMoves

LEMMA InitType == Init => TypeOK /\ Named(task) /\ CameraOffWhenClosed
  <1> SUFFICES ASSUME Init PROVE TypeOK /\ Named(task) /\ CameraOffWhenClosed
    OBVIOUS
  <1>1. saved \subseteq Photos /\ made \in Nat
    <2>1. saved = {} \/ saved = {1}
      BY DEF Init
    <2>2. Cardinality({}) = 0 /\ Cardinality({1}) = 1
      BY FS_EmptySet, FS_Singleton
    <2> QED
      BY <2>1, <2>2 DEF Init, Photos, None
  <1>2. ui \in UiType /\ ui.stream = None
    BY UnmountedUi DEF Init
  <1>3. NoTask \in TaskType /\ NoTask.kind = "none" /\ NoTask.pc = "idle"
    BY DEF NoTask, TaskType, None
  <1>4. task \in [Tasks -> TaskType] /\ Named(task)
    BY <1>3 DEF Init, Named
  <1>5. RestType
    BY <1>1, DialogAssumption DEF Init, RestType
  <1> QED
    BY <1>2, <1>4, <1>5, TypeParts DEF Init, CameraOffWhenClosed

LEMMA TypeStep ==
    ASSUME TypeOK, Named(task), [Next]_vars
    PROVE  TypeOK' /\ Named(task)'
  <1>1. CASE Rendering
    <2>1. PICK u \in UiType, ts \in Handlers : Render(u, ts)
      BY <1>1, RenderingRenders DEF Renders
    <2>2. /\ ui' \in UiType /\ task' \in Handlers
          /\ asks' \subseteq Streams /\ strays' \subseteq Streams
          /\ lit' \subseteq Streams /\ late' \in BOOLEAN
      BY <2>1, RenderType
    <2>3. RestType'
      BY <1>1, RenderingRest
    <2>4. task' \in [Tasks -> TaskType] /\ Named(task)'
      BY <2>2 DEF Handlers, Named
    <2> QED
      BY <2>2, <2>3, <2>4, TypeParts
  <1>2. CASE CameraMoves
    BY <1>2, CameraType DEF Named
  <1>3. CASE UNCHANGED vars
    BY <1>3 DEF vars, cameraVars, storeVars, TypeOK, Named
  <1> QED
    BY <1>1, <1>2, <1>3, NextCases

LEMMA CameraStep ==
    ASSUME TypeOK, Named(task), CameraOffWhenClosed, [Next]_vars
    PROVE  CameraOffWhenClosed'
  <1>1. CASE Rendering
    <2>1. PICK u \in UiType, ts \in Handlers : Render(u, ts) /\ KeepsStream(u)
      BY <1>1, RenderingRenders DEF Renders
    <2> QED
      BY <2>1, RenderCamera DEF KeepsStream
  <1>2. CASE CameraMoves
    BY <1>2, CameraSteps
  <1>3. CASE UNCHANGED vars
    BY <1>3 DEF vars, cameraVars, CameraOffWhenClosed
  <1> QED
    BY <1>1, <1>2, <1>3, NextCases

(* The state of the dialog, of the handlers in flight and of the camera is *)
(* what the code says it is, whatever is answered late.                    *)
THEOREM TypeCorrect == Spec => []TypeOK
  <1>1. TypeOK /\ Named(task) /\ [Next]_vars => (TypeOK /\ Named(task))'
    BY TypeStep
  <1> QED
    BY InitType, <1>1, PTL DEF Spec

(* The camera is on only for the stream that the dialog holds, or one that *)
(* an unmounted dialog was granted, for any number of requests.            *)
THEOREM CameraOff == Spec => []CameraOffWhenClosed
  <1> DEFINE I == TypeOK /\ Named(task) /\ CameraOffWhenClosed
  <1>1. I /\ [Next]_vars => I'
    BY TypeStep, CameraStep
  <1>2. Init => I
    BY InitType
  <1>3. I => CameraOffWhenClosed
    OBVIOUS
  <1> HIDE DEF I
  <1> QED
    BY <1>1, <1>2, <1>3, PTL DEF Spec

-----------------------------------------------------------------------------
(* What a step does to the handlers *)

Same(s) ==
    /\ task'[s].kind = task[s].kind /\ task'[s].pc = task[s].pc
    /\ task'[s].path = task[s].path /\ task'[s].photo = task[s].photo

Others(t, u) ==
    \A s \in Tasks \ {t} :
        /\ Same(s)
        /\ task'[s].mine => task[s].mine /\ ~Left(u)
        /\ task[s].mine => task'[s].mine \/ Left(u)

LEMMA RenderTask ==
    ASSUME TypeOK, NEW u \in UiType, NEW ts \in Handlers, Render(u, ts)
    PROVE  /\ ui' = u
           /\ \A s \in Tasks :
                /\ task'[s].kind = ts[s].kind /\ task'[s].pc = ts[s].pc
                /\ task'[s].path = ts[s].path /\ task'[s].photo = ts[s].photo
                /\ task'[s].mine => ts[s].mine /\ ~Left(u)
                /\ ts[s].mine => task'[s].mine \/ Left(u)
  <1>1. \A s \in Tasks : ts[s] \in TaskType
    BY DEF Handlers
  <1>2. CASE Left(u)
    BY <1>1, <1>2 DEF Render, TaskType
  <1>3. CASE ~Left(u)
    BY <1>1, <1>3 DEF Render, TaskType
  <1> QED
    BY <1>2, <1>3

LEMMA Stays ==
    ASSUME TypeOK, Named(task), NEW u \in UiType, Render(u, task)
    PROVE  /\ ui' = u
           /\ \A s \in Tasks :
                /\ Same(s)
                /\ task'[s].mine => task[s].mine /\ ~Left(u)
                /\ task[s].mine => task'[s].mine \/ Left(u)
  BY HandlersNow, RenderTask DEF Same

LEMMA Ends ==
    ASSUME TypeOK, Named(task), NEW t \in Tasks, NEW u \in UiType, Render(u, End(t))
    PROVE  /\ ui' = u
           /\ task'[t].kind = "none" /\ task'[t].pc = "idle"
           /\ task'[t].path = None /\ task'[t].photo = None /\ ~task'[t].mine
           /\ Others(t, u)
  <1>1. End(t) \in Handlers
    BY TaskUpdates
  <1>2. /\ \A s \in Tasks \ {t} : End(t)[s] = task[s]
        /\ End(t)[t] = NoTask
    BY DEF TypeOK, End
  <1>3. /\ NoTask.kind = "none" /\ NoTask.pc = "idle" /\ NoTask.path = None
        /\ NoTask.photo = None /\ ~NoTask.mine
    BY DEF NoTask
  <1> QED
    BY <1>1, <1>2, <1>3, RenderTask DEF Others, Same

LEMMA GoesOn ==
    ASSUME TypeOK, Named(task), NEW t \in Tasks, NEW u \in UiType,
           NEW pc \in {"delete", "upload"}, task[t].pc # "idle", Render(u, Goto(t, pc))
    PROVE  /\ ui' = u
           /\ task'[t].kind = task[t].kind /\ task'[t].pc = pc
           /\ task'[t].path = task[t].path /\ task'[t].photo = task[t].photo
           /\ task'[t].mine => task[t].mine /\ ~Left(u)
           /\ task[t].mine => task'[t].mine \/ Left(u)
           /\ Others(t, u)
  <1>1. Goto(t, pc) \in Handlers
    BY TaskUpdates
  <1>2. /\ \A s \in Tasks \ {t} : Goto(t, pc)[s] = task[s]
        /\ Goto(t, pc)[t] = [task[t] EXCEPT !.pc = pc]
    BY DEF TypeOK, Goto
  <1>3. task[t] \in TaskType
    BY DEF TypeOK, TaskType
  <1>4. /\ [task[t] EXCEPT !.pc = pc].kind = task[t].kind
        /\ [task[t] EXCEPT !.pc = pc].pc = pc
        /\ [task[t] EXCEPT !.pc = pc].path = task[t].path
        /\ [task[t] EXCEPT !.pc = pc].photo = task[t].photo
        /\ [task[t] EXCEPT !.pc = pc].mine <=> task[t].mine
    BY <1>3 DEF TaskType
  <1> DEFINE ts == Goto(t, pc)
  <1>5. /\ ui' = u
        /\ \A s \in Tasks :
             /\ task'[s].kind = ts[s].kind /\ task'[s].pc = ts[s].pc
             /\ task'[s].path = ts[s].path /\ task'[s].photo = ts[s].photo
             /\ task'[s].mine => ts[s].mine /\ ~Left(u)
             /\ ts[s].mine => task'[s].mine \/ Left(u)
    BY <1>1, RenderTask
  <1>6. Others(t, u)
    BY <1>2, <1>5 DEF Others, Same
  <1>7. ts[t].kind = task[t].kind /\ ts[t].pc = pc /\ ts[t].path = task[t].path
        /\ ts[t].photo = task[t].photo /\ (ts[t].mine <=> task[t].mine)
    BY <1>2, <1>4
  <1> HIDE DEF ts
  <1> QED
    BY <1>5, <1>6, <1>7

LEMMA Begins ==
    ASSUME TypeOK, Named(task), NEW t \in Tasks, NEW u \in UiType, u.open = ui.open,
           NEW kind \in {"file", "capture", "remove", "close", "submit"},
           NEW pc \in {"blob", "delete", "upload", "save"},
           Render(u, Begin(t, kind, pc))
    PROVE  /\ ui' = u
           /\ task'[t].kind = kind /\ task'[t].pc = pc
           /\ task'[t].path = ui.uploaded /\ task'[t].photo = ui.photo /\ task'[t].mine
           /\ Others(t, u)
  <1>1. Begin(t, kind, pc) \in Handlers
    BY TaskUpdates
  <1> DEFINE b == [kind |-> kind, pc |-> pc, path |-> ui.uploaded,
                   photo |-> ui.photo, mine |-> TRUE]
  <1>2. /\ \A s \in Tasks \ {t} : Begin(t, kind, pc)[s] = task[s]
        /\ Begin(t, kind, pc)[t] = b
    BY DEF TypeOK, Begin
  <1>3. /\ b.kind = kind /\ b.pc = pc /\ b.path = ui.uploaded /\ b.photo = ui.photo
        /\ b.mine
    OBVIOUS
  <1>4. ~Left(u)
    BY DEF Left
  <1> HIDE DEF b
  <1> QED
    BY <1>1, <1>2, <1>3, <1>4, RenderTask DEF Others, Same

LEMMA Submits ==
    ASSUME TypeOK, Named(task), NEW t \in Tasks, NEW u \in UiType, u.open = ui.open,
           NEW p \in Photos \cup {None},
           Render(u, [Begin(t, "submit", "save") EXCEPT ![t].photo = p])
    PROVE  /\ ui' = u
           /\ task'[t].kind = "submit" /\ task'[t].pc = "save"
           /\ task'[t].path = ui.uploaded /\ task'[t].photo = p /\ task'[t].mine
           /\ Others(t, u)
  <1> DEFINE b == [kind |-> "submit", pc |-> "save", path |-> ui.uploaded,
                   photo |-> ui.photo, mine |-> TRUE]
             ts == [Begin(t, "submit", "save") EXCEPT ![t].photo = p]
  <1>1. Begin(t, "submit", "save") \in Handlers
    BY TaskUpdates
  <1>2. ts \in Handlers
    BY <1>1 DEF TaskType, Handlers, Named
  <1>3. /\ \A s \in Tasks \ {t} : ts[s] = task[s]
        /\ ts[t] = [b EXCEPT !.photo = p]
    BY DEF TypeOK, Begin
  <1>4. /\ [b EXCEPT !.photo = p].kind = "submit" /\ [b EXCEPT !.photo = p].pc = "save"
        /\ [b EXCEPT !.photo = p].path = ui.uploaded /\ [b EXCEPT !.photo = p].photo = p
        /\ [b EXCEPT !.photo = p].mine
    OBVIOUS
  <1>5. ~Left(u)
    BY DEF Left
  <1>6. Render(u, ts)
    OBVIOUS
  <1> HIDE DEF b, ts
  <1>7. /\ ui' = u
        /\ \A s \in Tasks :
             /\ task'[s].kind = ts[s].kind /\ task'[s].pc = ts[s].pc
             /\ task'[s].path = ts[s].path /\ task'[s].photo = ts[s].photo
             /\ task'[s].mine => ts[s].mine /\ ~Left(u)
             /\ ts[s].mine => task'[s].mine \/ Left(u)
    BY <1>2, <1>6, RenderTask
  <1>8. Others(t, u)
    BY <1>3, <1>7 DEF Others, Same
  <1>9. /\ ts[t].kind = "submit" /\ ts[t].pc = "save" /\ ts[t].path = ui.uploaded
        /\ ts[t].photo = p /\ ts[t].mine
    BY <1>3, <1>4
  <1> QED
    BY <1>5, <1>7, <1>8, <1>9

-----------------------------------------------------------------------------
(* Objects: the steps that only move the camera *)

LEMMA InitObjects == Init => Objects
  <1> SUFFICES ASSUME Init PROVE Objects
    OBVIOUS
  <1>1. /\ ~ui.open /\ ~ui.camera /\ ui.photo = None /\ ui.uploaded = None
    BY UnmountedUi DEF Init
  <1>2. /\ NoTask.kind = "none" /\ NoTask.pc = "idle" /\ NoTask.path = None
        /\ NoTask.photo = None /\ ~NoTask.mine
    BY DEF NoTask
  <1>3. \A t \in Tasks : task[t] = NoTask
    BY DEF Init
  <1>4. store = saved /\ \A p \in saved : p <= made
    <2>1. saved = {} \/ saved = {1}
      BY DEF Init
    <2>2. Cardinality({}) = 0 /\ Cardinality({1}) = 1
      BY FS_EmptySet, FS_Singleton
    <2> QED
      BY <2>1, <2>2 DEF Init
  <1>5. made \in Nat
    BY InitType DEF TypeOK
  <1>6. Doing /\ Apart
    BY <1>1, <1>2, <1>3 DEF Doing, Apart, Active, Mine
  <1>7. Numbered
    BY <1>1, <1>2, <1>3, <1>4, <1>5 DEF Numbered, None
  <1>8. Owed /\ Kept /\ PhotoSafe
    <2>1. None \notin saved
      BY InitType DEF TypeOK, Photos, None
    <2> QED
      BY <1>1, <1>2, <1>3, <1>4, <2>1 DEF Owed, Kept, PhotoSafe, Holding
  <1>9. Orderly /\ NoObjectLeaked
    BY <1>1, <1>2, <1>3, <1>4 DEF Orderly, NoObjectLeaked, Alone, Active
  <1> QED
    BY <1>6, <1>7, <1>8, <1>9 DEF Objects

LEMMA QuietKeeps ==
    ASSUME Inv, UNCHANGED <<mode, task, store, made, saved, risked, calm>>,
           ui'.open = ui.open, ui'.loading = ui.loading, ui'.uploading = ui.uploading,
           ui'.photo = ui.photo, ui'.uploaded = ui.uploaded, ui'.changed = ui.changed,
           ui'.camera => ui'.open
    PROVE  Objects'
  <1>1. Doing'
    BY DEF Inv, Objects, Doing, Active, Mine
  <1>2. Numbered'
    BY DEF Inv, Objects, Numbered
  <1>3. Owed'
    BY DEF Inv, Objects, Owed, Holding, Fresh
  <1>4. Kept'
    BY DEF Inv, Objects, Kept, Fresh, Mine
  <1>5. Apart'
    BY DEF Inv, Objects, Apart, Active, Mine
  <1>6. PhotoSafe'
    BY DEF Inv, Objects, PhotoSafe
  <1>7. Orderly'
    BY DEF Inv, Objects, Orderly, Alone, Active, Mine, Holding
  <1>8. NoObjectLeaked'
    BY DEF Inv, Objects, NoObjectLeaked
  <1> QED
    BY <1>1, <1>2, <1>3, <1>4, <1>5, <1>6, <1>7, <1>8 DEF Objects

LEMMA QuietSteps ==
    ASSUME Inv, CameraMoves \/ CancelCamera \/ UNCHANGED vars
    PROVE  Objects'
  <1> DEFINE Form == /\ ui'.open = ui.open /\ ui'.loading = ui.loading
                     /\ ui'.uploading = ui.uploading /\ ui'.photo = ui.photo
                     /\ ui'.uploaded = ui.uploaded /\ ui'.changed = ui.changed
  <1>1. ui \in UiType /\ (ui.camera => ui.open)
    BY DEF Inv, Objects, Doing, TypeOK, UiType
  <1>2. CASE CancelCamera
    <2>1. Render(CloseCamera(ui), task)
      BY <1>2 DEF CancelCamera
    <2>2. /\ ui' = CloseCamera(ui)
          /\ Form /\ ~ui'.camera
      BY <1>1, <2>1, CloseCameraUi DEF Render
    <2>3. task' = task
      BY <1>1, <2>1, <2>2 DEF Render, Left
    <2> HIDE DEF Form
    <2>4. UNCHANGED <<mode, task, store, made, saved, risked, calm>>
      BY <1>2, <2>3 DEF CancelCamera, storeVars
    <2> USE DEF Form
    <2> QED
      BY <2>2, <2>4, QuietKeeps
  <1>3. CASE OpenCamera
    <2>1. ui.open
      BY <1>3 DEF OpenCamera, FormActive
    <2>2. UNCHANGED <<mode, task, store, made, saved, risked, calm>>
      BY <1>3, CameraType DEF Inv, CameraMoves, OpenCamera, storeVars
    <2>3. \/ ui' = [ui EXCEPT !.camera = TRUE, !.ready = FALSE]
          \/ ui' = [ui EXCEPT !.camera = TRUE, !.ready = FALSE, !.asking = TRUE]
      BY <1>3 DEF OpenCamera, Render
    <2>4. Form
      BY <1>1, <2>3 DEF UiType
    <2> QED
      BY <2>1, <2>2, <2>4, QuietKeeps
  <1>4. CASE PreviewStarts
    <2>1. Form /\ ui'.camera = ui.camera
      BY <1>1, <1>4 DEF PreviewStarts, UiType
    <2>2. UNCHANGED <<mode, task, store, made, saved, risked, calm>>
      BY <1>4 DEF PreviewStarts, storeVars
    <2> QED
      BY <1>1, <2>1, <2>2, QuietKeeps
  <1>5. ASSUME NEW s \in Streams, Granted(s)
        PROVE  Objects'
    <2>1. Form /\ ui'.camera = ui.camera
      BY <1>1, <1>5 DEF Granted, UiType
    <2>2. UNCHANGED <<mode, task, store, made, saved, risked, calm>>
      BY <1>5 DEF Granted, storeVars
    <2> QED
      BY <1>1, <2>1, <2>2, QuietKeeps
  <1>6. ASSUME NEW s \in Streams, Denied(s)
        PROVE  Objects'
    <2>1. ui' = [ui EXCEPT !.camera = FALSE, !.asking = FALSE, !.ready = FALSE]
      BY <1>6 DEF Denied
    <2>2. Form /\ ~ui'.camera
      BY <1>1, <2>1 DEF UiType
    <2>3. UNCHANGED <<mode, task, store, made, saved, risked, calm>>
      BY <1>6 DEF Denied, storeVars
    <2> QED
      BY <2>2, <2>3, QuietKeeps
  <1>7. CASE (\E s \in Streams : GrantedLate(s) \/ DeniedLate(s)) \/ UNCHANGED vars
    <2>1. UNCHANGED <<mode, ui, task, store, made, saved, risked, calm>>
      BY <1>7 DEF GrantedLate, DeniedLate, vars, storeVars
    <2> QED
      BY <1>1, <2>1, QuietKeeps
  <1> QED
    BY <1>2, <1>3, <1>4, <1>5, <1>6, <1>7 DEF CameraMoves

-----------------------------------------------------------------------------
(* Objects: the handlers that begin *)

LEMMA InvTypes ==
    ASSUME Inv
    PROVE  /\ ui \in UiType /\ task \in [Tasks -> TaskType]
           /\ made \in Nat /\ calm \in BOOLEAN
           /\ store \subseteq Photos /\ saved \subseteq Photos /\ risked \subseteq Photos
           /\ None \notin store /\ None \notin saved /\ None \notin risked
  BY DEF Inv, TypeOK, UiType, TaskType, Photos

(* A handler begins while the dialog is not busy: p is what it may save.   *)
LEMMA BeginKeeps ==
    ASSUME Inv, NEW t \in Tasks, NEW p \in Photos \cup {None}, task[t].pc = "idle",
           ui.open, ~ui.loading, ~ui.uploading,
           UNCHANGED <<mode, store, made, saved>>, risked \subseteq risked',
           calm' => calm /\ Alone,
           ui'.open, ui'.photo = ui.photo, ui'.uploaded = ui.uploaded,
           ui'.changed = ui.changed,
           Others(t, ui'), task'[t].mine,
           task'[t].kind # "none", task'[t].pc # "idle",
           task'[t].path = ui.uploaded, task'[t].photo = p, p <= made,
           task'[t].pc = "blob" => task'[t].kind = "capture",
           task'[t].pc = "upload" => task'[t].kind = "file" /\ ui.uploaded = None,
           task'[t].pc = "save" => task'[t].kind = "submit",
           task'[t].pc = "delete" => ui.uploaded # None,
           task'[t].kind = "submit" => ui'.loading,
           task'[t].kind = "file" => ui'.uploading,
           task'[t].kind = "capture" => task'[t].pc = "blob",
           task'[t].pc = "save" =>
               /\ p # None => p \in store \cup risked'
               /\ calm /\ ui.uploaded # None => p = ui.uploaded
               /\ \A s \in Tasks : Holding(s) /\ task[s].path = p /\ p # None => p \in risked'
    PROVE  Objects'
  <1>1. ~Left(ui')
    BY DEF Left
  <1>2. \A s \in Tasks \ {t} : Same(s) /\ (task'[s].mine <=> task[s].mine)
    BY <1>1 DEF Others
  <1>3. \A s \in Tasks : task[s].pc = "save" => ~task[s].mine
    BY DEF Inv, Objects, Doing, Mine
  <1>4. \A s \in Tasks : task[s].kind = "submit" => ~task[s].mine
    BY DEF Inv, Objects, Doing, Mine
  <1>5. Doing'
    BY <1>2, <1>4 DEF Inv, Objects, Doing, Active, Mine, Same
  <1>6. Numbered'
    BY <1>2 DEF Inv, Objects, Numbered, Same
  <1>7. Owed'
    <2>1. \A s \in Tasks : Holding(s)' /\ task'[s].path \in saved' => task'[s].path \in risked'
      BY <1>2 DEF Inv, Objects, Owed, Same, Holding
    <2>2. /\ ui'.uploaded \in saved' => ui'.uploaded \in risked'
          /\ Fresh' /\ ui'.photo \in saved' => ui'.photo \in risked'
      BY DEF Inv, Objects, Owed, Fresh
    <2>3. ASSUME NEW r \in Tasks, NEW s \in Tasks, r # s, Holding(r)', task'[s].pc = "save",
                 task'[s].photo # None, task'[r].path = task'[s].photo
          PROVE  task'[s].photo \in risked'
      <3>1. CASE r = t
        BY <2>3, <3>1, <1>2, <1>3 DEF Inv, Objects, Apart, Active, Mine, Same
      <3>2. CASE s = t
        BY <2>3, <3>2, <1>2 DEF Same, Holding
      <3>3. CASE r # t /\ s # t
        BY <2>3, <3>3, <1>2 DEF Inv, Objects, Owed, Same, Holding
      <3> QED
        BY <3>1, <3>2, <3>3
    <2> QED
      BY <2>1, <2>2, <2>3 DEF Owed
  <1>8. Kept'
    BY <1>2 DEF Inv, Objects, Kept, Same, Fresh, Mine
  <1>9. Apart'
    BY <1>2 DEF Inv, Objects, Apart, Same, Active, Mine
  <1>10. PhotoSafe'
    BY DEF Inv, Objects, PhotoSafe
  <1>11. Orderly' /\ NoObjectLeaked'
    BY <1>2 DEF Inv, Objects, Orderly, NoObjectLeaked, Alone, Active, Mine, Holding, Same
  <1> QED
    BY <1>5, <1>6, <1>7, <1>8, <1>9, <1>10, <1>11 DEF Objects

LEMMA ServedSaved ==
    ASSUME Inv
    PROVE  Served \in Photos \cup {None} /\ (Served = None \/ Served \in saved)
  BY ServedType DEF Inv, Served

LEMMA FileBegins ==
    ASSUME Inv, NEW t \in Tasks, ChooseFile(t)
    PROVE  Objects'
  <1> DEFINE u == [ui EXCEPT !.uploading = TRUE]
             pc == IF ui.uploaded = None THEN "upload" ELSE "delete"
  <1>1. /\ ui.open /\ ~ui.loading /\ ~ui.uploading /\ task[t].pc = "idle"
        /\ Render(u, Begin(t, "file", pc))
        /\ UNCHANGED <<mode, store, made, saved, risked>> /\ calm' = (calm /\ Alone)
    BY DEF ChooseFile, FormActive, IsBusy, Idle, storeVars
  <1>2. u \in UiType /\ u.open = ui.open /\ u.uploading /\ u.photo = ui.photo
        /\ u.uploaded = ui.uploaded /\ u.changed = ui.changed
    BY InvTypes DEF UiType
  <1>3. TypeOK /\ Named(task) /\ ui.photo \in Photos \cup {None} /\ ui.photo <= made
    BY InvTypes DEF Inv, Objects, Numbered, UiType
  <1>4. pc \in {"upload", "delete"} /\ (pc = "upload" <=> ui.uploaded = None)
    OBVIOUS
  <1> HIDE DEF u, pc
  <1>5. /\ ui' = u /\ Others(t, u)
        /\ task'[t].kind = "file" /\ task'[t].pc = pc
        /\ task'[t].path = ui.uploaded /\ task'[t].photo = ui.photo /\ task'[t].mine
    BY <1>1, <1>2, <1>3, <1>4, Begins
  <1> QED
    BY <1>1, <1>2, <1>3, <1>4, <1>5, BeginKeeps

LEMMA DeletionBegins ==
    ASSUME Inv, NEW t \in Tasks, NEW kind \in {"remove", "close"}, task[t].pc = "idle",
           ui.open, ~ui.loading, ~ui.uploading, ui.uploaded # None,
           Render(ui, Begin(t, kind, "delete")),
           UNCHANGED <<mode, store, made, saved, risked>>, calm' = (calm /\ Alone)
    PROVE  Objects'
  <1>1. TypeOK /\ Named(task) /\ ui \in UiType
        /\ ui.photo \in Photos \cup {None} /\ ui.photo <= made
    BY InvTypes DEF Inv, Objects, Numbered, UiType
  <1>2. /\ ui' = ui /\ Others(t, ui)
        /\ task'[t].kind = kind /\ task'[t].pc = "delete"
        /\ task'[t].path = ui.uploaded /\ task'[t].photo = ui.photo /\ task'[t].mine
    BY <1>1, Begins
  <1> QED
    BY <1>1, <1>2, BeginKeeps

LEMMA CaptureBegins ==
    ASSUME Inv, NEW t \in Tasks, CapturePhoto(t)
    PROVE  Objects'
  <1>1. /\ ui.open /\ ~ui.loading /\ ~ui.uploading /\ task[t].pc = "idle"
        /\ Render(ui, Begin(t, "capture", "blob"))
        /\ UNCHANGED <<mode, store, made, saved, risked>> /\ calm' = (calm /\ Alone)
    BY DEF CapturePhoto, IsBusy, Idle, storeVars, Inv, Objects, Doing
  <1>2. TypeOK /\ Named(task) /\ ui \in UiType
        /\ ui.photo \in Photos \cup {None} /\ ui.photo <= made
    BY InvTypes DEF Inv, Objects, Numbered, UiType
  <1>3. /\ ui' = ui /\ Others(t, ui)
        /\ task'[t].kind = "capture" /\ task'[t].pc = "blob"
        /\ task'[t].path = ui.uploaded /\ task'[t].photo = ui.photo /\ task'[t].mine
    BY <1>1, <1>2, Begins
  <1> QED
    BY <1>1, <1>2, <1>3, BeginKeeps

LEMMA SubmitBegins ==
    ASSUME Inv, NEW t \in Tasks, HandleSubmit(t)
    PROVE  Objects'
  <1> DEFINE u == [ui EXCEPT !.loading = TRUE]
             p == IF mode = "create" \/ ui.changed THEN ui.photo ELSE Served
  <1>1. /\ ui.open /\ ~ui.loading /\ ~ui.uploading /\ task[t].pc = "idle"
        /\ UNCHANGED <<mode, store, made, saved>> /\ calm' = (calm /\ Alone)
        /\ risked \subseteq risked'
    BY DEF HandleSubmit, FormActive, IsBusy, Idle, storeVars
  <1>2. Render(u, [Begin(t, "submit", "save") EXCEPT ![t].photo = p])
    BY DEF HandleSubmit
  <1>3. u \in UiType /\ u.open = ui.open /\ u.loading /\ u.photo = ui.photo
        /\ u.uploaded = ui.uploaded /\ u.changed = ui.changed
    BY InvTypes DEF UiType
  <1>4. /\ TypeOK /\ Named(task)
        /\ ui.photo \in Photos \cup {None} /\ ui.photo <= made
        /\ None \notin saved /\ made \in Nat
    BY InvTypes DEF Inv, Objects, Numbered, UiType
  <1>5. \/ Fresh /\ p = ui.photo
        \/ ~Fresh /\ p = Served
    BY DEF Fresh
  <1>6. p \in Photos \cup {None} /\ p <= made
    BY <1>4, <1>5, ServedSaved DEF Inv, Objects, Numbered, None
  <1>7. p # None => p \in store \cup risked'
    <2>1. CASE Fresh /\ p = ui.photo
      BY <1>1, <2>1 DEF Inv, Objects, Kept
    <2>2. CASE ~Fresh /\ p = Served
      BY <1>1, <2>2, ServedSaved DEF Inv, Objects, PhotoSafe
    <2> QED
      BY <1>5, <2>1, <2>2
  <1>8. calm /\ ui.uploaded # None => p = ui.uploaded
    BY <1>5 DEF Inv, Objects, Orderly, Fresh
  <1>9. ASSUME NEW s \in Tasks, Holding(s), task[s].path = p, p # None
        PROVE  p \in risked'
    <2>1. CASE p \in saved
      BY <1>1, <1>9, <2>1 DEF Inv, Objects, Owed
    <2>2. CASE p = ui.photo /\ task[s].pc \in {"blob", "delete"}
      BY <1>9, <2>2 DEF HandleSubmit
    <2>3. CASE p = ui.photo /\ task[s].pc = "save"
      BY <1>1, <1>9, <2>3 DEF Inv, Objects, Doing, Apart, Active, Mine
    <2> QED
      BY <1>5, <1>9, <2>1, <2>2, <2>3, ServedSaved DEF Holding
  <1> HIDE DEF u, p
  <1>10. /\ ui' = u /\ Others(t, u)
         /\ task'[t].kind = "submit" /\ task'[t].pc = "save"
         /\ task'[t].path = ui.uploaded /\ task'[t].photo = p /\ task'[t].mine
    BY <1>2, <1>3, <1>4, <1>6, Submits
  <1> QED
    BY <1>1, <1>3, <1>6, <1>7, <1>8, <1>9, <1>10, BeginKeeps

-----------------------------------------------------------------------------
(* Objects: the form without a handler *)

(* The edit dialog shows the item's photo again.                           *)
LEMMA ResetKeeps ==
    ASSUME Inv, mode = "edit", UNCHANGED <<mode, task, store, made, saved, risked>>,
           calm' => calm /\ ui.uploaded = None /\ Alone,
           ui'.open, ui'.loading = ui.loading, ui'.uploading = ui.uploading,
           ui'.photo = Served, ui'.uploaded = None, ~ui'.changed
    PROVE  Objects'
  <1>1. Doing'
    BY DEF Inv, Objects, Doing, Active, Mine
  <1>2. Numbered'
    BY ServedSaved, InvTypes DEF Inv, Objects, Numbered, None
  <1>3. Owed'
    BY InvTypes DEF Inv, Objects, Owed, Holding, Fresh
  <1>4. Kept'
    <2>1. \A t \in Tasks : task[t].pc = "delete" => task[t].path # None /\ Holding(t)
      BY DEF Inv, Objects, Doing, Holding
    <2> QED
      BY <2>1, ServedSaved DEF Inv, Objects, Kept, Owed, Fresh, Mine
  <1>5. Apart'
    BY <1>1 DEF Doing, Apart
  <1>6. PhotoSafe'
    BY DEF Inv, Objects, PhotoSafe
  <1>7. Orderly' /\ NoObjectLeaked'
    BY DEF Inv, Objects, Orderly, NoObjectLeaked, Alone, Active, Mine, Holding
  <1> QED
    BY <1>1, <1>2, <1>3, <1>4, <1>5, <1>6, <1>7 DEF Objects

LEMMA EditOrCreate == ASSUME Inv PROVE mode \in {"create", "edit"}
  BY DialogAssumption DEF Inv, TypeOK

LEMMA OpenKeeps ==
    ASSUME Inv, OpenDialog
    PROVE  Objects'
  <1>1. /\ ~ui.open /\ UNCHANGED <<mode, store, made, saved, risked, calm>>
        /\ ui \in UiType
    BY InvTypes DEF OpenDialog, storeVars
  <1>2. calm => ui.uploaded = None /\ Alone
    BY <1>1 DEF Inv, Objects, Orderly
  <1>3. CASE mode = "edit"
    <2> DEFINE v == [ui EXCEPT !.open = TRUE]
    <2>1. Render(ResetToItem(v, Served), task)
      BY <1>3 DEF OpenDialog
    <2>2. v \in UiType /\ v.open /\ v.loading = ui.loading /\ v.uploading = ui.uploading
      BY <1>1 DEF UiType
    <2>3. Served \in Photos \cup {None}
      BY ServedSaved
    <2> HIDE DEF v
    <2>4. task' = task
      BY <1>3, <2>1 DEF Render, Left
    <2>5. ui' = ResetToItem(v, Served)
      BY <2>1 DEF Render
    <2>6. /\ ui'.open /\ ui'.loading = ui.loading /\ ui'.uploading = ui.uploading
          /\ ui'.photo = Served /\ ui'.uploaded = None /\ ~ui'.changed
      BY <2>2, <2>3, <2>5, ResetUi
    <2> QED
      BY <1>1, <1>2, <1>3, <2>4, <2>6, ResetKeeps
  <1>4. CASE mode = "create"
    <2> DEFINE u == [Unmounted EXCEPT !.open = TRUE]
    <2>1. Render(u, task)
      BY <1>4 DEF OpenDialog
    <2>2. ui' = u /\ task' = task
      BY <1>1, <2>1 DEF Render, Left
    <2>3. ui'.open /\ ui'.photo = None /\ ui'.uploaded = None
      BY <2>2 DEF Unmounted
    <2>4. \A t \in Tasks : ~task[t].mine
      BY <1>1, <1>4 DEF Inv, Objects, Doing, Mine
    <2>5. Doing'
      BY <1>1, <2>2, <2>3, <2>4 DEF Inv, Objects, Doing, Active, Mine
    <2>6. Numbered'
      BY <1>1, <2>2, <2>3, InvTypes DEF Inv, Objects, Numbered, None
    <2>7. Owed'
      BY <1>1, <2>2, <2>3, InvTypes DEF Inv, Objects, Owed, Holding, Fresh
    <2>8. Kept'
      BY <1>1, <2>2, <2>3, <2>4 DEF Inv, Objects, Kept, Mine
    <2>9. Apart'
      BY <1>1, <2>2, <2>3 DEF Apart
    <2>10. PhotoSafe'
      BY <1>1 DEF Inv, Objects, PhotoSafe
    <2>11. Orderly' /\ NoObjectLeaked'
      BY <1>1, <1>2, <2>2, <2>3
         DEF Inv, Objects, Orderly, NoObjectLeaked, Alone, Active, Mine, Holding
    <2> QED
      BY <2>5, <2>6, <2>7, <2>8, <2>9, <2>10, <2>11 DEF Objects
  <1> QED
    BY <1>3, <1>4, EditOrCreate

LEMMA ReloadKeeps ==
    ASSUME Inv, ItemReloaded
    PROVE  Objects'
  <1>1. /\ mode = "edit" /\ ui.open /\ UNCHANGED <<mode, store, made, saved, risked>>
        /\ calm' = (calm /\ ui.uploaded = None /\ Alone)
        /\ Render(ResetToItem(ui, Served), task)
    BY DEF ItemReloaded, storeVars
  <1>2. ui \in UiType /\ Served \in Photos \cup {None}
    BY InvTypes, ServedSaved
  <1>3. ui' = ResetToItem(ui, Served) /\ task' = task
    BY <1>1 DEF Render, Left
  <1>4. /\ ui'.open /\ ui'.loading = ui.loading /\ ui'.uploading = ui.uploading
        /\ ui'.photo = Served /\ ui'.uploaded = None /\ ~ui'.changed
    BY <1>1, <1>2, <1>3, ResetUi
  <1> QED
    BY <1>1, <1>3, <1>4, ResetKeeps

LEMMA RemoveKeeps ==
    ASSUME Inv, NEW t \in Tasks, RemovePhoto(t)
    PROVE  Objects'
  <1>1. /\ ui.open /\ ~ui.loading /\ ~ui.uploading /\ task[t].pc = "idle"
        /\ UNCHANGED <<mode, store, made, saved, risked>> /\ calm' = (calm /\ Alone)
    BY DEF RemovePhoto, FormActive, IsBusy, Idle, storeVars
  <1>2. CASE ui.uploaded # None
    BY <1>1, <1>2, DeletionBegins DEF RemovePhoto
  <1>3. CASE ui.uploaded = None
    <2>1. Render(Removed(ui), task)
      BY <1>3 DEF RemovePhoto
    <2>2. /\ Removed(ui).open = ui.open /\ Removed(ui).loading = ui.loading
          /\ Removed(ui).uploading = ui.uploading /\ Removed(ui).camera = ui.camera
          /\ Removed(ui).photo = None /\ Removed(ui).uploaded = ui.uploaded
      BY InvTypes, RemovedUi
    <2>3. ui' = Removed(ui) /\ task' = task
      BY <1>1, <2>1, <2>2 DEF Render, Left
    <2>4. Doing'
      BY <1>1, <2>2, <2>3 DEF Inv, Objects, Doing, Active, Mine
    <2>5. Numbered'
      BY <1>1, <2>2, <2>3, InvTypes DEF Inv, Objects, Numbered, None
    <2>6. Owed'
      BY <1>1, <2>2, <2>3, InvTypes DEF Inv, Objects, Owed, Holding
    <2>7. Kept'
      BY <1>1, <2>2, <2>3 DEF Inv, Objects, Kept, Doing, Mine
    <2>8. Apart'
      BY <1>1, <2>2, <2>3 DEF Inv, Objects, Apart, Active, Mine
    <2>9. PhotoSafe'
      BY <1>1 DEF Inv, Objects, PhotoSafe
    <2>10. Orderly' /\ NoObjectLeaked'
      BY <1>1, <1>3, <2>2, <2>3
         DEF Inv, Objects, Orderly, NoObjectLeaked, Alone, Active, Mine, Holding
    <2> QED
      BY <2>4, <2>5, <2>6, <2>7, <2>8, <2>9, <2>10 DEF Objects
  <1> QED
    BY <1>2, <1>3

-----------------------------------------------------------------------------
(* Objects: the handlers that end *)

(* A handler ends, or has nothing to do, and nothing is uploaded, or saved *)
(* without risk.                                                           *)
LEMMA EndKeeps ==
    ASSUME Inv, NEW t \in Tasks, UNCHANGED <<mode, made>>, risked \subseteq risked',
           saved' \subseteq saved \cup risked', \A p \in saved' : p <= made,
           None \notin saved',
           \/ store' = store
           \/ mode = "edit" /\ task[t].pc = "save" /\ store' = store \ (saved \ saved')
           \/ /\ task[t].pc = "delete" /\ store' = store \ {task[t].path}
              /\ task[t].mine => ui'.photo = None \/ ~ui'.open,
           Others(t, ui'), task'[t].kind = "none", task'[t].pc = "idle", ~task'[t].mine,
           task'[t].path <= made, task'[t].photo <= made,
           ui'.open => ui.open, ui'.camera => ui'.open,
           \/ ui'.loading = ui.loading
           \/ task[t].kind = "submit" /\ task[t].mine
           \/ mode = "create" /\ ~ui'.open,
           ui'.uploading = ui.uploading \/ (mode = "create" /\ ~ui'.open),
           ui'.photo \in {ui.photo, None}, ui'.uploaded \in {ui.uploaded, None},
           Left(ui') => ui'.photo = None /\ ui'.uploaded = None,
           ui'.photo # None => ui'.changed = ui.changed,
           calm' =>
               /\ calm /\ saved' = saved
               /\ \A s \in Tasks \ {t} : task[s].pc = "idle"
               /\ \/ /\ ui'.uploaded = ui.uploaded /\ store' = store
                     /\ ui.uploaded # None => ui'.photo = ui.photo /\ ui'.changed = ui.changed
                  \/ ui'.uploaded = None /\ store' = store \ {ui.uploaded}
               /\ ~ui'.open => ui'.uploaded = None
    PROVE  Objects'
  <1>1. /\ made \in Nat /\ None \notin saved
        /\ \A s \in Tasks : task[s].pc = "delete" => task[s].path # None
    BY InvTypes DEF Inv, Objects, Doing
  <1>2. \A s \in Tasks : task'[s].mine => s # t /\ task[s].mine /\ ~Left(ui')
    BY DEF Others
  <1>3. Doing'
    <2>1. \A s \in Tasks : task'[s].mine /\ mode = "create" => ui'.open
      BY <1>2 DEF Inv, Objects, Doing, Mine, Left
    <2>2. \A s \in Tasks : task'[s].mine /\ task'[s].kind = "submit" => ui'.loading
      BY <1>2, <2>1 DEF Inv, Objects, Doing, Mine, Others, Same
    <2>3. \A s \in Tasks \ {t} : task[s].mine /\ mode # "create" => task'[s].mine
      BY DEF Others, Left
    <2> QED
      BY <1>2, <2>1, <2>2, <2>3, EditOrCreate
         DEF Inv, Objects, Doing, Active, Mine, Others, Same
  <1>4. Numbered'
    BY <1>1 DEF Inv, Objects, Numbered, Others, Same, None
  <1>5. Owed'
    BY <1>1 DEF Inv, Objects, Owed, Holding, Fresh, Others, Same
  <1>6. Kept'
    <2>1. ASSUME ui'.open, Fresh', ~ui'.uploading, ui'.photo # None
          PROVE  ui'.photo \in store' \cup risked'
      <3>1. ui.open /\ Fresh /\ ~ui.uploading /\ ui'.photo = ui.photo
        BY <2>1 DEF Fresh
      <3>2. ui.photo \in store \cup risked
        BY <2>1, <3>1 DEF Inv, Objects, Kept
      <3>3. ASSUME task[t].pc = "delete", ~task[t].mine
            PROVE  task[t].path # ui.photo
        BY <1>1, <3>3 DEF Inv, Objects, Apart, Active, Mine
      <3>4. ui.photo \in saved => ui.photo \in risked
        BY <3>1 DEF Inv, Objects, Owed
      <3> QED
        BY <2>1, <3>1, <3>2, <3>3, <3>4
    <2>2. ASSUME NEW s \in Tasks, task'[s].pc = "save", task'[s].photo # None
          PROVE  task'[s].photo \in store' \cup risked'
      <3>1. s # t /\ Same(s)
        BY <2>2 DEF Others
      <3>2. task[s].photo \in store \cup risked
        BY <2>2, <3>1 DEF Inv, Objects, Kept, Same
      <3>3. ASSUME task[t].pc = "delete", task[t].path = task[s].photo
            PROVE  task[s].photo \in risked
        BY <2>2, <3>1, <3>3 DEF Inv, Objects, Owed, Holding, Same
      <3>4. ~(mode = "edit" /\ task[t].pc = "save")
        BY <2>2, <3>1 DEF Inv, Objects, Doing, Active, Mine, Same
      <3> QED
        BY <3>1, <3>2, <3>3, <3>4 DEF Same
    <2>3. ASSUME NEW s \in Tasks, task'[s].kind \in {"file", "capture"}, task'[s].mine,
                 task'[s].pc = "delete", task'[s].path = ui'.photo
          PROVE  ui'.uploading \/ task'[s].path \in risked'
      <3>1. s # t /\ Same(s) /\ task[s].mine /\ ~Left(ui')
        BY <1>2, <2>3 DEF Others
      <3>2. ui'.photo = ui.photo
        BY <1>1, <2>3, <3>1 DEF Same
      <3>3. mode = "create" => ui'.open
        BY <3>1 DEF Inv, Objects, Doing, Mine, Left
      <3> QED
        BY <2>3, <3>1, <3>2, <3>3 DEF Inv, Objects, Kept, Mine, Same
    <2> QED
      BY <2>1, <2>2, <2>3 DEF Kept, Mine
  <1>7. Apart'
    <2>1. CASE Left(ui')
      BY <2>1 DEF Apart
    <2>2. CASE ~Left(ui')
      BY <2>2 DEF Inv, Objects, Apart, Active, Mine, Others, Same
    <2> QED
      BY <2>1, <2>2
  <1>8. PhotoSafe'
    BY DEF Inv, Objects, PhotoSafe, Owed, Holding
  <1>9. Orderly' /\ NoObjectLeaked'
    <2> SUFFICES ASSUME calm' PROVE Orderly' /\ NoObjectLeaked'
      BY DEF Orderly, NoObjectLeaked
    <2>1. \A s \in Tasks : task'[s].pc = "idle"
      BY DEF Others, Same
    <2>2. NoObjectLeaked'
      BY DEF Inv, Objects, NoObjectLeaked
    <2>3. ui'.uploaded # None => ui'.photo = ui'.uploaded /\ ui'.changed
      BY DEF Inv, Objects, Orderly
    <2> QED
      BY <2>1, <2>2, <2>3 DEF Orderly, Alone, Active, Holding
  <1> QED
    BY <1>3, <1>4, <1>5, <1>6, <1>7, <1>8, <1>9 DEF Objects

-----------------------------------------------------------------------------
(* Objects: the handlers that go on *)

LEMMA GoKeeps ==
    ASSUME Inv, NEW t \in Tasks, UNCHANGED <<mode, made>>, risked \subseteq risked',
           saved' \subseteq saved \cup risked', \A p \in saved' : p <= made,
           None \notin saved',
           \/ store' = store
           \/ task[t].pc = "delete" /\ store' = store \ {task[t].path},
           Others(t, ui'), task[t].pc # "idle", task'[t].kind = task[t].kind,
           task'[t].path = task[t].path, task'[t].photo = task[t].photo,
           task'[t].mine => task[t].mine,
           task[t].mine => task'[t].mine \/ Left(ui'),
           \/ /\ task'[t].pc = "upload" /\ task[t].kind \in {"file", "capture"}
           \/ /\ task'[t].pc = "delete" /\ task[t].pc \in {"blob", "save"}
              /\ task[t].path # None
              /\ task[t].pc = "blob" /\ task[t].mine => ui'.uploading,
           ui'.open = ui.open, ui'.camera => ui'.open, ui'.loading = ui.loading,
           ui.uploading => ui'.uploading, ui'.photo = ui.photo, ui'.changed = ui.changed,
           ui'.uploaded \in {ui.uploaded, None},
           calm' =>
               /\ calm /\ saved' = saved
               /\ \/ /\ ui'.uploaded = ui.uploaded /\ store' = store
                     /\ task'[t].pc = "upload" => ui.uploaded = None
                  \/ /\ ui'.uploaded = None /\ store' = store \ {ui.uploaded}
                     /\ task'[t].pc = "upload"
    PROVE  Objects'
  <1>1. /\ made \in Nat /\ None \notin saved
        /\ \A s \in Tasks : task[s].pc = "delete" => task[s].path # None
    BY InvTypes DEF Inv, Objects, Doing
  <1>2. ~Left(ui')
    BY DEF Left
  <1>3. /\ \A s \in Tasks \ {t} : Same(s)
        /\ \A s \in Tasks : task'[s].mine <=> task[s].mine
    BY <1>2 DEF Others
  <1>4. Doing'
    BY <1>3 DEF Inv, Objects, Doing, Active, Mine, Same
  <1>5. Numbered'
    BY <1>1, <1>3 DEF Inv, Objects, Numbered, Same, None
  <1>6. Owed'
    BY <1>1, <1>3 DEF Inv, Objects, Owed, Holding, Fresh, Same
  <1>7. Kept'
    <2>1. ASSUME ui'.open, Fresh', ~ui'.uploading, ui'.photo # None
          PROVE  ui'.photo \in store' \cup risked'
      <3>1. ui.open /\ Fresh /\ ~ui.uploading /\ ui'.photo = ui.photo
        BY <2>1 DEF Fresh
      <3>2. ui.photo \in store \cup risked
        BY <2>1, <3>1 DEF Inv, Objects, Kept
      <3>3. ASSUME task[t].pc = "delete", task[t].path = ui.photo
            PROVE  ui.photo \in risked
        <4>1. CASE task[t].mine
          BY <3>1, <3>3, <4>1 DEF Inv, Objects, Kept, Mine
        <4>2. CASE ~task[t].mine
          BY <1>1, <3>3, <4>2 DEF Inv, Objects, Apart, Active, Mine
        <4> QED
          BY <4>1, <4>2
      <3> QED
        BY <3>1, <3>2, <3>3
    <2>2. ASSUME NEW s \in Tasks, task'[s].pc = "save", task'[s].photo # None
          PROVE  task'[s].photo \in store' \cup risked'
      <3>1. s # t /\ Same(s)
        BY <2>2, <1>3
      <3>2. task[s].photo \in store \cup risked
        BY <2>2, <3>1 DEF Inv, Objects, Kept, Same
      <3>3. ASSUME task[t].pc = "delete", task[t].path = task[s].photo
            PROVE  task[s].photo \in risked
        BY <2>2, <3>1, <3>3 DEF Inv, Objects, Owed, Holding, Same
      <3> QED
        BY <3>1, <3>2, <3>3 DEF Same
    <2>3. ASSUME NEW s \in Tasks, task'[s].kind \in {"file", "capture"}, task'[s].mine,
                 task'[s].pc = "delete", task'[s].path = ui'.photo
          PROVE  ui'.uploading \/ task'[s].path \in risked'
      <3>1. CASE s = t
        BY <1>3, <2>3, <3>1 DEF Inv, Objects, Doing
      <3>2. CASE s # t
        BY <1>3, <2>3, <3>2 DEF Inv, Objects, Kept, Mine, Same
      <3> QED
        BY <3>1, <3>2
    <2> QED
      BY <2>1, <2>2, <2>3 DEF Kept, Mine
  <1>8. Apart'
    BY <1>3 DEF Inv, Objects, Apart, Active, Mine, Same
  <1>9. PhotoSafe'
    BY DEF Inv, Objects, PhotoSafe, Owed, Holding
  <1>10. Orderly' /\ NoObjectLeaked'
    <2> SUFFICES ASSUME calm' PROVE Orderly' /\ NoObjectLeaked'
      BY DEF Orderly, NoObjectLeaked
    <2>1. NoObjectLeaked'
      BY DEF Inv, Objects, NoObjectLeaked
    <2>2. \A s \in Tasks \ {t} : task'[s].pc = "idle"
      BY <1>3 DEF Inv, Objects, Orderly, Active, Same
    <2>3. ui'.open
      BY DEF Inv, Objects, Orderly, Alone
    <2>4. task'[t].mine /\ ui'.uploaded \in {ui.uploaded, None}
      BY <1>3 DEF Inv, Objects, Orderly, Active, Mine
    <2>5. Holding(t)' => task'[t].path = ui'.uploaded
      BY DEF Inv, Objects, Orderly, Active, Holding
    <2>6. task'[t].pc = "upload" => ui'.uploaded = None
      OBVIOUS
    <2>7. task'[t].pc # "save"
      OBVIOUS
    <2>8. ui'.uploaded # None => ui'.photo = ui'.uploaded /\ ui'.changed
      BY <2>4 DEF Inv, Objects, Orderly
    <2>9. \A s \in Tasks : Active(s)' => s = t
      BY <2>2 DEF Active
    <2>10. Mine(t)'
      BY <2>4 DEF Mine
    <2> QED
      BY <2>1, <2>3, <2>5, <2>6, <2>7, <2>8, <2>9, <2>10 DEF Orderly
  <1> QED
    BY <1>4, <1>5, <1>6, <1>7, <1>8, <1>9, <1>10 DEF Objects

-----------------------------------------------------------------------------
(* Objects: uploads *)

LEMMA UploadKeeps ==
    ASSUME Inv, NEW t \in Tasks, task[t].pc = "upload", UNCHANGED <<mode, saved>>,
           \/ made' = made /\ store' = store
           \/ made' = made + 1 /\ store' = store \cup {made + 1},
           risked \subseteq risked', Others(t, ui'), task'[t].kind = "none",
           task'[t].pc = "idle", ~task'[t].mine, task'[t].path = None, task'[t].photo = None,
           ui'.open = ui.open, ui'.camera => ui.camera, ui'.loading = ui.loading,
           \/ /\ task[t].mine /\ made' = made + 1 /\ ui'.changed
              /\ ui'.photo = made + 1 /\ ui'.uploaded = made + 1
           \/ /\ ui'.uploaded = ui.uploaded /\ ui'.changed = ui.changed
              /\ \/ ui'.photo = None
                 \/ ui'.photo = ui.photo /\ ui'.uploading = ui.uploading
                 \/ /\ ui'.photo = ui.photo /\ ui.photo \in risked'
              /\ ~calm' \/ ~task[t].mine,
           calm' => calm
    PROVE  Objects'
  <1>1. /\ made \in Nat /\ None \notin saved /\ made + 1 # None /\ made <= made'
        /\ made' \in Nat /\ ~(made + 1 <= made)
        /\ \A s \in Tasks : task[s].pc = "delete" => task[s].path # None
        /\ \A s \in Tasks : task[s].path \in Nat /\ task[s].photo \in Nat
        /\ ui.photo \in Nat /\ ui.uploaded \in Nat /\ store \subseteq Nat
        /\ saved \subseteq Nat
    <2>1. \A s \in Tasks : task[s].path \in Nat /\ task[s].photo \in Nat
      BY InvTypes DEF TaskType, Photos, None
    <2>2. ui.photo \in Nat /\ ui.uploaded \in Nat /\ store \subseteq Nat /\ saved \subseteq Nat
      BY InvTypes DEF UiType, Photos, None
    <2>3. \A s \in Tasks : task[s].pc = "delete" => task[s].path # None
      BY DEF Inv, Objects, Doing
    <2> QED
      BY <2>1, <2>2, <2>3, InvTypes DEF None
  <1>2. ~Left(ui')
    BY DEF Left
  <1>3. \A s \in Tasks \ {t} : Same(s) /\ (task'[s].mine <=> task[s].mine)
    BY <1>2 DEF Others
  <1>4. Doing'
    BY <1>3 DEF Inv, Objects, Doing, Active, Mine, Same
  <1>5. Numbered'
    <2>1. \A p \in saved \cup store : p <= made
      BY DEF Inv, Objects, Numbered
    <2>2. \A p \in saved' \cup store' : p <= made'
      BY <1>1, <2>1
    <2>3. ui'.photo <= made' /\ ui'.uploaded <= made'
      BY <1>1 DEF Inv, Objects, Numbered, None
    <2>4. ASSUME NEW s \in Tasks PROVE task'[s].path <= made' /\ task'[s].photo <= made'
      <3>1. CASE s = t
        BY <1>1, <3>1 DEF None
      <3>2. CASE s # t
        BY <1>1, <1>3, <3>2 DEF Inv, Objects, Numbered, Same
      <3> QED
        BY <3>1, <3>2
    <2> QED
      BY <2>2, <2>3, <2>4 DEF Numbered
  <1>6. Owed'
    <2>1. made + 1 \notin saved
      BY <1>1 DEF Inv, Objects, Numbered
    <2>2. /\ ui'.uploaded \in saved' => ui'.uploaded \in risked'
          /\ Fresh' /\ ui'.photo \in saved' => ui'.photo \in risked'
      BY <1>1, <2>1 DEF Inv, Objects, Owed, Fresh
    <2>3. /\ \A s \in Tasks : Holding(s)' => s # t /\ Holding(s) /\ Same(s)
          /\ \A s \in Tasks : task'[s].pc = "save" => s # t /\ Same(s)
      BY <1>3 DEF Holding, Same
    <2> QED
      BY <2>2, <2>3 DEF Inv, Objects, Owed, Same
  <1>7. Kept'
    <2>1. ASSUME ui'.open, Fresh', ~ui'.uploading, ui'.photo # None
          PROVE  ui'.photo \in store' \cup risked'
      BY <1>1, <2>1 DEF Inv, Objects, Kept, Fresh
    <2>2. \A s \in Tasks : task'[s].pc = "save" /\ task'[s].photo # None =>
              task'[s].photo \in store' \cup risked'
      BY <1>3 DEF Inv, Objects, Kept, Same
    <2>3. ASSUME NEW s \in Tasks, task'[s].kind \in {"file", "capture"}, task'[s].mine,
                 task'[s].pc = "delete", task'[s].path = ui'.photo
          PROVE  ui'.uploading \/ task'[s].path \in risked'
      <3>1. s # t /\ Same(s) /\ task[s].mine
        BY <1>3, <2>3
      <3>2. task[s].path # made + 1 /\ task[s].path # None
        BY <1>1, <2>3, <3>1 DEF Inv, Objects, Numbered, Same
      <3>3. ui'.photo = ui.photo
        BY <2>3, <3>1, <3>2 DEF Same
      <3> QED
        BY <2>3, <3>1, <3>2, <3>3 DEF Inv, Objects, Kept, Mine, Same
    <2> QED
      BY <2>1, <2>2, <2>3 DEF Kept, Mine
  <1>8. Apart'
    <2> SUFFICES ASSUME NEW s \in Tasks, Active(s)', ~Mine(s)',
                        NEW p \in {task'[s].path, task'[s].photo} \ {None}
                 PROVE  p # ui'.photo /\ p # ui'.uploaded
      BY DEF Apart
    <2>1. s # t /\ Same(s) /\ Active(s) /\ ~Mine(s)
      BY <1>3 DEF Active, Mine, Same
    <2>2. p # ui.photo /\ p # ui.uploaded /\ p # None
      BY <2>1 DEF Inv, Objects, Apart, Same
    <2>3. p # made + 1
      BY <1>1, <2>1 DEF Inv, Objects, Numbered, Same
    <2> QED
      BY <2>2, <2>3
  <1>9. PhotoSafe'
    BY DEF Inv, Objects, PhotoSafe
  <1>10. Orderly' /\ NoObjectLeaked'
    <2> SUFFICES ASSUME calm' PROVE Orderly' /\ NoObjectLeaked'
      BY DEF Orderly, NoObjectLeaked
    <2>1. task[t].mine /\ ui.uploaded = None /\ \A s \in Tasks \ {t} : task[s].pc = "idle"
      BY DEF Inv, Objects, Orderly, Active, Mine
    <2>2. ui'.photo = made + 1 /\ ui'.uploaded = made + 1 /\ ui'.changed
      BY <2>1
    <2>3. ui'.open
      BY DEF Inv, Objects, Orderly, Alone
    <2>4. \A s \in Tasks : ~Active(s)'
      BY <1>3, <2>1 DEF Active, Same
    <2>5. NoObjectLeaked'
      <3>1. store \subseteq saved
        BY <2>1, InvTypes DEF Inv, Objects, NoObjectLeaked
      <3> QED
        BY <2>2, <3>1 DEF NoObjectLeaked
    <2> QED
      BY <2>2, <2>3, <2>4, <2>5 DEF Orderly
  <1> QED
    BY <1>4, <1>5, <1>6, <1>7, <1>8, <1>9, <1>10 DEF Objects

LEMMA UploadEnds ==
    ASSUME Inv, NEW t \in Tasks, Uploaded(t)
    PROVE  Objects'
  <1> DEFINE p == made + 1
             u == UploadedPhoto(ui, p)
             v == IF task[t].kind = "capture" THEN CloseCamera(u) ELSE u
  <1>1. /\ task[t].pc = "upload" /\ made' = p /\ store' = store \cup {p}
        /\ UNCHANGED <<mode, saved, risked, calm>>
        /\ Render(Set(t, v), End(t))
    BY DEF Uploaded
  <1>2. ui \in UiType /\ p \in Photos /\ TypeOK /\ Named(task)
    BY InvTypes DEF Inv, Photos, None
  <1>3. /\ u \in UiType /\ u.open = ui.open /\ u.camera = ui.camera
        /\ u.loading = ui.loading /\ u.photo = p /\ u.uploaded = p /\ u.changed = TRUE
    BY <1>2, UploadedUi
  <1> HIDE DEF u
  <1>4. /\ v \in UiType /\ v.open = ui.open /\ (v.camera => ui.camera)
        /\ v.loading = ui.loading /\ v.photo = p /\ v.uploaded = p /\ v.changed
    BY <1>3, CloseCameraUi
  <1> HIDE DEF v
  <1>5. CASE task[t].mine
    <2>1. Render(v, End(t))
      BY <1>1, <1>5 DEF Set
    <2>2. /\ ui' = v /\ Others(t, v) /\ task'[t].kind = "none" /\ task'[t].pc = "idle"
          /\ task'[t].path = None /\ task'[t].photo = None /\ ~task'[t].mine
      BY <1>2, <1>4, <2>1, Ends
    <2> QED
      BY <1>1, <1>4, <1>5, <2>2, UploadKeeps
  <1>6. CASE ~task[t].mine
    <2>1. Render(ui, End(t))
      BY <1>1, <1>6 DEF Set
    <2>2. /\ ui' = ui /\ Others(t, ui) /\ task'[t].kind = "none" /\ task'[t].pc = "idle"
          /\ task'[t].path = None /\ task'[t].photo = None /\ ~task'[t].mine
      BY <1>2, <2>1, Ends
    <2> QED
      BY <1>1, <1>6, <2>2, UploadKeeps
  <1> QED
    BY <1>5, <1>6

LEMMA UploadFailEnds ==
    ASSUME Inv, NEW t \in Tasks, UploadFails(t)
    PROVE  Objects'
  <1> DEFINE u == UploadFailed(ui)
  <1>1. /\ task[t].pc = "upload" /\ UNCHANGED <<mode, saved>> /\ ~calm'
        /\ \/ made' = made /\ store' = store
           \/ made' = made + 1 /\ store' = store \cup {made + 1}
        /\ Render(Set(t, u), End(t))
        /\ risked \subseteq risked'
        /\ mode = "edit" /\ ui.photo # None => ui.photo \in risked'
    BY DEF UploadFails
  <1>2. ui \in UiType /\ TypeOK /\ Named(task)
    BY InvTypes DEF Inv
  <1>3. /\ u \in UiType /\ u.open = ui.open /\ u.camera = ui.camera
        /\ u.loading = ui.loading /\ u.uploaded = ui.uploaded /\ u.changed = ui.changed
        /\ u.photo = IF mode = "create" THEN None ELSE ui.photo
    BY <1>2, UploadFailedUi
  <1> HIDE DEF u
  <1>4. CASE task[t].mine
    <2>1. Render(u, End(t))
      BY <1>1, <1>4 DEF Set
    <2>2. /\ ui' = u /\ Others(t, u) /\ task'[t].kind = "none" /\ task'[t].pc = "idle"
          /\ task'[t].path = None /\ task'[t].photo = None /\ ~task'[t].mine
      BY <1>2, <1>3, <2>1, Ends
    <2>3. u.photo = None \/ (u.photo = ui.photo /\ ui.photo \in risked')
      BY <1>1, <1>3, EditOrCreate
    <2> QED
      BY <1>1, <1>3, <2>2, <2>3, UploadKeeps
  <1>5. CASE ~task[t].mine
    <2>1. Render(ui, End(t))
      BY <1>1, <1>5 DEF Set
    <2>2. /\ ui' = ui /\ Others(t, ui) /\ task'[t].kind = "none" /\ task'[t].pc = "idle"
          /\ task'[t].path = None /\ task'[t].photo = None /\ ~task'[t].mine
      BY <1>2, <2>1, Ends
    <2> QED
      BY <1>1, <1>5, <2>2, UploadKeeps
  <1> QED
    BY <1>4, <1>5

-----------------------------------------------------------------------------
(* Objects: deletions, and the close *)

(* What a dialog that closes shows.                                        *)
LEMMA ClosedUi ==
    ASSUME Inv, NEW u \in UiType, ~u.camera \/ mode = "create"
    PROVE  /\ OnClose(u) \in UiType /\ ~OnClose(u).open /\ ~OnClose(u).camera
           /\ mode = "create" => /\ OnClose(u).photo = None /\ OnClose(u).uploaded = None
                                 /\ OnClose(u).changed = FALSE
           /\ mode = "edit" => /\ OnClose(u).loading = u.loading
                               /\ OnClose(u).uploading = u.uploading
                               /\ OnClose(u).photo = u.photo
                               /\ OnClose(u).uploaded = u.uploaded
                               /\ OnClose(u).changed = u.changed
  <1>1. CASE mode = "create"
    BY <1>1, OnCloseUi, UnmountedUi
  <1>2. CASE mode = "edit"
    BY <1>2, OnCloseUi
  <1> QED
    BY <1>1, <1>2, EditOrCreate

LEMMA CloseKeeps ==
    ASSUME Inv, NEW t \in Tasks, HandleClose(t)
    PROVE  Objects'
  <1>1. /\ ui.open /\ ~ui.loading /\ ~ui.uploading /\ task[t].pc = "idle"
        /\ UNCHANGED <<mode, store, made, saved, risked>> /\ calm' = (calm /\ Alone)
    BY DEF HandleClose, FormActive, IsBusy, Idle, storeVars
  <1>2. CASE ui.uploaded # None
    BY <1>1, <1>2, DeletionBegins DEF HandleClose
  <1>3. CASE ui.uploaded = None
    <2> DEFINE c == CloseCamera(ui)
               u == OnClose(c)
    <2>1. /\ c \in UiType /\ c.camera = FALSE /\ c.loading = ui.loading
          /\ c.uploading = ui.uploading
          /\ c.photo = ui.photo /\ c.uploaded = ui.uploaded /\ c.changed = ui.changed
      BY InvTypes, CloseCameraUi
    <2>2. Render(u, task)
      BY <1>3 DEF HandleClose, CloseModal
    <2> HIDE DEF c
    <2>3. /\ u \in UiType /\ ~u.open /\ ~u.camera
          /\ mode = "create" => u.photo = None /\ u.uploaded = None
          /\ mode = "edit" => /\ u.loading = ui.loading /\ u.uploading = ui.uploading
                              /\ u.photo = ui.photo /\ u.uploaded = ui.uploaded
                              /\ u.changed = ui.changed
      BY <2>1, ClosedUi
    <2> HIDE DEF u
    <2>4. TypeOK /\ Named(task)
      BY DEF Inv
    <2>5. /\ ui' = u
          /\ \A s \in Tasks : /\ Same(s)
                              /\ task'[s].mine => task[s].mine /\ ~Left(u)
                              /\ task[s].mine => task'[s].mine \/ Left(u)
      BY <2>2, <2>3, <2>4, Stays
    <2>6. /\ Others(t, u) /\ task'[t].kind = "none" /\ task'[t].pc = "idle"
          /\ ~task'[t].mine /\ task'[t].path <= made /\ task'[t].photo <= made
      BY <1>1, <2>4, <2>5 DEF Inv, Objects, Doing, Numbered, Named, Active, Mine, Others, Same
    <2>7. \A p \in saved : p <= made
      BY DEF Inv, Objects, Numbered
    <2>8. None \notin saved
      BY InvTypes
    <2>9. calm' => calm /\ (\A s \in Tasks \ {t} : task[s].pc = "idle")
      BY <1>1 DEF Alone
    <2> QED
      BY <1>1, <1>3, <2>3, <2>5, <2>6, <2>7, <2>8, <2>9, EditOrCreate, EndKeeps DEF Left
  <1> QED
    BY <1>2, <1>3

(* A handler that is alone when nothing failed.                            *)
LEMMA CalmAlone ==
    ASSUME Inv, calm, NEW t \in Tasks, task[t].pc # "idle"
    PROVE  /\ task[t].mine /\ ui.open
           /\ \A s \in Tasks \ {t} : task[s].pc = "idle"
           /\ Holding(t) => task[t].path = ui.uploaded
  BY DEF Inv, Objects, Orderly, Active, Mine, Alone

LEMMA DeletionKeeps ==
    ASSUME Inv, NEW t \in Tasks, task[t].pc = "delete", NEW v \in UiType, AfterDelete(t, v),
           v.open = ui.open, v.loading = ui.loading, v.uploading = ui.uploading,
           v.photo = ui.photo, v.changed = ui.changed, v.camera = ui.camera,
           v.uploaded \in {ui.uploaded, None},
           UNCHANGED <<mode, made, saved, risked>>,
           store' = store \/ store' = store \ {task[t].path},
           calm' => /\ calm /\ store' = store \ {task[t].path}
                    /\ task[t].mine => v.uploaded = None
    PROVE  Objects'
  <1>1. /\ TypeOK /\ Named(task) /\ None \notin saved /\ (ui.camera => ui.open)
        /\ made \in Nat /\ None <= made /\ (\A p \in saved : p <= made)
        /\ task[t].kind \in {"file", "capture", "remove", "close", "submit"}
        /\ mode = "edit" => task[t].mine
    BY InvTypes DEF Inv, Objects, Doing, Numbered, Active, Mine, None, TypeOK, Named
  <1>2. calm' => /\ calm /\ task[t].mine /\ ui.open /\ task[t].path = ui.uploaded
                 /\ v.uploaded = None
                 /\ \A s \in Tasks \ {t} : task[s].pc = "idle"
    BY CalmAlone DEF Holding
  <1>3. ASSUME NEW w \in UiType, Render(w, End(t))
        PROVE  /\ ui' = w /\ Others(t, w) /\ task'[t].kind = "none" /\ task'[t].pc = "idle"
               /\ task'[t].path = None /\ task'[t].photo = None /\ ~task'[t].mine
    BY <1>1, <1>3, Ends
  <1>4. CASE task[t].kind \in {"file", "capture"}
    <2>1. Render(v, Goto(t, "upload"))
      BY <1>4 DEF AfterDelete
    <2>2. /\ ui' = v /\ task'[t].kind = task[t].kind /\ task'[t].pc = "upload"
          /\ task'[t].path = task[t].path /\ task'[t].photo = task[t].photo
          /\ task'[t].mine => task[t].mine
          /\ task[t].mine => task'[t].mine \/ Left(v)
          /\ Others(t, v)
      BY <1>1, <2>1, GoesOn
    <2> QED
      BY <1>1, <1>2, <1>4, <2>2, GoKeeps
  <1>5. CASE task[t].kind = "remove"
    <2> DEFINE w == Removed(v)
    <2>1. Render(Set(t, w), End(t))
      BY <1>5 DEF AfterDelete
    <2>2. /\ w \in UiType /\ w.open = ui.open /\ w.loading = ui.loading
          /\ w.uploading = ui.uploading /\ w.camera = ui.camera /\ w.photo = None
          /\ w.uploaded = v.uploaded
      BY RemovedUi
    <2> HIDE DEF w
    <2>3. CASE task[t].mine
      <3>1. /\ ui' = w /\ Others(t, w) /\ task'[t].kind = "none" /\ task'[t].pc = "idle"
            /\ task'[t].path = None /\ task'[t].photo = None /\ ~task'[t].mine
        BY <1>3, <2>1, <2>2, <2>3 DEF Set
      <3> QED
        BY <1>1, <1>2, <2>2, <3>1, EndKeeps DEF Left
    <2>4. CASE ~task[t].mine
      <3>1. /\ ui' = ui /\ Others(t, ui) /\ task'[t].kind = "none" /\ task'[t].pc = "idle"
            /\ task'[t].path = None /\ task'[t].photo = None /\ ~task'[t].mine
        BY <1>3, <2>1, <2>4, InvTypes DEF Set
      <3> QED
        BY <1>1, <1>2, <2>4, <3>1, EndKeeps DEF Left
    <2> QED
      BY <2>3, <2>4
  <1>6. CASE task[t].kind = "submit"
    <2> DEFINE w == CreateFailed(v)
    <2>1. Render(Set(t, w), End(t))
      BY <1>6 DEF AfterDelete
    <2>2. /\ w \in UiType /\ w.open = ui.open
          /\ w.uploading = ui.uploading /\ w.camera = ui.camera /\ w.photo = None
          /\ w.uploaded = v.uploaded
      BY CreateFailedUi
    <2> HIDE DEF w
    <2>3. CASE task[t].mine
      <3>1. /\ ui' = w /\ Others(t, w) /\ task'[t].kind = "none" /\ task'[t].pc = "idle"
            /\ task'[t].path = None /\ task'[t].photo = None /\ ~task'[t].mine
        BY <1>3, <2>1, <2>2, <2>3 DEF Set
      <3> QED
        BY <1>1, <1>2, <1>6, <2>2, <2>3, <3>1, EndKeeps DEF Left
    <2>4. CASE ~task[t].mine
      <3>1. /\ ui' = ui /\ Others(t, ui) /\ task'[t].kind = "none" /\ task'[t].pc = "idle"
            /\ task'[t].path = None /\ task'[t].photo = None /\ ~task'[t].mine
        BY <1>3, <2>1, <2>4, InvTypes DEF Set
      <3> QED
        BY <1>1, <1>2, <2>4, <3>1, EndKeeps DEF Left
    <2> QED
      BY <2>3, <2>4
  <1>7. CASE task[t].kind = "close"
    <2> DEFINE c == CloseCamera(v)
               x == Set(t, c)
               w == OnClose(x)
    <2>1. Render(w, End(t))
      BY <1>7 DEF AfterDelete
    <2>2. /\ c \in UiType /\ c.camera = FALSE /\ c.loading = ui.loading
          /\ c.uploading = ui.uploading /\ c.photo = ui.photo
          /\ c.uploaded = v.uploaded /\ c.changed = ui.changed
      BY CloseCameraUi
    <2> HIDE DEF c
    <2>3. x \in UiType /\ (task[t].mine => x = c)
      BY <2>2, InvTypes DEF Set
    <2> HIDE DEF x
    <2>4. ~x.camera \/ mode = "create"
      BY <1>1, <2>2, <2>3, EditOrCreate
    <2>5. /\ w \in UiType /\ ~w.open /\ ~w.camera
          /\ mode = "create" => w.photo = None /\ w.uploaded = None
          /\ mode = "edit" => /\ w.loading = x.loading /\ w.uploading = x.uploading
                              /\ w.photo = x.photo /\ w.uploaded = x.uploaded
                              /\ w.changed = x.changed
      BY <2>3, <2>4, ClosedUi
    <2> HIDE DEF w
    <2>6. mode = "edit" => /\ w.loading = ui.loading /\ w.uploading = ui.uploading
                           /\ w.photo = ui.photo /\ w.uploaded = v.uploaded
                           /\ w.changed = ui.changed
      BY <1>1, <2>2, <2>3, <2>5
    <2>7. /\ ui' = w /\ Others(t, w) /\ task'[t].kind = "none" /\ task'[t].pc = "idle"
          /\ task'[t].path = None /\ task'[t].photo = None /\ ~task'[t].mine
      BY <1>3, <2>1, <2>5
    <2>8. calm' => w.uploaded = None
      BY <1>2, <2>5, <2>6, EditOrCreate
    <2>9. /\ w.photo \in {ui.photo, None} /\ w.uploaded \in {ui.uploaded, None}
          /\ w.photo # None => w.changed = ui.changed
          /\ w.loading = ui.loading \/ mode = "create"
          /\ w.uploading = ui.uploading \/ mode = "create"
      BY <2>5, <2>6, EditOrCreate
    <2> QED
      BY <1>1, <1>2, <2>5, <2>7, <2>8, <2>9, EndKeeps DEF Left
  <1> QED
    BY <1>1, <1>4, <1>5, <1>6, <1>7

LEMMA DeletedKeeps ==
    ASSUME Inv, NEW t \in Tasks, Deleted(t) \/ DeleteFails(t)
    PROVE  Objects'
  <1>1. ui \in UiType
    BY InvTypes
  <1>2. CASE Deleted(t)
    <2> DEFINE e == [ui EXCEPT !.uploaded = None]
               v == Set(t, e)
    <2>1. /\ task[t].pc = "delete" /\ store' = store \ {task[t].path} /\ AfterDelete(t, v)
          /\ UNCHANGED <<mode, made, saved, risked, calm>>
      BY <1>2 DEF Deleted
    <2>2. /\ e \in UiType /\ e.open = ui.open /\ e.loading = ui.loading
          /\ e.uploading = ui.uploading /\ e.photo = ui.photo /\ e.changed = ui.changed
          /\ e.camera = ui.camera /\ e.uploaded = None
      BY <1>1 DEF UiType, None
    <2> HIDE DEF e
    <2>3. /\ v \in UiType /\ v.open = ui.open /\ v.loading = ui.loading
          /\ v.uploading = ui.uploading /\ v.photo = ui.photo /\ v.changed = ui.changed
          /\ v.camera = ui.camera /\ v.uploaded \in {ui.uploaded, None}
          /\ task[t].mine => v.uploaded = None
      BY <1>1, <2>2 DEF Set
    <2> HIDE DEF v
    <2> QED
      BY <2>1, <2>3, DeletionKeeps
  <1>3. CASE DeleteFails(t)
    <2>1. /\ task[t].pc = "delete" /\ AfterDelete(t, ui) /\ ~calm'
          /\ store' = store \/ store' = store \ {task[t].path}
          /\ UNCHANGED <<mode, made, saved, risked>>
      BY <1>3 DEF DeleteFails
    <2> QED
      BY <1>1, <2>1, DeletionKeeps
  <1> QED
    BY <1>2, <1>3

LEMMA BlobKeeps ==
    ASSUME Inv, NEW t \in Tasks, BlobReady(t)
    PROVE  Objects'
  <1> DEFINE e == [ui EXCEPT !.uploading = TRUE]
             v == Set(t, e)
             pc == IF task[t].path = None THEN "upload" ELSE "delete"
  <1>1. /\ task[t].pc = "blob" /\ UNCHANGED <<mode, store, made, saved, risked, calm>>
        /\ Render(v, Goto(t, pc)) \/ Render(ui, End(t))
    BY DEF BlobReady, storeVars
  <1>2. /\ TypeOK /\ Named(task) /\ None \notin saved /\ (ui.camera => ui.open)
        /\ ui \in UiType /\ made \in Nat /\ None <= made /\ (\A p \in saved : p <= made)
        /\ task[t].kind = "capture"
    BY <1>1, InvTypes DEF Inv, Objects, Doing, Numbered, None
  <1>3. calm => /\ task[t].path = ui.uploaded
                /\ \A s \in Tasks \ {t} : task[s].pc = "idle"
    BY <1>1, CalmAlone DEF Holding
  <1>4. CASE Render(ui, End(t))
    <2>1. /\ ui' = ui /\ Others(t, ui) /\ task'[t].kind = "none" /\ task'[t].pc = "idle"
          /\ task'[t].path = None /\ task'[t].photo = None /\ ~task'[t].mine
      BY <1>2, <1>4, Ends
    <2>2. calm' => ui.open
      BY <1>1, CalmAlone
    <2> QED
      BY <1>1, <1>2, <1>3, <2>1, <2>2, EndKeeps DEF Left
  <1>5. CASE Render(v, Goto(t, pc))
    <2>1. /\ e \in UiType /\ e.open = ui.open /\ e.loading = ui.loading
          /\ e.uploading = TRUE /\ e.photo = ui.photo /\ e.changed = ui.changed
          /\ e.camera = ui.camera /\ e.uploaded = ui.uploaded
      BY <1>2 DEF UiType
    <2> HIDE DEF e
    <2>2. /\ v \in UiType /\ v.open = ui.open /\ v.loading = ui.loading
          /\ v.photo = ui.photo /\ v.changed = ui.changed
          /\ v.camera = ui.camera /\ v.uploaded = ui.uploaded
          /\ ui.uploading => v.uploading
          /\ task[t].mine => v.uploading
      BY <1>2, <2>1 DEF Set
    <2> HIDE DEF v
    <2>3. /\ pc \in {"delete", "upload"}
          /\ pc = "upload" <=> task[t].path = None
      OBVIOUS
    <2> HIDE DEF pc
    <2>4. /\ ui' = v /\ task'[t].kind = task[t].kind /\ task'[t].pc = pc
          /\ task'[t].path = task[t].path /\ task'[t].photo = task[t].photo
          /\ task'[t].mine => task[t].mine
          /\ task[t].mine => task'[t].mine \/ Left(v)
          /\ Others(t, v)
      BY <1>1, <1>2, <1>5, <2>2, <2>3, GoesOn
    <2> QED
      BY <1>1, <1>2, <1>3, <2>2, <2>3, <2>4, GoKeeps
  <1> QED
    BY <1>1, <1>4, <1>5

-----------------------------------------------------------------------------
(* Objects: the answers to a submit *)

(* An error leaves what was saved at risk, if anything was.                *)
LEMMA ErrorKeeps ==
    ASSUME Inv, NEW t \in Tasks, task[t].pc = "save", SubmitError(t),
           UNCHANGED <<mode, made>>, risked \subseteq risked',
           saved' \subseteq saved \cup risked', \A p \in saved' : p <= made,
           None \notin saved',
           store' = IF mode = "create" THEN store ELSE store \ (saved \ saved'),
           calm' => calm /\ saved' = saved
    PROVE  Objects'
  <1>1. /\ TypeOK /\ Named(task) /\ None \notin saved /\ (ui.camera => ui.open)
        /\ ui \in UiType /\ made \in Nat /\ None <= made
        /\ task[t].kind = "submit"
        /\ mode = "edit" => task[t].mine
    BY InvTypes DEF Inv, Objects, Doing, Active, Mine, None
  <1>2. calm' => /\ calm /\ task[t].mine /\ ui.open /\ task[t].path = ui.uploaded
                 /\ store' = store
                 /\ \A s \in Tasks \ {t} : task[s].pc = "idle"
    BY CalmAlone DEF Holding
  <1>3. ASSUME NEW w \in UiType, Render(w, End(t))
        PROVE  /\ ui' = w /\ Others(t, w) /\ task'[t].kind = "none" /\ task'[t].pc = "idle"
               /\ task'[t].path = None /\ task'[t].photo = None /\ ~task'[t].mine
    BY <1>1, <1>3, Ends
  <1>4. CASE mode = "edit"
    <2> DEFINE w == [ui EXCEPT !.loading = FALSE]
    <2>1. Render(w, End(t))
      BY <1>4 DEF SubmitError
    <2>2. /\ w \in UiType /\ w.open = ui.open /\ w.uploading = ui.uploading
          /\ w.photo = ui.photo /\ w.uploaded = ui.uploaded /\ w.changed = ui.changed
          /\ w.camera = ui.camera
      BY <1>1 DEF UiType
    <2> HIDE DEF w
    <2>3. /\ ui' = w /\ Others(t, w) /\ task'[t].kind = "none" /\ task'[t].pc = "idle"
          /\ task'[t].path = None /\ task'[t].photo = None /\ ~task'[t].mine
      BY <1>3, <2>1, <2>2
    <2> QED
      BY <1>1, <1>2, <1>4, <2>2, <2>3, EndKeeps DEF Left
  <1>5. CASE mode = "create" /\ task[t].path = None
    <2> DEFINE w == CreateFailed(ui)
    <2>1. Render(Set(t, w), End(t))
      BY <1>5 DEF SubmitError
    <2>2. /\ w \in UiType /\ w.open = ui.open
          /\ w.uploading = ui.uploading /\ w.camera = ui.camera /\ w.photo = None
          /\ w.uploaded = ui.uploaded
      BY <1>1, CreateFailedUi
    <2> HIDE DEF w
    <2>3. CASE task[t].mine
      <3>1. /\ ui' = w /\ Others(t, w) /\ task'[t].kind = "none" /\ task'[t].pc = "idle"
            /\ task'[t].path = None /\ task'[t].photo = None /\ ~task'[t].mine
        BY <1>3, <2>1, <2>2, <2>3 DEF Set
      <3> QED
        BY <1>1, <1>2, <1>5, <2>2, <2>3, <3>1, EndKeeps DEF Left
    <2>4. CASE ~task[t].mine
      <3>1. /\ ui' = ui /\ Others(t, ui) /\ task'[t].kind = "none" /\ task'[t].pc = "idle"
            /\ task'[t].path = None /\ task'[t].photo = None /\ ~task'[t].mine
        BY <1>1, <1>3, <2>1, <2>4 DEF Set
      <3> QED
        BY <1>1, <1>2, <1>5, <2>4, <3>1, EndKeeps DEF Left
    <2> QED
      BY <2>3, <2>4
  <1>6. CASE mode = "create" /\ task[t].path # None
    <2>1. Render(ui, Goto(t, "delete"))
      BY <1>6 DEF SubmitError
    <2>2. /\ ui' = ui /\ task'[t].kind = task[t].kind /\ task'[t].pc = "delete"
          /\ task'[t].path = task[t].path /\ task'[t].photo = task[t].photo
          /\ task'[t].mine => task[t].mine
          /\ task[t].mine => task'[t].mine \/ Left(ui)
          /\ Others(t, ui)
      BY <1>1, <2>1, GoesOn
    <2> QED
      BY <1>1, <1>2, <1>6, <2>2, GoKeeps
  <1> QED
    BY <1>4, <1>5, <1>6, EditOrCreate

LEMMA RefusedKeeps ==
    ASSUME Inv, NEW t \in Tasks, SubmitRefused(t)
    PROVE  Objects'
  <1>1. /\ task[t].pc = "save" /\ SubmitError(t)
        /\ UNCHANGED <<mode, store, made, saved, risked, calm>>
    BY DEF SubmitRefused, storeVars
  <1>2. (\A p \in saved : p <= made) /\ None \notin saved
    BY InvTypes DEF Inv, Objects, Numbered
  <1>3. store \ (saved \ saved) = store
    OBVIOUS
  <1> QED
    BY <1>1, <1>2, <1>3, ErrorKeeps

LEMMA LostKeeps ==
    ASSUME Inv, NEW t \in Tasks, AnswerLost(t)
    PROVE  Objects'
  <1>1. /\ task[t].pc = "save" /\ SubmitError(t) /\ ~calm' /\ UNCHANGED <<mode, made>>
        /\ saved' = (IF mode = "create" THEN saved ELSE {}) \cup ({task[t].photo} \ {None})
        /\ store' = IF mode = "create" THEN store ELSE store \ (saved \ saved')
        /\ risked' = risked \cup ({task[t].photo} \ {None})
    BY DEF AnswerLost
  <1>2. (\A p \in saved : p <= made) /\ None \notin saved /\ task[t].photo <= made
    BY InvTypes DEF Inv, Objects, Numbered
  <1>3. /\ saved' \subseteq saved \cup risked' /\ None \notin saved'
        /\ (\A p \in saved' : p <= made)
    BY <1>1, <1>2
  <1> QED
    BY <1>1, <1>3, ErrorKeeps

(* The dialog closes when its item is saved.                               *)
LEMMA SubmittedUi ==
    ASSUME Inv, NEW t \in Tasks, Submitted(t)
    PROVE  /\ ~ui'.open /\ ~ui'.camera /\ ui'.uploaded = None
           /\ mode = "create" => ui'.photo = None
           /\ mode = "edit" => ~ui'.changed /\ ui'.photo = task[t].photo
                               /\ ui'.uploading = ui.uploading
           /\ Others(t, ui') /\ task'[t].kind = "none" /\ task'[t].pc = "idle"
           /\ task'[t].path = None /\ task'[t].photo = None /\ ~task'[t].mine
  <1> DEFINE r == IF mode = "create" THEN ui ELSE ResetToItem(ui, task[t].photo)
             v == [r EXCEPT !.loading = FALSE]
             c == CloseCamera(v)
             x == Set(t, c)
             w == OnClose(x)
  <1>1. task[t].pc = "save" /\ Render(w, End(t))
    BY DEF Submitted
  <1>2. /\ ui \in UiType /\ TypeOK /\ Named(task) /\ task[t].photo \in Photos \cup {None}
        /\ mode = "edit" => task[t].mine
    BY <1>1, InvTypes DEF Inv, Objects, Doing, Active, Mine, TaskType
  <1>3. /\ r \in UiType
        /\ mode = "edit" => /\ r.photo = task[t].photo /\ r.uploaded = None
                            /\ r.changed = FALSE /\ r.uploading = ui.uploading
    BY <1>2, ResetUi
  <1> HIDE DEF r
  <1>4. /\ v \in UiType /\ v.photo = r.photo /\ v.uploaded = r.uploaded
        /\ v.changed = r.changed /\ v.uploading = r.uploading
    BY <1>3 DEF UiType
  <1> HIDE DEF v
  <1>5. /\ c \in UiType /\ c.camera = FALSE /\ c.photo = v.photo
        /\ c.uploaded = v.uploaded /\ c.changed = v.changed /\ c.uploading = v.uploading
    BY <1>4, CloseCameraUi
  <1> HIDE DEF c
  <1>6. x \in UiType /\ (task[t].mine => x = c)
    BY <1>2, <1>5 DEF Set
  <1> HIDE DEF x
  <1>7. ~x.camera \/ mode = "create"
    BY <1>2, <1>5, <1>6, EditOrCreate
  <1>8. /\ w \in UiType /\ ~w.open /\ ~w.camera
        /\ mode = "create" => w.photo = None /\ w.uploaded = None
        /\ mode = "edit" => /\ w.uploading = x.uploading /\ w.photo = x.photo
                            /\ w.uploaded = x.uploaded /\ w.changed = x.changed
    BY <1>6, <1>7, ClosedUi
  <1> HIDE DEF w
  <1>9. /\ ui' = w /\ Others(t, w) /\ task'[t].kind = "none" /\ task'[t].pc = "idle"
        /\ task'[t].path = None /\ task'[t].photo = None /\ ~task'[t].mine
    BY <1>1, <1>2, <1>8, Ends
  <1>10. CASE mode = "create"
    BY <1>8, <1>9, <1>10
  <1>11. CASE mode = "edit"
    BY <1>2, <1>3, <1>4, <1>5, <1>6, <1>8, <1>9, <1>11
  <1> QED
    BY <1>10, <1>11, EditOrCreate

LEMMA SubmittedKeeps ==
    ASSUME Inv, NEW t \in Tasks, Submitted(t)
    PROVE  Objects'
  <1> DEFINE q == task[t].photo
             new == {q} \ {None}
  <1>1. /\ task[t].pc = "save" /\ Save(t) /\ UNCHANGED <<mode, made, risked>>
    BY DEF Submitted
  <1>2. /\ ~ui'.open /\ ~ui'.camera /\ ui'.uploaded = None
        /\ mode = "create" => ui'.photo = None
        /\ mode = "edit" => ~ui'.changed /\ ui'.photo = q /\ ui'.uploading = ui.uploading
        /\ Others(t, ui') /\ task'[t].kind = "none" /\ task'[t].pc = "idle"
        /\ task'[t].path = None /\ task'[t].photo = None /\ ~task'[t].mine
    BY SubmittedUi
  <1>3. saved' = IF mode = "create" THEN saved \cup new ELSE new
    BY <1>1 DEF Save
  <1>4. /\ mode = "create" => store' = store
        /\ mode = "edit" => store' = store \ (saved \ new) \/ (store' = store /\ ~calm')
        /\ calm' => calm
    BY <1>1 DEF Save
  <1>5. /\ made \in Nat /\ None <= made /\ None \notin saved /\ None \notin store
        /\ task[t].kind = "submit" /\ q <= made
        /\ mode = "edit" => task[t].mine
    BY <1>1, InvTypes DEF Inv, Objects, Doing, Numbered, Active, Mine, None
  <1> HIDE DEF q
  <1>6. \A s \in Tasks \ {t} : /\ Same(s)
                               /\ task'[s].mine => task[s].mine /\ ~Left(ui')
                               /\ mode = "edit" /\ task[s].mine => task'[s].mine
    BY <1>2 DEF Others, Left
  <1>7. \A s \in Tasks : task'[s].mine => mode = "edit"
    BY <1>2, <1>6, EditOrCreate DEF Inv, Objects, Doing, Mine, Left
  <1>8. mode = "edit" => \A s \in Tasks \ {t} : task[s].pc # "save" /\ task[s].kind # "submit"
    BY <1>5 DEF Inv, Objects, Doing, Active, Mine, Named
  <1>9. Doing'
    BY <1>1, <1>2, <1>6, <1>7, <1>8 DEF Inv, Objects, Doing, Active, Mine, Same
  <1>10. Numbered'
    <2>1. \A p \in saved' \cup store' : p <= made'
      BY <1>1, <1>3, <1>4, <1>5, EditOrCreate DEF Inv, Objects, Numbered
    <2>2. ui'.photo <= made' /\ ui'.uploaded <= made'
      BY <1>1, <1>2, <1>5, EditOrCreate
    <2>3. \A s \in Tasks : task'[s].path <= made' /\ task'[s].photo <= made'
      BY <1>1, <1>2, <1>5, <1>6 DEF Inv, Objects, Numbered, Same
    <2> QED
      BY <2>1, <2>2, <2>3 DEF Numbered
  <1>11. ASSUME NEW s \in Tasks, s # t, Holding(s), task[s].path = q, q # None
         PROVE  q \in risked
    BY <1>1, <1>11 DEF Inv, Objects, Owed, q
  <1>12. Owed'
    <2>1. ASSUME NEW s \in Tasks, Holding(s)', task'[s].path \in saved'
          PROVE  task'[s].path \in risked'
      <3>1. s # t /\ Same(s) /\ Holding(s)
        BY <1>2, <1>6, <2>1 DEF Holding, Same
      <3>2. task[s].path \in saved => task[s].path \in risked
        BY <3>1 DEF Inv, Objects, Owed
      <3> QED
        BY <1>1, <1>3, <1>11, <2>1, <3>1, <3>2 DEF Same
    <2>2. /\ ui'.uploaded \notin saved'
          /\ ~(Fresh' /\ ui'.photo \in saved')
      BY <1>1, <1>2, <1>3, <1>5, EditOrCreate DEF Fresh
    <2>3. ASSUME NEW r \in Tasks, NEW s \in Tasks, r # s, Holding(r)', task'[s].pc = "save",
                 task'[s].photo # None, task'[r].path = task'[s].photo
          PROVE  task'[s].photo \in risked'
      <3>1. r # t /\ s # t /\ Same(r) /\ Same(s) /\ Holding(r)
        BY <1>2, <1>6, <2>3 DEF Holding, Same
      <3> QED
        BY <1>1, <2>3, <3>1 DEF Inv, Objects, Owed, Same
    <2> QED
      BY <2>1, <2>2, <2>3 DEF Owed
  <1>13. Kept'
    <2>1. ASSUME NEW s \in Tasks, task'[s].pc = "save", task'[s].photo # None
          PROVE  task'[s].photo \in store' \cup risked'
      <3>1. s # t /\ Same(s) /\ task[s].pc = "save"
        BY <1>2, <1>6, <2>1 DEF Same
      <3>2. mode = "create"
        BY <1>8, <3>1, EditOrCreate
      <3> QED
        BY <1>1, <1>4, <2>1, <3>1, <3>2 DEF Inv, Objects, Kept, Same
    <2>2. ASSUME NEW s \in Tasks, task'[s].kind \in {"file", "capture"}, task'[s].mine,
                 task'[s].pc = "delete", task'[s].path = ui'.photo
          PROVE  ui'.uploading \/ task'[s].path \in risked'
      <3>1. s # t /\ Same(s) /\ mode = "edit" /\ task[s].pc = "delete"
        BY <1>2, <1>6, <1>7, <2>2 DEF Same
      <3>2. Holding(s) /\ task[s].path = q /\ q # None
        BY <1>2, <2>2, <3>1 DEF Inv, Objects, Doing, Holding, Same
      <3> QED
        BY <1>1, <1>11, <3>1, <3>2 DEF Same
    <2> QED
      BY <1>2, <2>1, <2>2 DEF Kept, Mine
  <1>14. Apart'
    <2>1. CASE mode = "create"
      BY <1>2, <2>1 DEF Apart
    <2>2. CASE mode = "edit"
      BY <1>1, <1>9, <2>2 DEF Doing, Apart
    <2> QED
      BY <2>1, <2>2, EditOrCreate
  <1>15. PhotoSafe'
    <2>1. q # None => q \in store \cup risked
      BY <1>1 DEF Inv, Objects, Kept, q
    <2> QED
      BY <1>1, <1>3, <1>4, <2>1, EditOrCreate DEF Inv, Objects, PhotoSafe
  <1>16. Orderly' /\ NoObjectLeaked'
    <2> SUFFICES ASSUME calm' PROVE Orderly' /\ NoObjectLeaked'
      BY DEF Orderly, NoObjectLeaked
    <2>1. \A s \in Tasks : task'[s].pc = "idle"
      BY <1>1, <1>2, <1>4, <1>6, CalmAlone DEF Same
    <2>2. task[t].path = ui.uploaded
      BY <1>1, <1>4, CalmAlone DEF Holding
    <2>3. ui.uploaded # None => q = ui.uploaded
      BY <1>1, <1>4, <2>2 DEF Inv, Objects, Orderly, Active, q
    <2>4. store \subseteq saved \cup {ui.uploaded}
      BY <1>4 DEF Inv, Objects, NoObjectLeaked
    <2>5. store' \subseteq saved'
      <3>1. \A p \in store : p \in saved \/ p \in new
        BY <1>5, <2>3, <2>4
      <3>2. CASE mode = "create"
        BY <1>3, <1>4, <3>1, <3>2
      <3>3. CASE mode = "edit"
        BY <1>3, <1>4, <3>1, <3>3
      <3> QED
        BY <3>2, <3>3, EditOrCreate
    <2> QED
      BY <1>2, <2>1, <2>5 DEF Orderly, NoObjectLeaked, Alone, Active
  <1> QED
    BY <1>9, <1>10, <1>12, <1>13, <1>14, <1>15, <1>16 DEF Objects

-----------------------------------------------------------------------------
(* The theorems about objects *)

LEMMA ObjectsStep ==
    ASSUME Inv, [Next]_vars
    PROVE  Objects'
  <1>1. ASSUME NEW t \in Tasks, ChooseFile(t) \/ HandleSubmit(t) \/ CapturePhoto(t)
        PROVE  Objects'
    BY <1>1, FileBegins, SubmitBegins, CaptureBegins
  <1>2. ASSUME NEW t \in Tasks, RemovePhoto(t) \/ HandleClose(t)
        PROVE  Objects'
    BY <1>2, RemoveKeeps, CloseKeeps
  <1>3. ASSUME NEW t \in Tasks, Answer(t)
        PROVE  Objects'
    BY <1>3, DeletedKeeps, UploadEnds, UploadFailEnds, SubmittedKeeps, RefusedKeeps,
       LostKeeps, BlobKeeps DEF Answer
  <1>4. CASE OpenDialog \/ ItemReloaded
    BY <1>4, OpenKeeps, ReloadKeeps
  <1>5. CASE CameraMoves \/ CancelCamera \/ UNCHANGED vars
    BY <1>5, QuietSteps
  <1> QED
    BY <1>1, <1>2, <1>3, <1>4, <1>5, NextCases DEF Rendering

LEMMA Inductive == Spec => []Inv
  <1>1. Init => Inv
    BY InitType, InitObjects DEF Inv
  <1>2. Inv /\ [Next]_vars => Inv'
    BY TypeStep, ObjectsStep DEF Inv
  <1> QED
    BY <1>1, <1>2, PTL DEF Spec

(* No deletion, of any handler in flight, takes the object of a saved item *)
(* but in the races that are named (CreateItemModal.tsx:1118).             *)
THEOREM PhotosKept == Spec => []PhotoSafe
  <1>1. Inv => PhotoSafe
    BY DEF Inv, Objects
  <1> QED
    BY <1>1, Inductive, PTL

(* One handler at a time, without failures, leaves no object behind.       *)
THEOREM NothingLeaked == Spec => []NoObjectLeaked
  <1>1. Inv => NoObjectLeaked
    BY DEF Inv, Objects
  <1> QED
    BY <1>1, Inductive, PTL

=============================================================================
