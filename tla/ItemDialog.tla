------------------------------ MODULE ItemDialog ------------------------------
(***************************************************************************)
(* The dialogs that create and edit an item, CreateItemModal and           *)
(* EditItemModal: the form's photo, the object store behind FilesService,  *)
(* the item that refers to an object, and the camera.                      *)
(*                                                                         *)
(* A handler that awaits is a task.  It keeps what it read when it began   *)
(* (its closure) and, when it goes on, finds the dialog as others left it; *)
(* only an upload and a submit make the dialog busy.  The page unmounts    *)
(* the create dialog when it closes: what its tasks then set is lost, but  *)
(* what they delete, save or close is not.  The edit dialog stays mounted. *)
(***************************************************************************)
EXTENDS Integers, FiniteSets

CONSTANTS Modes,      \* the dialogs a behaviour may be about: "create", "edit"
          Tasks,      \* bound: handlers in flight at once
          MaxUploads, \* bound: objects put in the store
          MaxAsks,    \* bound: requests for the camera
          MaxFaults   \* bound: failed commands and lost answers

ASSUME DialogAssumption ==
    /\ Modes \subseteq {"create", "edit"}
    /\ Tasks \subseteq Nat
    /\ {MaxUploads, MaxAsks, MaxFaults} \subseteq Nat

VARIABLES
    mode,    \* which dialog: never changes
    ui,      \* the dialog's React state
    task,
    asks,    \* getUserMedia calls that are pending, of a mounted dialog
    strays,  \* those whose dialog was unmounted, and the streams they gave
    asked,   \* how many there were
    lit,     \* streams whose camera is on
    store,   \* the objects
    made,    \* how many there were
    saved,   \* the photos that items have: at most one when editing
    risked,  \* history: photos that lose their object to a known race
    late,    \* history: the stream held came, or stayed, after a close
    calm,    \* history: one task at a time, and nothing failed
    faults

cameraVars == <<asks, strays, asked, late>>
storeVars == <<store, made, saved>>
vars == <<mode, ui, task, cameraVars, lit, storeVars, risked, calm, faults>>

None == 0
Photos == Nat \ {None}
Streams == 1 .. MaxAsks

Unmounted ==
    [open |-> FALSE, loading |-> FALSE, uploading |-> FALSE, photo |-> None,
     uploaded |-> None, preview |-> FALSE, changed |-> FALSE,
     camera |-> FALSE, stream |-> None, ready |-> FALSE, asking |-> FALSE]

NoTask == [kind |-> "none", pc |-> "idle", path |-> None, photo |-> None, mine |-> FALSE]

TypeOK ==
    /\ mode \in Modes
    /\ ui \in [open : BOOLEAN, loading : BOOLEAN, uploading : BOOLEAN,
               photo : Photos \cup {None}, uploaded : Photos \cup {None},
               preview : BOOLEAN, changed : BOOLEAN, camera : BOOLEAN,
               stream : Streams \cup {None}, ready : BOOLEAN, asking : BOOLEAN]
    /\ task \in [Tasks ->
           [kind : {"none", "file", "capture", "remove", "close", "submit"},
            pc : {"idle", "blob", "delete", "upload", "save"},
            path : Photos \cup {None}, photo : Photos \cup {None}, mine : BOOLEAN]]
    /\ asks \subseteq Streams /\ strays \subseteq Streams
    /\ asked \in 0 .. MaxAsks
    /\ lit \subseteq Streams
    /\ store \subseteq Photos /\ saved \subseteq Photos /\ risked \subseteq Photos
    /\ made \in Nat
    /\ late \in BOOLEAN /\ calm \in BOOLEAN
    /\ faults \in 0 .. MaxFaults

(* An item that is edited may have a photo.                                *)
Init ==
    /\ mode \in Modes
    /\ ui = Unmounted
    /\ task = [t \in Tasks |-> NoTask]
    /\ asks = {} /\ strays = {} /\ asked = 0 /\ lit = {}
    /\ saved \in IF mode = "edit" THEN {{}, {1}} ELSE {{}}
    /\ store = saved
    /\ made = Cardinality(saved)
    /\ risked = {} /\ late = FALSE /\ calm = TRUE
    /\ faults = 0

-----------------------------------------------------------------------------
(* What the dialog's functions do to its state *)

IsBusy == ui.loading \/ ui.uploading

(* The item's photo, as the edit dialog gets it.                           *)
Served == IF saved = {} THEN None ELSE CHOOSE p \in saved : TRUE

ResetToItem(u, p) == [u EXCEPT !.photo = p, !.preview = p # None,
                               !.uploaded = None, !.changed = FALSE]

CloseCamera(u) ==
    [u EXCEPT !.stream = None, !.ready = FALSE, !.asking = FALSE, !.camera = FALSE]

(* onClose: the page unmounts the create dialog with all its state.        *)
OnClose(u) == IF mode = "create" THEN Unmounted ELSE [u EXCEPT !.open = FALSE]

CloseModal(u) == OnClose(CloseCamera(u))

RemovedKeepingPhoto(u) ==
    IF mode = "create" THEN u ELSE [u EXCEPT !.preview = FALSE, !.changed = TRUE]
Removed(u) ==
    IF mode = "create" THEN [u EXCEPT !.photo = None]
    ELSE [u EXCEPT !.photo = None, !.preview = FALSE, !.changed = TRUE]

UploadedPhoto(u, p) ==
    [u EXCEPT !.uploaded = p, !.photo = p, !.preview = TRUE, !.changed = TRUE,
              !.uploading = FALSE]

UploadFailed(u) ==
    IF mode = "create" THEN [u EXCEPT !.photo = None, !.preview = FALSE, !.uploading = FALSE]
    ELSE [u EXCEPT !.uploading = FALSE]

CreateFailed(u) == [u EXCEPT !.photo = None, !.preview = FALSE, !.loading = FALSE]

(* React renders u: a stream that was held before is stopped by the        *)
(* cleanup of the effect on cameraStream, and an unmount leaves its tasks  *)
(* and camera requests on their own.                                       *)
LightsOffAtClose(u) == IF u.stream = None THEN lit \ {ui.stream} ELSE lit
LightsOff(u) == IF u.stream # ui.stream THEN lit \ {ui.stream} ELSE lit

Left(u) == mode = "create" /\ ui.open /\ ~u.open

Render(u, tasks) ==
    /\ ui' = u
    /\ task' = IF Left(u) THEN [t \in Tasks |-> [tasks[t] EXCEPT !.mine = FALSE]]
               ELSE tasks
    /\ lit' = LightsOff(u)
    /\ asks' = IF Left(u) THEN {} ELSE asks
    /\ strays' = IF Left(u) THEN strays \cup asks ELSE strays
    /\ late' = (late /\ u.stream # None)

(* A state setter of an unmounted dialog does nothing.                     *)
Set(t, u) == IF task[t].mine THEN u ELSE ui

End(t) == [task EXCEPT ![t] = NoTask]
Goto(t, pc) == [task EXCEPT ![t].pc = pc]

Fault == faults < MaxFaults /\ faults' = faults + 1

Idle(t) == task[t].pc = "idle" /\ \A s \in Tasks : s < t => task[s].pc # "idle"
Alone == \A t \in Tasks : task[t].pc = "idle"

Begin(t, kind, pc) ==
    [task EXCEPT ![t] = [kind |-> kind, pc |-> pc, path |-> ui.uploaded,
                         photo |-> ui.photo, mine |-> TRUE]]

(* The form takes input: no camera dialog lies over it.                    *)
FormActive == ui.open /\ ~ui.camera /\ ~IsBusy

-----------------------------------------------------------------------------
(* The form *)

OpenDialog ==
    /\ ~ui.open
    /\ Render(IF mode = "create" THEN [Unmounted EXCEPT !.open = TRUE]
              ELSE ResetToItem([ui EXCEPT !.open = TRUE], Served), task)
    /\ UNCHANGED <<mode, asked, storeVars, risked, calm, faults>>

(* A list that loads gives the edit dialog a new item object: the effect   *)
(* on item resets the form, and forgets an upload.                         *)
ItemReloaded ==
    /\ mode = "edit" /\ ui.open
    /\ Render(ResetToItem(ui, Served), task)
    /\ calm' = (calm /\ ui.uploaded = None /\ Alone)
    /\ UNCHANGED <<mode, asked, storeVars, risked, faults>>

ChooseFile(t) ==
    /\ FormActive /\ Idle(t)
    /\ made < MaxUploads
    /\ Render([ui EXCEPT !.uploading = TRUE],
              Begin(t, "file", IF ui.uploaded = None THEN "upload" ELSE "delete"))
    /\ calm' = (calm /\ Alone)
    /\ UNCHANGED <<mode, asked, storeVars, risked, faults>>

(* Without an uploaded object, cleanupUploadedFile returns at once.        *)
RemovePhoto(t) ==
    /\ FormActive /\ Idle(t)
    /\ ui.preview
    /\ IF ui.uploaded = None THEN Render(Removed(ui), task)
       ELSE Render(ui, Begin(t, "remove", "delete"))
    /\ calm' = (calm /\ Alone)
    /\ UNCHANGED <<mode, asked, storeVars, risked, faults>>

HandleCloseForgetting(t) ==
    /\ FormActive /\ Idle(t)
    /\ Render(CloseModal(ui), task)
    /\ calm' = (calm /\ Alone)
    /\ UNCHANGED <<mode, asked, storeVars, risked, faults>>

HandleClose(t) ==
    /\ FormActive /\ Idle(t)
    /\ IF ui.uploaded = None THEN Render(CloseModal(ui), task)
       ELSE Render(ui, Begin(t, "close", "delete"))
    /\ calm' = (calm /\ Alone)
    /\ UNCHANGED <<mode, asked, storeVars, risked, faults>>

(* The photo that is sent is at risk while another handler still has its   *)
(* deletion before it.                                                     *)
HandleSubmit(t) ==
    /\ FormActive /\ Idle(t)
    /\ Render([ui EXCEPT !.loading = TRUE],
              [Begin(t, "submit", "save") EXCEPT ![t].photo =
                  IF mode = "create" \/ ui.changed THEN ui.photo ELSE Served])
    /\ risked' = IF \E s \in Tasks : task[s].pc \in {"blob", "delete"}
                                        /\ task[s].path = ui.photo
                 THEN risked \cup ({ui.photo} \ {None}) ELSE risked
    /\ calm' = (calm /\ Alone)
    /\ UNCHANGED <<mode, asked, storeVars, faults>>

-----------------------------------------------------------------------------
(* Answers *)

(* What follows cleanupUploadedFile in each handler.                       *)
AfterDelete(t, u) ==
    CASE task[t].kind \in {"file", "capture"} -> Render(u, Goto(t, "upload"))
      [] task[t].kind = "remove" -> Render(Set(t, Removed(u)), End(t))
      [] task[t].kind = "submit" -> Render(Set(t, CreateFailed(u)), End(t))
      [] task[t].kind = "close" ->
           Render(OnClose(Set(t, CloseCamera(u))), End(t))

Deleted(t) ==
    /\ task[t].pc = "delete"
    /\ store' = store \ {task[t].path}
    /\ AfterDelete(t, Set(t, [ui EXCEPT !.uploaded = None]))
    /\ UNCHANGED <<mode, asked, made, saved, risked, calm, faults>>

(* The object store or the answer failed; the handler goes on.             *)
DeleteFails(t) ==
    /\ task[t].pc = "delete"
    /\ Fault
    /\ store' \in {store, store \ {task[t].path}}
    /\ AfterDelete(t, ui)
    /\ calm' = FALSE
    /\ UNCHANGED <<mode, asked, made, saved, risked>>

(* capturePhoto closes the camera when its upload is done.                 *)
Uploaded(t) ==
    LET p == made + 1
        u == UploadedPhoto(ui, p)
    IN  /\ task[t].pc = "upload"
        /\ made' = p
        /\ store' = store \cup {p}
        /\ Render(Set(t, IF task[t].kind = "capture" THEN CloseCamera(u) ELSE u), End(t))
        /\ UNCHANGED <<mode, asked, saved, risked, calm, faults>>

(* The file is refused, or stored and not answered (saveFile signs a URL   *)
(* after the PUT).  The edit form keeps a photo whose object is deleted.   *)
UploadFails(t) ==
    /\ task[t].pc = "upload"
    /\ Fault
    /\ \/ UNCHANGED <<store, made>>
       \/ made' = made + 1 /\ store' = store \cup {made + 1}
    /\ Render(Set(t, UploadFailed(ui)), End(t))
    /\ risked' = IF mode = "edit" THEN risked \cup ({ui.photo} \ {None}) ELSE risked
    /\ calm' = FALSE
    /\ UNCHANGED <<mode, asked, saved>>

(* Items service: the row first, the old photo's object after the commit.  *)
Save(t) ==
    LET new == {task[t].photo} \ {None}
    IN  /\ saved' = IF mode = "create" THEN saved \cup new ELSE new
        /\ \/ store' = (IF mode = "create" THEN store ELSE store \ (saved \ new))
              /\ UNCHANGED faults /\ UNCHANGED calm
           \/ mode = "edit" /\ saved \ new # {}
              /\ Fault /\ UNCHANGED store /\ calm' = FALSE

Submitted(t) ==
    /\ task[t].pc = "save"
    /\ Save(t)
    /\ Render(OnClose(Set(t, CloseCamera(
           [(IF mode = "create" THEN ui ELSE ResetToItem(ui, task[t].photo))
               EXCEPT !.loading = FALSE]))), End(t))
    /\ UNCHANGED <<mode, asked, made, risked>>

(* An error: of the create dialog, it deletes the upload.                  *)
SubmitError(t) ==
    IF mode = "edit" THEN Render([ui EXCEPT !.loading = FALSE], End(t))
    ELSE IF task[t].path = None THEN Render(Set(t, CreateFailed(ui)), End(t))
    ELSE Render(ui, Goto(t, "delete"))

SubmitRefused(t) ==
    /\ task[t].pc = "save"
    /\ SubmitError(t)
    /\ UNCHANGED <<mode, asked, storeVars, risked, calm, faults>>

(* The item is saved and the answer is an error (findOne signs a URL after *)
(* the commit) or does not arrive.                                         *)
AnswerLost(t) ==
    /\ task[t].pc = "save"
    /\ Fault
    /\ saved' = (IF mode = "create" THEN saved ELSE {}) \cup ({task[t].photo} \ {None})
    /\ store' = IF mode = "create" THEN store ELSE store \ (saved \ saved')
    /\ risked' = risked \cup ({task[t].photo} \ {None})
    /\ SubmitError(t)
    /\ calm' = FALSE
    /\ UNCHANGED <<mode, asked, made>>

-----------------------------------------------------------------------------
(* The camera *)

OpenCamera ==
    /\ FormActive /\ ~ui.asking
    /\ IF ui.stream # None
       THEN /\ Render([ui EXCEPT !.camera = TRUE, !.ready = FALSE], task)
            /\ UNCHANGED asked
       ELSE /\ asked < MaxAsks
            /\ asked' = asked + 1
            /\ ui' = [ui EXCEPT !.camera = TRUE, !.ready = FALSE, !.asking = TRUE]
            /\ asks' = asks \cup {asked + 1}
            /\ UNCHANGED <<task, lit, strays, late>>
    /\ UNCHANGED <<mode, storeVars, risked, calm, faults>>

Granted(s) ==
    /\ s \in asks
    /\ ui' = [ui EXCEPT !.stream = s, !.asking = FALSE]
    /\ asks' = asks \ {s}
    /\ lit' = LightsOff(ui') \cup {s}
    /\ late' = ~ui.camera
    /\ UNCHANGED <<mode, task, strays, asked, storeVars, risked, calm, faults>>

(* Nobody holds the stream that an unmounted dialog gets.                  *)
GrantedLate(s) ==
    /\ s \in strays \ lit
    /\ lit' = lit \cup {s}
    /\ UNCHANGED <<mode, ui, task, cameraVars, storeVars, risked, calm, faults>>

Denied(s) ==
    /\ s \in asks
    /\ ui' = [ui EXCEPT !.camera = FALSE, !.asking = FALSE, !.ready = FALSE]
    /\ asks' = asks \ {s}
    /\ late' = (ui.stream # None)
    /\ UNCHANGED <<mode, task, strays, asked, lit, storeVars, risked, calm, faults>>

DeniedLate(s) ==
    /\ s \in strays \ lit
    /\ strays' = strays \ {s}
    /\ UNCHANGED <<mode, ui, task, asks, asked, late, lit, storeVars, risked, calm, faults>>

PreviewStarts ==
    /\ ui.camera /\ ui.stream # None /\ ~ui.ready
    /\ ui' = [ui EXCEPT !.ready = TRUE]
    /\ UNCHANGED <<mode, task, cameraVars, lit, storeVars, risked, calm, faults>>

CancelCamera ==
    /\ ui.camera /\ ~IsBusy
    /\ Render(CloseCamera(ui), task)
    /\ UNCHANGED <<mode, asked, storeVars, risked, calm, faults>>

CapturePhoto(t) ==
    /\ ui.camera /\ ui.stream # None /\ ui.ready /\ ~IsBusy
    /\ Idle(t)
    /\ made < MaxUploads
    /\ Render(ui, Begin(t, "capture", "blob"))
    /\ calm' = (calm /\ Alone)
    /\ UNCHANGED <<mode, asked, storeVars, risked, faults>>

(* canvas.toBlob has an image, or none.                                    *)
BlobReady(t) ==
    /\ task[t].pc = "blob"
    /\ \/ Render(Set(t, [ui EXCEPT !.uploading = TRUE]),
                 Goto(t, IF task[t].path = None THEN "upload" ELSE "delete"))
       \/ Render(ui, End(t))
    /\ UNCHANGED <<mode, asked, storeVars, risked, calm, faults>>

-----------------------------------------------------------------------------

Answer(t) ==
    \/ Deleted(t) \/ DeleteFails(t)
    \/ Uploaded(t) \/ UploadFails(t)
    \/ Submitted(t) \/ SubmitRefused(t) \/ AnswerLost(t)
    \/ BlobReady(t)

Next ==
    \/ OpenDialog \/ ItemReloaded
    \/ \E t \in Tasks : ChooseFile(t) \/ RemovePhoto(t) \/ HandleClose(t)
           \/ HandleSubmit(t) \/ CapturePhoto(t) \/ Answer(t)
    \/ OpenCamera \/ PreviewStarts \/ CancelCamera
    \/ \E s \in Streams : Granted(s) \/ GrantedLate(s) \/ Denied(s) \/ DeniedLate(s)

Spec == Init /\ [][Next]_vars

-----------------------------------------------------------------------------
(* Properties *)

(* A saved item never refers to a deleted object: an upload that was saved *)
(* is not for a close to delete (CreateItemModal.tsx:1118), but for        *)
(* the known races: it was submitted while a close, a removal or a capture *)
(* had the deletion before it, its answer was lost, or the edit form kept  *)
(* the old path after a failed upload (EditItemModal.tsx:400).             *)
PhotoSafe == saved \subseteq store \cup risked

(* Who does one thing at a time, with nothing failing, leaves no object    *)
(* that neither an item nor the dialog knows (CreateItemModal.tsx:348,     *)
(* EditItemModal.tsx:272, items.service.ts:577).                           *)
NoObjectLeaked == calm => store \subseteq saved \cup {ui.uploaded}

(* The camera is on only for the stream the dialog holds, which it holds   *)
(* only with the camera dialog open (CreateItemModal.tsx:321, 378), unless *)
(* permission came after the close or another request was denied; and for  *)
(* what was granted after the unmount.                                     *)
CameraOffWhenClosed ==
    /\ lit \subseteq {ui.stream} \cup strays
    /\ ui.stream # None => ui.camera \/ late

=============================================================================
