-------------------------- MODULE PhotoPreviewsProofs --------------------------
(***************************************************************************)
(* Theorems about PhotoPreviews, for every set of photos and of sessions,     *)
(* every choice of faults and every bound on them.                           *)
(***************************************************************************)
EXTENDS PhotoPreviews, FoldTheorems

UploadSteps == {"create", "put", "spawn", "store"}
DeleteSteps == {"remove", "clear", "delete"}

(* The request a session has in hand. An upload has its photo to itself, and    *)
(* the original is there once it has been put. A delete works on a photo that    *)
(* was live when it began and is still what it was then or deleted; unless a    *)
(* fault or a task met the photo, what a step has removed stays removed.       *)
RequestInv(s) ==
    LET x == request[s]
    IN  /\ x.step = "idle" <=> x.photo = None
        /\ x.step \in UploadSteps =>
              /\ row[x.photo] = "none"
              /\ x.step \in {"spawn", "store"} => x.photo \in original
              /\ \A o \in Sessions \ {s} : request[o].photo # x.photo
        /\ x.step \in DeleteSteps =>
              /\ x.photo \in dropped
              /\ \/ row[x.photo] = "deleted"
                 \/ row[x.photo] = "archived" /\ x.archived
                 \/ row[x.photo] = "committed" /\ ~x.archived
              /\ x.photo \notin strays =>
                    /\ task[x.photo] = "none"
                    /\ x.step \in {"clear", "delete"} => x.photo \notin original \cup archive
                    /\ x.step = "delete" => x.photo \notin preview

(* What the record of a photo says of its objects. *)
PhotoInv(p) ==
    /\ row[p] = "none" => p \notin archive
    /\ row[p] = "committed" =>
          /\ p \notin archive
          /\ p \notin dropped => p \in original
    /\ row[p] = "archived" =>
          /\ p \notin original
          /\ p \notin dropped => p \in archive
    /\ row[p] = "none" /\ p \notin strays /\ ~InRequest(p) =>
          /\ task[p] = "none"
          /\ p \notin original \cup preview
    /\ row[p] = "deleted" /\ p \notin strays =>
          /\ task[p] = "none"
          /\ p \notin original \cup archive \cup preview

RequestsInv == \A s \in Sessions : RequestInv(s)
PhotosInv == \A p \in Photos : PhotoInv(p)
Inv == TypeOK /\ RequestsInv /\ PhotosInv

-----------------------------------------------------------------------------
LEMMA InitInv == Init => Inv
<1> SUFFICES ASSUME Init PROVE Inv
  OBVIOUS
<1> USE PhotosAssumption
<1>1. TypeOK
  BY DEF Init, TypeOK, Requests, NoRequest
<1>2. RequestsInv
  BY DEF Init, RequestsInv, RequestInv, NoRequest, UploadSteps, DeleteSteps
<1>3. PhotosInv
  BY DEF Init, PhotosInv, PhotoInv
<1> QED
  BY <1>1, <1>2, <1>3 DEF Inv

(* A request that is not idle is about a photo. *)
LEMMA HasPhoto ==
    ASSUME Inv, NEW s \in Sessions, request[s].step # "idle"
    PROVE  request[s].photo \in Photos
BY DEF Inv, TypeOK, Requests, RequestsInv, RequestInv

LEMMA UploadBeginInv ==
    ASSUME Inv, NEW s \in Sessions, NEW p \in Photos, UploadBegin(s, p)
    PROVE  Inv'
<1> USE PhotosAssumption DEF UploadBegin, Begin, Doing
<1>1. TypeOK'
  BY DEF Inv, TypeOK, Requests
<1>2. request' = [request EXCEPT ![s] = [step |-> "create", photo |-> p, archived |-> row[p] = "archived"]]
  OBVIOUS
<1>3. RequestInv(s)'
  BY <1>2 DEF Inv, TypeOK, RequestInv, InRequest, UploadSteps, DeleteSteps
<1>4. ASSUME NEW o \in Sessions \ {s} PROVE RequestInv(o)'
  BY <1>2, <1>4 DEF Inv, TypeOK, RequestsInv, RequestInv, UploadSteps, DeleteSteps, InRequest
<1>5. ASSUME NEW q \in Photos PROVE PhotoInv(q)'
  <2>1. InRequest(q) => InRequest(q)'
    BY <1>2 DEF InRequest, Inv, TypeOK, RequestsInv, RequestInv
  <2> QED
    BY <1>5, <2>1 DEF Inv, TypeOK, PhotosInv, PhotoInv
<1> QED
  BY <1>1, <1>3, <1>4, <1>5 DEF Inv, RequestsInv, PhotosInv

LEMMA UploadStepInv ==
    ASSUME Inv, NEW s \in Sessions, UploadStep(s)
    PROVE  Inv'
<1> USE PhotosAssumption
<1> PICK p \in Photos : p = request[s].photo
  BY HasPhoto DEF UploadStep
<1>0. /\ request[s].step \in UploadSteps
      /\ request[s].step \in {"create", "put", "spawn"}
      /\ row[p] = "none"
      /\ \A o \in Sessions \ {s} : request[o].photo # p
  BY DEF UploadStep, UploadSteps, Inv, RequestsInv, RequestInv
<1>1. TypeOK'
  BY <1>0 DEF UploadStep, Goto, After, Inv, TypeOK, Requests
<1>2. /\ request' = [request EXCEPT ![s].step = After(request[s].step)]
      /\ request'[s].photo = p
      /\ request'[s].step = After(request[s].step)
      /\ \A o \in Sessions \ {s} : request'[o] = request[o]
      /\ request' \in [Sessions -> Requests]
  BY <1>1 DEF UploadStep, Goto, Inv, TypeOK, Requests
<1>3. RequestInv(s)'
  BY <1>0, <1>2 DEF UploadStep, After, Inv, TypeOK, RequestsInv, RequestInv, UploadSteps, DeleteSteps
<1>4. ASSUME NEW o \in Sessions \ {s} PROVE RequestInv(o)'
  BY <1>0, <1>2, <1>4 DEF UploadStep, Spawns, Inv, TypeOK, RequestsInv, RequestInv, UploadSteps, DeleteSteps
<1>5. ASSUME NEW q \in Photos PROVE PhotoInv(q)'
  <2>1. InRequest(q)' = InRequest(q) /\ InRequest(p)
    BY <1>2 DEF InRequest
  <2>2. row' = row /\ archive' = archive /\ dropped' = dropped /\ preview' = preview /\ strays' = strays
    BY DEF UploadStep
  <2>3. q # p => task'[q] = task[q] /\ (q \in original' <=> q \in original)
    BY DEF UploadStep, Inv, TypeOK
  <2> QED
    BY <1>0, <1>5, <2>1, <2>2, <2>3 DEF Inv, PhotosInv, PhotoInv
<1> QED
  BY <1>1, <1>3, <1>4, <1>5 DEF Inv, RequestsInv, PhotosInv

LEMMA UploadCommitInv ==
    ASSUME Inv, NEW s \in Sessions, UploadCommit(s)
    PROVE  Inv'
<1> USE PhotosAssumption
<1> PICK p \in Photos : p = request[s].photo
  BY HasPhoto DEF UploadCommit, Doing
<1>0. /\ request[s].step = "store"
      /\ row[p] = "none" /\ p \in original
      /\ \A o \in Sessions \ {s} : request[o].photo # p
  BY DEF UploadCommit, Doing, UploadSteps, Inv, RequestsInv, RequestInv
<1>1. TypeOK'
  <2>1. Size[p] \in Int /\ used' = used + Size[p]
    BY DEF UploadCommit
  <2>2. row' = [row EXCEPT ![p] = "committed"] /\ request' = [request EXCEPT ![s] = NoRequest]
    BY DEF UploadCommit, End
  <2> QED
    BY <2>1, <2>2 DEF UploadCommit, NoRequest, Inv, TypeOK, Requests
<1>2. /\ request'[s] = NoRequest
      /\ \A o \in Sessions \ {s} : request'[o] = request[o]
      /\ row'[p] = "committed"
      /\ \A q \in Photos \ {p} : row'[q] = row[q]
  BY DEF UploadCommit, End, Inv, TypeOK
<1>3. RequestInv(s)'
  BY <1>2 DEF NoRequest, RequestInv, UploadSteps, DeleteSteps
<1>4. ASSUME NEW o \in Sessions \ {s} PROVE RequestInv(o)'
  <2>1. \A r \in Sessions : request'[r].photo \in {request[r].photo, None}
    BY <1>2 DEF NoRequest
  <2>2. request[o].step = "idle" \/ request[o].photo \in Photos \ {p}
    BY <1>0, HasPhoto
  <2> QED
    BY <1>2, <2>1, <2>2 DEF UploadCommit, Inv, RequestsInv, RequestInv, UploadSteps, DeleteSteps
<1>5. ASSUME NEW q \in Photos PROVE PhotoInv(q)'
  <2>1. q # p => InRequest(q)' = InRequest(q)
    BY <1>2 DEF InRequest, NoRequest
  <2> QED
    BY <1>0, <1>2, <1>5, <2>1 DEF UploadCommit, Inv, PhotosInv, PhotoInv
<1> QED
  BY <1>1, <1>3, <1>4, <1>5 DEF Inv, RequestsInv, PhotosInv

(* A request that ends leaves the others as they are. *)
LEMMA Ended ==
    ASSUME Inv, NEW s \in Sessions, End(s)
    PROVE  /\ request' \in [Sessions -> Requests]
           /\ request'[s] = NoRequest
           /\ RequestInv(s)'
           /\ \A o \in Sessions \ {s} : request'[o] = request[o]
           /\ \A q \in Photos : q # request[s].photo => (InRequest(q)' <=> InRequest(q))
<1> USE PhotosAssumption DEF End, NoRequest
<1>1. request' \in [Sessions -> Requests] /\ request'[s] = NoRequest
  BY DEF Inv, TypeOK, Requests
<1>2. \A o \in Sessions \ {s} : request'[o] = request[o]
  BY DEF Inv, TypeOK
<1>3. RequestInv(s)'
  BY <1>1 DEF RequestInv, UploadSteps, DeleteSteps
<1>4. \A q \in Photos : q # request[s].photo => (InRequest(q)' <=> InRequest(q))
  BY <1>1, <1>2 DEF InRequest
<1> QED
  BY <1>1, <1>2, <1>3, <1>4

(* What the steps of a request say of its photo. *)
LEMMA UploadHas ==
    ASSUME Inv, NEW s \in Sessions, request[s].step \in UploadSteps
    PROVE  /\ request[s].photo \in Photos
           /\ row[request[s].photo] = "none"
           /\ \A o \in Sessions \ {s} : request[o].photo # request[s].photo
<1>1. request[s].photo \in Photos
  BY HasPhoto DEF UploadSteps
<1> QED
  BY <1>1 DEF Inv, RequestsInv, RequestInv

LEMMA DeleteHas ==
    ASSUME Inv, NEW s \in Sessions, request[s].step \in DeleteSteps
    PROVE  /\ request[s].photo \in Photos
           /\ row[request[s].photo] # "none"
           /\ request[s].photo \in dropped
<1>1. request[s].photo \in Photos
  BY HasPhoto DEF DeleteSteps
<1> QED
  BY <1>1 DEF Inv, RequestsInv, RequestInv

LEMMA UploadFailsInv ==
    ASSUME Inv, NEW s \in Sessions, UploadFails(s)
    PROVE  Inv'
<1> USE PhotosAssumption
<1> PICK p \in Photos : p = request[s].photo
  BY HasPhoto DEF UploadFails
<1>0. /\ row[p] = "none"
      /\ \A o \in Sessions \ {s} : request[o].photo # p
  BY UploadHas DEF UploadFails, UploadSteps
<1>1. End(s)
  BY DEF UploadFails
<1>2. TypeOK'
  BY <1>1, Ended DEF UploadFails, Fault, Inv, TypeOK
<1>3. ASSUME NEW o \in Sessions \ {s} PROVE RequestInv(o)'
  <2>1. request[o].step = "idle" \/ request[o].photo \in Photos \ {p}
    BY <1>0, HasPhoto
  <2> QED
    BY <1>1, <1>3, <2>1, Ended DEF UploadFails, NoRequest, Inv, RequestsInv, RequestInv, UploadSteps, DeleteSteps
<1>4. ASSUME NEW q \in Photos PROVE PhotoInv(q)'
  BY <1>0, <1>1, <1>4, Ended DEF UploadFails, Inv, PhotosInv, PhotoInv
<1> QED
  BY <1>1, <1>2, <1>3, <1>4, Ended DEF Inv, RequestsInv, PhotosInv

LEMMA UploadAbortsInv ==
    ASSUME Inv, NEW s \in Sessions, UploadAborts(s)
    PROVE  Inv'
<1> USE PhotosAssumption
<1> PICK p \in Photos : p = request[s].photo
  BY HasPhoto DEF UploadAborts, Doing
<1>0. /\ row[p] = "none"
      /\ \A o \in Sessions \ {s} : request[o].photo # p
  BY UploadHas DEF UploadAborts, UploadSteps, Doing
<1>1. End(s)
  BY DEF UploadAborts
<1>2. TypeOK'
  BY <1>1, Ended DEF UploadAborts, Fault, Inv, TypeOK
<1>3. ASSUME NEW o \in Sessions \ {s} PROVE RequestInv(o)'
  <2>1. request[o].step = "idle" \/ request[o].photo \in Photos \ {p}
    BY <1>0, HasPhoto
  <2> QED
    BY <1>1, <1>3, <2>1, Ended DEF UploadAborts, NoRequest, Inv, RequestsInv, RequestInv, UploadSteps, DeleteSteps
<1>4. ASSUME NEW q \in Photos PROVE PhotoInv(q)'
  BY <1>0, <1>1, <1>4, Ended DEF UploadAborts, Inv, PhotosInv, PhotoInv
<1> QED
  BY <1>1, <1>2, <1>3, <1>4, Ended DEF Inv, RequestsInv, PhotosInv

-----------------------------------------------------------------------------
(* The steps of a task change no request: a photo whose delete met no task and    *)
(* no fault has none.                                                        *)
LEMMA TaskStepInv ==
    ASSUME Inv, NEW p \in Photos, TaskRead(p) \/ TaskWrite(p) \/ TaskFails(p)
    PROVE  Inv'
<1> USE PhotosAssumption
<1>0. /\ task[p] # "none"
      /\ \A q \in Photos \ {p} : task'[q] = task[q]
      /\ preview \subseteq preview' /\ preview' \subseteq preview \cup {p}
      /\ strays \subseteq strays'
      /\ UNCHANGED <<row, original, archive, request, used, again, dropped>>
  BY DEF TaskRead, TaskWrite, TaskFails, Inv, TypeOK
<1>1. TypeOK'
  BY DEF TaskRead, TaskWrite, TaskFails, Fault, Inv, TypeOK
<1>2. ASSUME NEW o \in Sessions PROVE RequestInv(o)'
  <2>1. request[o].step = "idle" \/ request[o].photo \in Photos
    BY HasPhoto
  <2> QED
    BY <1>0, <1>2, <2>1 DEF Inv, RequestsInv, RequestInv, UploadSteps, DeleteSteps
<1>3. ASSUME NEW q \in Photos PROVE PhotoInv(q)'
  <2>1. InRequest(q)' = InRequest(q)
    BY <1>0 DEF InRequest
  <2> QED
    BY <1>0, <1>3, <2>1 DEF Inv, PhotosInv, PhotoInv
<1> QED
  BY <1>1, <1>2, <1>3 DEF Inv, RequestsInv, PhotosInv

-----------------------------------------------------------------------------
LEMMA DeleteBeginInv ==
    ASSUME Inv, NEW s \in Sessions, NEW p \in Photos, DeleteBegin(s, p)
    PROVE  Inv'
<1> USE PhotosAssumption DEF DeleteBegin, Begin, Doing, Live
<1>1. TypeOK'
  BY DEF Inv, TypeOK, Requests
<1>2. /\ request' = [request EXCEPT ![s] = [step |-> "remove", photo |-> p, archived |-> row[p] = "archived"]]
      /\ request'[s] = [step |-> "remove", photo |-> p, archived |-> row[p] = "archived"]
      /\ \A o \in Sessions \ {s} : request'[o] = request[o]
  BY DEF Inv, TypeOK
<1>3. RequestInv(s)'
  <2>1. request'[s].step = "remove" /\ request'[s].photo = p
    BY <1>2
  <2>3. request'[s].archived <=> row[p] = "archived"
    <3>1. CASE row[p] = "archived"
      <4>1. request'[s] = [step |-> "remove", photo |-> p, archived |-> TRUE]
        BY <1>2, <3>1
      <4> QED
        BY <4>1, <3>1
    <3>2. CASE row[p] # "archived"
      <4>1. request'[s] = [step |-> "remove", photo |-> p, archived |-> FALSE]
        BY <1>2, <3>2
      <4> QED
        BY <4>1, <3>2
    <3> QED
      BY <3>1, <3>2
  <2>2. /\ p \in dropped' /\ row' = row /\ task' = task
        /\ p \notin strays' => task[p] = "none"
        /\ row[p] \in {"committed", "archived"}
    OBVIOUS
  <2> QED
    BY <2>1, <2>2, <2>3 DEF RequestInv, UploadSteps, DeleteSteps
<1>4. ASSUME NEW o \in Sessions \ {s} PROVE RequestInv(o)'
  BY <1>2, <1>4 DEF Inv, RequestsInv, RequestInv, UploadSteps, DeleteSteps
<1>5. ASSUME NEW q \in Photos PROVE PhotoInv(q)'
  <2>1. InRequest(q) => InRequest(q)'
    BY <1>2 DEF InRequest, Inv, TypeOK, RequestsInv, RequestInv
  <2>2. row[q] = "none" => InRequest(q)' = InRequest(q)
    BY <1>2 DEF InRequest, Inv, TypeOK, RequestsInv, RequestInv
  <2> QED
    BY <1>5, <2>1, <2>2 DEF Inv, PhotosInv, PhotoInv
<1> QED
  BY <1>1, <1>3, <1>4, <1>5 DEF Inv, RequestsInv, PhotosInv

(* A delete that goes on: its request has the same photo. *)
LEMMA WentOn ==
    ASSUME Inv, NEW s \in Sessions, NEW step \in DeleteSteps, Goto(s, step)
    PROVE  /\ request' \in [Sessions -> Requests]
           /\ request'[s] = [step |-> step, photo |-> request[s].photo, archived |-> request[s].archived]
           /\ \A o \in Sessions \ {s} : request'[o] = request[o]
           /\ \A r \in Sessions : request'[r].photo = request[r].photo
           /\ \A q : InRequest(q)' = InRequest(q)
<1>1. request' = [request EXCEPT ![s].step = step]
  BY DEF Goto
<1>2. request' \in [Sessions -> Requests]
  BY <1>1 DEF Inv, TypeOK, Requests, DeleteSteps
<1>3. request'[s] = [step |-> step, photo |-> request[s].photo, archived |-> request[s].archived]
  BY <1>1 DEF Inv, TypeOK, Requests
<1>4. \A o \in Sessions \ {s} : request'[o] = request[o]
  BY <1>1 DEF Inv, TypeOK
<1>5. \A r \in Sessions : request'[r].photo = request[r].photo
  BY <1>3, <1>4
<1>6. \A q : InRequest(q)' = InRequest(q)
  BY <1>5 DEF InRequest
<1> QED
  BY <1>2, <1>3, <1>4, <1>5, <1>6

LEMMA DeleteOriginalInv ==
    ASSUME Inv, NEW s \in Sessions, DeleteOriginal(s)
    PROVE  Inv'
<1> USE PhotosAssumption
<1> PICK p \in Photos : p = request[s].photo
  BY HasPhoto DEF DeleteOriginal
<1>0. /\ row[p] # "none" /\ p \in dropped
      /\ request[s].step = "remove" /\ request[s].step \in DeleteSteps
  BY DeleteHas DEF DeleteOriginal, DeleteSteps
<1>1. /\ request' \in [Sessions -> Requests]
      /\ request'[s] = [step |-> "clear", photo |-> p, archived |-> request[s].archived]
      /\ \A o \in Sessions \ {s} : request'[o] = request[o]
      /\ \A q : InRequest(q)' = InRequest(q)
  <2>1. Goto(s, "clear") /\ "clear" \in DeleteSteps
    BY DEF DeleteOriginal, DeleteSteps
  <2> QED
    BY <2>1, WentOn
<1>2. /\ original' \subseteq original /\ original \subseteq original' \cup {p}
      /\ archive' \subseteq archive /\ archive \subseteq archive' \cup {p}
      /\ request[s].archived => p \notin archive'
      /\ ~request[s].archived => p \notin original'
      /\ UNCHANGED <<row, preview, task, used, faults, again, dropped, strays>>
  BY DEF DeleteOriginal
<1>3. TypeOK'
  BY <1>0, <1>1, <1>2 DEF Inv, TypeOK
<1>4. RequestInv(s)'
  <2>1. p \notin strays => p \notin original' \cup archive'
    BY <1>0, <1>2 DEF Inv, RequestsInv, RequestInv, PhotosInv, PhotoInv
  <2> QED
    BY <1>0, <1>1, <1>2, <2>1 DEF Inv, RequestsInv, RequestInv, UploadSteps, DeleteSteps
<1>5. ASSUME NEW o \in Sessions \ {s} PROVE RequestInv(o)'
  BY <1>0, <1>1, <1>2, <1>5 DEF Inv, RequestsInv, RequestInv, UploadSteps, DeleteSteps
<1>6. ASSUME NEW q \in Photos PROVE PhotoInv(q)'
  BY <1>0, <1>1, <1>2, <1>6 DEF Inv, PhotosInv, PhotoInv
<1> QED
  BY <1>3, <1>4, <1>5, <1>6 DEF Inv, RequestsInv, PhotosInv

LEMMA DeletePreviewInv ==
    ASSUME Inv, NEW s \in Sessions, DeletePreview(s)
    PROVE  Inv'
<1> USE PhotosAssumption
<1> PICK p \in Photos : p = request[s].photo
  BY HasPhoto DEF DeletePreview, Doing
<1>0. request[s].step = "clear" /\ request[s].step \in DeleteSteps
  BY DEF DeletePreview, DeleteSteps, Doing
<1>1. /\ request' \in [Sessions -> Requests]
      /\ request'[s] = [step |-> "delete", photo |-> p, archived |-> request[s].archived]
      /\ \A o \in Sessions \ {s} : request'[o] = request[o]
      /\ \A q : InRequest(q)' = InRequest(q)
  <2>1. Goto(s, "delete") /\ "delete" \in DeleteSteps
    BY DEF DeletePreview, DeleteSteps
  <2> QED
    BY <2>1, WentOn
<1>2. /\ preview' = preview \ {p}
      /\ UNCHANGED <<row, original, archive, task, used, faults, again, dropped, strays>>
  BY DEF DeletePreview, WithoutPreview
<1>3. TypeOK'
  BY <1>1, <1>2 DEF Inv, TypeOK
<1>4. RequestInv(s)'
  BY <1>0, <1>1, <1>2 DEF Inv, RequestsInv, RequestInv, UploadSteps, DeleteSteps
<1>5. ASSUME NEW o \in Sessions \ {s} PROVE RequestInv(o)'
  BY <1>0, <1>1, <1>2, <1>5 DEF Inv, RequestsInv, RequestInv, UploadSteps, DeleteSteps
<1>6. ASSUME NEW q \in Photos PROVE PhotoInv(q)'
  BY <1>1, <1>2, <1>6 DEF Inv, PhotosInv, PhotoInv
<1> QED
  BY <1>3, <1>4, <1>5, <1>6 DEF Inv, RequestsInv, PhotosInv

LEMMA DeleteCommitInv ==
    ASSUME Inv, NEW s \in Sessions, DeleteCommit(s)
    PROVE  Inv'
<1> USE PhotosAssumption
<1> PICK p \in Photos : p = request[s].photo
  BY HasPhoto DEF DeleteCommit, Doing
<1>0. request[s].step = "delete" /\ row[p] # "none" /\ p \in dropped
  BY DeleteHas DEF DeleteCommit, DeleteSteps, Doing
<1>1. End(s)
  BY DEF DeleteCommit
<1>2. /\ row' = [row EXCEPT ![p] = "deleted"]
      /\ row'[p] = "deleted"
      /\ \A q \in Photos \ {p} : row'[q] = row[q]
      /\ UNCHANGED <<original, archive, preview, task, faults, dropped, strays>>
  BY DEF DeleteCommit, Inv, TypeOK
<1>3. TypeOK'
  <2>1. used' \in Int /\ again' \in [Photos -> Nat]
    BY DEF DeleteCommit, GivenBack, Inv, TypeOK
  <2> QED
    BY <1>1, <1>2, <2>1, Ended DEF Inv, TypeOK
<1>4. ASSUME NEW o \in Sessions \ {s} PROVE RequestInv(o)'
  <2>1. request[o].step = "idle" \/ request[o].photo \in Photos
    BY HasPhoto
  <2>2. \A r \in Sessions : request'[r].photo \in {request[r].photo, None}
    BY <1>1, Ended DEF NoRequest
  <2> QED
    BY <1>0, <1>1, <1>2, <1>4, <2>1, <2>2, Ended DEF Inv, RequestsInv, RequestInv, UploadSteps, DeleteSteps
<1>5. ASSUME NEW q \in Photos PROVE PhotoInv(q)'
  <2>1. CASE q = p
    BY <1>0, <1>2, <2>1 DEF Inv, RequestsInv, RequestInv, PhotoInv, DeleteSteps
  <2>2. CASE q # p
    BY <1>1, <1>2, <1>5, <2>2, Ended DEF Inv, PhotosInv, PhotoInv
  <2> QED
    BY <2>1, <2>2
<1> QED
  BY <1>1, <1>3, <1>4, <1>5, Ended DEF Inv, RequestsInv, PhotosInv

LEMMA DeleteAbortsInv ==
    ASSUME Inv, NEW s \in Sessions, DeleteAborts(s)
    PROVE  Inv'
<1> USE PhotosAssumption
<1>0. request[s].photo \in Photos /\ row[request[s].photo] # "none"
  BY DeleteHas DEF DeleteAborts, DeleteSteps
<1>1. End(s)
  BY DEF DeleteAborts
<1>2. TypeOK'
  BY <1>1, Ended DEF DeleteAborts, Fault, Inv, TypeOK
<1>3. ASSUME NEW o \in Sessions \ {s} PROVE RequestInv(o)'
  <2>1. \A r \in Sessions : request'[r].photo \in {request[r].photo, None}
    BY <1>1, Ended DEF NoRequest
  <2>2. request[o].step = "idle" \/ request[o].photo \in Photos
    BY HasPhoto
  <2> QED
    BY <1>1, <1>3, <2>1, <2>2, Ended DEF DeleteAborts, Inv, RequestsInv, RequestInv, UploadSteps, DeleteSteps
<1>4. ASSUME NEW q \in Photos PROVE PhotoInv(q)'
  BY <1>0, <1>1, <1>4, Ended DEF DeleteAborts, Inv, PhotosInv, PhotoInv
<1> QED
  BY <1>1, <1>2, <1>3, <1>4, Ended DEF Inv, RequestsInv, PhotosInv

LEMMA ArchiveInv ==
    ASSUME Inv, NEW p \in Photos, Archive(p)
    PROVE  Inv'
<1> USE PhotosAssumption DEF Archive, Archived
<1>1. TypeOK'
  BY DEF Inv, TypeOK
<1>2. ASSUME NEW o \in Sessions PROVE RequestInv(o)'
  <2>1. request[o].step = "idle" \/ request[o].photo \in Photos \ {p}
    BY HasPhoto DEF InRequest
  <2> QED
    BY <1>2, <2>1 DEF Inv, TypeOK, RequestsInv, RequestInv, UploadSteps, DeleteSteps
<1>3. ASSUME NEW q \in Photos PROVE PhotoInv(q)'
  <2>1. InRequest(q)' = InRequest(q)
    BY DEF InRequest
  <2> QED
    BY <1>3, <2>1 DEF Inv, TypeOK, PhotosInv, PhotoInv
<1> QED
  BY <1>1, <1>2, <1>3 DEF Inv, RequestsInv, PhotosInv

LEMMA CrashInv ==
    ASSUME Inv, Crash
    PROVE  Inv'
<1> USE PhotosAssumption DEF Crash, NoRequest
<1>1. TypeOK'
  BY DEF Fault, Inv, TypeOK, Requests
<1>2. ASSUME NEW o \in Sessions PROVE RequestInv(o)'
  BY <1>2 DEF RequestInv, UploadSteps, DeleteSteps
<1>3. ASSUME NEW q \in Photos PROVE PhotoInv(q)'
  BY <1>3 DEF Inv, PhotosInv, PhotoInv
<1> QED
  BY <1>1, <1>2, <1>3 DEF Inv, RequestsInv, PhotosInv
-----------------------------------------------------------------------------
LEMMA NextInv == Inv /\ [Next]_vars => Inv'
<1> SUFFICES ASSUME Inv, [Next]_vars PROVE Inv'
  OBVIOUS
<1>1. ASSUME NEW s \in Sessions, NEW p \in Photos, UploadBegin(s, p) \/ DeleteBegin(s, p)
      PROVE  Inv'
  BY <1>1, UploadBeginInv, DeleteBeginInv
<1>2. ASSUME NEW s \in Sessions, RequestStep(s) PROVE Inv'
  BY <1>2, UploadStepInv, UploadCommitInv, DeleteOriginalInv, DeletePreviewInv, DeleteCommitInv
     DEF RequestStep
<1>3. ASSUME NEW s \in Sessions, UploadFails(s) \/ UploadAborts(s) \/ DeleteAborts(s)
      PROVE  Inv'
  BY <1>3, UploadFailsInv, UploadAbortsInv, DeleteAbortsInv
<1>4. ASSUME NEW p \in Photos, TaskStep(p) \/ TaskFails(p) \/ Archive(p) PROVE Inv'
  BY <1>4, TaskStepInv, ArchiveInv DEF TaskStep
<1>5. CASE Crash
  BY <1>5, CrashInv
<1>6. CASE UNCHANGED vars
  BY <1>6 DEF vars, Inv, TypeOK, RequestsInv, RequestInv, PhotosInv, PhotoInv, InRequest
<1> QED
  BY <1>1, <1>2, <1>3, <1>4, <1>5, <1>6 DEF Next

LEMMA Invariant == Spec => []Inv
BY InitInv, NextInv, PTL DEF Spec

(* Type correctness: a record, a bucket and a request never hold what the code    *)
(* has no value for, and an archived record has its archived object or a delete. *)
THEOREM TypeCorrect == Spec => []TypeOK
<1>1. Inv => TypeOK
  BY DEF Inv
<1> QED
  BY <1>1, Invariant, PTL

(* The original of a live photo stays until a delete of that photo begins. *)
THEOREM OriginalsStay == Spec => []OriginalStays
<1>1. Inv => OriginalStays
  BY DEF Inv, PhotosInv, PhotoInv, OriginalStays, Live, Shown
<1> QED
  BY <1>1, Invariant, PTL

(* An object without a record was met by a fault, or its photo was deleted       *)
(* beside the task that makes the preview: no other order of steps leaves one.  *)
THEOREM StraysHaveACause == Spec => []NoStrays
<1>1. Inv => NoStrays
  <2> SUFFICES ASSUME Inv, NEW p \in Photos,
                      p \in (original \cup archive \cup preview) \ strays,
                      ~Live(p), ~InRequest(p)
               PROVE  FALSE
    BY DEF NoStrays
  <2>1. row[p] = "none" \/ row[p] = "deleted"
    BY DEF Inv, TypeOK, Live
  <2> QED
    BY <2>1 DEF Inv, PhotosInv, PhotoInv
<1> QED
  BY <1>1, Invariant, PTL

-----------------------------------------------------------------------------
(* The sums of the bytes. *)
LivePhotos == {p \in Photos : Live(p)}
SecondTimes == [p \in Photos |-> again[p] * Size[p]]
Charged == Bytes(LivePhotos) - SumFunctionOnSet(SecondTimes, Photos)

LEMMA SubsetsAreSummed ==
    ASSUME NEW S \in SUBSET Photos
    PROVE  IsFiniteSet(S) /\ IntOn(Size, S)
BY PhotosAssumption, FS_Subset DEF IntOn

LEMMA ProductOfNats ==
    ASSUME NEW m \in Nat, NEW n \in Nat
    PROVE  m * n \in Int /\ (m + 1) * n = m * n + n
OBVIOUS

LEMMA SecondTimesAreInt ==
    ASSUME again \in [Photos -> Nat]
    PROVE  IntOn(SecondTimes, Photos)
<1> SUFFICES ASSUME NEW p \in Photos PROVE SecondTimes[p] \in Int
  BY DEF IntOn
<1>1. again[p] \in Nat /\ Size[p] \in Nat
  BY PhotosAssumption
<1> QED
  BY <1>1, ProductOfNats DEF SecondTimes

(* The balance of what is charged moves with the row of one photo. *)
LEMMA ChargedTypes ==
    ASSUME TypeOK
    PROVE  /\ Bytes(LivePhotos) \in Int
           /\ SumFunctionOnSet(SecondTimes, Photos) \in Int
<1>1. Bytes(LivePhotos) \in Int
  BY SubsetsAreSummed, SumType DEF Bytes, LivePhotos
<1>2. SumFunctionOnSet(SecondTimes, Photos) \in Int
  BY SecondTimesAreInt, SumType, PhotosAssumption DEF TypeOK
<1> QED
  BY <1>1, <1>2

LEMMA CommitBalances ==
    ASSUME Inv, used = Charged, NEW s \in Sessions, UploadCommit(s)
    PROVE  used' = Charged'
<1> PICK p \in Photos : p = request[s].photo /\ row[p] = "none"
  BY UploadHas DEF UploadCommit, Doing, UploadSteps
<1>1. /\ p \notin LivePhotos /\ LivePhotos \in SUBSET Photos
      /\ LivePhotos' = LivePhotos \cup {p}
  BY DEF UploadCommit, LivePhotos, Live, Inv, TypeOK
<1>2. Bytes(LivePhotos') = Size[p] + Bytes(LivePhotos)
  BY <1>1, SubsetsAreSummed, SumAdd, PhotosAssumption DEF Bytes
<1>3. SecondTimes' = SecondTimes
  BY DEF UploadCommit, SecondTimes
<1>4. used' = used + Size[p] /\ Size[p] \in Int
  BY PhotosAssumption DEF UploadCommit
<1> QED
  BY <1>2, <1>3, <1>4, ChargedTypes DEF Charged, Inv, Bytes

LEMMA DeleteBalances ==
    ASSUME Inv, used = Charged, NEW s \in Sessions, DeleteCommit(s)
    PROVE  used' = Charged'
<1> PICK p \in Photos : p = request[s].photo /\ row[p] # "none"
  BY DeleteHas DEF DeleteCommit, Doing, DeleteSteps
<1>0. /\ used' = used - Size[p] /\ Size[p] \in Nat
      /\ row' = [row EXCEPT ![p] = "deleted"]
  BY PhotosAssumption DEF DeleteCommit, GivenBack
<1>1. CASE row[p] = "deleted"
  <2>1. LivePhotos' = LivePhotos
    BY <1>0, <1>1 DEF LivePhotos, Live, Inv, TypeOK
  <2>2. again' = [again EXCEPT ![p] = again[p] + 1] /\ again' \in [Photos -> Nat]
    BY <1>1 DEF DeleteCommit, Inv, TypeOK
  <2>3. IntOn(SecondTimes, Photos) /\ IntOn(SecondTimes', Photos)
    <3>1. ASSUME NEW q \in Photos PROVE SecondTimes'[q] \in Int
      <4>1. again'[q] \in Nat /\ Size[q] \in Nat
        BY <2>2, PhotosAssumption
      <4> QED
        BY <4>1, ProductOfNats DEF SecondTimes
    <3> QED
      BY <3>1, SecondTimesAreInt DEF Inv, TypeOK, IntOn
  <2>4. \A q \in Photos \ {p} : SecondTimes'[q] = SecondTimes[q]
    BY <2>2 DEF SecondTimes, Inv, TypeOK
  <2>5. SecondTimes'[p] = SecondTimes[p] + Size[p] /\ SecondTimes[p] \in Int
    <3>1. again[p] \in Nat /\ again'[p] = again[p] + 1
      BY <2>2 DEF Inv, TypeOK
    <3>2. /\ again[p] * Size[p] \in Int
          /\ (again[p] + 1) * Size[p] = again[p] * Size[p] + Size[p]
      BY <1>0, <3>1, ProductOfNats
    <3> QED
      BY <3>1, <3>2 DEF SecondTimes
  <2>6. SumFunctionOnSet(SecondTimes', Photos)
          = SumFunctionOnSet(SecondTimes, Photos) - SecondTimes[p] + SecondTimes'[p]
    BY <2>3, <2>4, SumChange, PhotosAssumption
  <2> QED
    BY <1>0, <2>1, <2>5, <2>6, ChargedTypes DEF Charged, Inv, Bytes
<1>2. CASE row[p] # "deleted"
  <2>1. /\ p \in LivePhotos /\ LivePhotos \in SUBSET Photos
        /\ LivePhotos' = LivePhotos \ {p}
    BY <1>0, <1>2 DEF LivePhotos, Live, Inv, TypeOK
  <2>2. Bytes(LivePhotos) = Size[p] + Bytes(LivePhotos')
    BY <2>1, SubsetsAreSummed, SumRemove DEF Bytes
  <2>3. SecondTimes' = SecondTimes
    BY <1>2 DEF DeleteCommit, SecondTimes
  <2>4. Bytes(LivePhotos') \in Int
    BY <2>1, SubsetsAreSummed, SumType DEF Bytes
  <2> QED
    BY <1>0, <2>2, <2>3, <2>4, ChargedTypes DEF Charged, Inv, Bytes
<1> QED
  BY <1>1, <1>2

(* No other action moves the bytes, a live record or a second delete. *)
LEMMA OthersKeepTheBalance ==
    ASSUME Inv, [Next]_vars,
           \A s \in Sessions : ~UploadCommit(s) /\ ~DeleteCommit(s)
    PROVE  used' = used /\ again' = again /\ LivePhotos' = LivePhotos
<1>1. ASSUME NEW p \in Photos, Archive(p) PROVE LivePhotos' = LivePhotos
  BY <1>1 DEF Archive, LivePhotos, Live, Inv, TypeOK
<1>2. row' = row => LivePhotos' = LivePhotos
  BY DEF LivePhotos, Live
<1>3. \/ used' = used /\ again' = again /\ row' = row
      \/ \E p \in Photos : Archive(p)
  BY DEF Next, vars, RequestStep, TaskStep, UploadBegin, UploadStep, UploadFails, UploadAborts,
         TaskRead, TaskWrite, TaskFails, DeleteBegin, DeleteOriginal, DeletePreview, DeleteAborts, Crash
<1> QED
  BY <1>1, <1>2, <1>3 DEF Archive

(* photos_bytes is what the live photos take, less what second deletes of a       *)
(* deleted photo gave back: uploads, archiving, faults and crashes in any order *)
(* never unbalance it.                                                       *)
THEOREM BytesBalance == Spec => []PhotoBytesAreTheLivePhotos
<1>1. Init => used = Charged
  <2> SUFFICES ASSUME Init PROVE used = Charged
    OBVIOUS
  <2>1. LivePhotos = {}
    BY DEF Init, LivePhotos, Live
  <2>2. Bytes(LivePhotos) = 0
    BY <2>1, SumEmpty DEF Bytes
  <2>3. IntOn(SecondTimes, Photos) /\ \A p \in Photos : SecondTimes[p] = 0
    BY PhotosAssumption DEF Init, IntOn, SecondTimes
  <2>4. SumFunctionOnSet(SecondTimes, Photos) = 0
    BY <2>3, SumOfZeros, PhotosAssumption
  <2> QED
    BY <2>2, <2>4 DEF Init, Charged
<1>2. Inv /\ used = Charged /\ [Next]_vars => (used = Charged)'
  <2> SUFFICES ASSUME Inv, used = Charged, [Next]_vars PROVE used' = Charged'
    OBVIOUS
  <2>1. CASE \A s \in Sessions : ~UploadCommit(s) /\ ~DeleteCommit(s)
    BY <2>1, OthersKeepTheBalance DEF Charged, Bytes, SecondTimes
  <2> QED
    BY <2>1, CommitBalances, DeleteBalances
<1>3. used = Charged <=> PhotoBytesAreTheLivePhotos
  BY DEF PhotoBytesAreTheLivePhotos, Charged, LivePhotos, SecondTimes
<1> QED
  BY <1>1, <1>2, <1>3, Invariant, PTL DEF Spec
=============================================================================
