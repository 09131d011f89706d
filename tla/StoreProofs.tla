---------------------------- MODULE StoreProofs ----------------------------
(***************************************************************************)
(* Proofs about the files of a client for any number of handles, files and *)
(* restarts, any schemas, and any number of failures or the end of the     *)
(* process after any step of an opening.  The first invariant is about the *)
(* files, the generations of their writers and what an opening has made;   *)
(* the second, PlaceInv, about the tables made for a schema and what a new *)
(* file holds, rests on it, and holds until a number is chosen unseen.     *)
(***************************************************************************)
EXTENDS Store, TLAPS

---------------------------------------------------------------------------
(* The inductive invariant.                                                 *)

\* There is a record of a database, or nothing, under every number; one with a
\* schema has passed the framework.
DiskInv ==
  /\ DOMAIN disk = File
  /\ \A f \in File : Exists(f) => FileOk(disk[f])
LayoutInv ==
  \A f \in File : Exists(f) /\ disk[f].descriptor # Unrecorded => disk[f].layout = "current"

\* The file the sidecar names is complete, and while numbers only grow, so are
\* all that were in use, and none lies above it.
UseInv ==
  /\ sidecar \in File /\ (sidecar # 0 => Initialised(sidecar))
  /\ used \subseteq File /\ astray \in BOOLEAN
  /\ ~ astray => \A f \in used : f <= sidecar /\ Initialised(f)
  /\ found # Absent => Exists(0)

\* A handle is behind its file, or has seen all of it.  Left behind, it leaves a
\* file in use that is the application's.
HandleOk(h) ==
  LET f == handles[h].file IN
    /\ f \in used /\ Initialised(f)
    /\ handles[h].generation \in Nat /\ handles[h].generation <= disk[f].generation
    /\ handles[h].generation = disk[f].generation => h \in abreast[f]
    /\ f # sidecar => Exists(sidecar) /\ disk[sidecar].descriptor = app
HandleInv ==
  /\ DOMAIN handles = Handle /\ DOMAIN abreast = File
  /\ \A h \in Handle : Open(h) =>
       DOMAIN handles[h] = {"file", "generation", "schema", "pending", "origin", "session"} /\ HandleOk(h)

\* What a rebuild has of the file in use, while it is another one: an answer
\* about the work in it, and its channels, if it read them.
Leaving ==
  /\ opening.fresh /\ (opening.step \in {"clear", "create"} \/ opening.file # sidecar) =>
       (disk[sidecar].descriptor # Unrecorded /\ disk[sidecar].work > 0 => opening.asked)
  /\ opening.step \notin {"clear", "create"} /\ opening.file # sidecar =>
       opening.unread \/ opening.carried = DOMAIN disk[sidecar].cursors
  /\ opening.step = "point" => opening.carried \subseteq DOMAIN disk[opening.file].cursors

\* Where an opening is: on the file in use until a new file is made, on one above
\* it, unless that was named unseen, until the sidecar moves.
OpeningOk ==
  /\ DOMAIN opening = {"handle", "asked", "carried", "unread", "file", "schema", "pending", "fresh", "step"}
  /\ opening.handle \in Handle /\ opening.file \in File /\ opening.fresh \in BOOLEAN
  /\ opening.schema # Unrecorded /\ Exists(opening.file)
  /\ opening.step \in {"clear", "create"} =>
       opening.fresh /\ opening.file = sidecar /\ disk[sidecar].descriptor # app
  /\ IF opening.fresh THEN opening.schema = app
     ELSE opening.file = sidecar /\ opening.schema \in {app, disk[sidecar].descriptor}
  /\ opening.step \in {"framework", "initialise", "carry", "point"} /\ opening.fresh /\ ~ astray =>
       opening.file > sidecar
  /\ opening.step = "initialise" => disk[opening.file].layout = "current"
  /\ opening.step \in {"carry", "point"} => opening.fresh
  /\ opening.step \in {"carry", "point", "finish"} =>
       Initialised(opening.file) /\ disk[opening.file].descriptor = opening.schema
  /\ opening.step = "finish" => opening.file = sidecar
  /\ Leaving
OpeningInv == opening # Idle => OpeningOk

IInv == DiskInv /\ LayoutInv /\ app \in Application /\ UseInv /\ HandleInv /\ OpeningInv

---------------------------------------------------------------------------
(* Lemmas.                                                                  *)

\* What is missing is no file.
LEMMA FileIsThere == ASSUME NEW file, FileOk(file) PROVE file # Absent
<1>1. "layout" \in DOMAIN file
  BY DEF FileOk, Blank
<1>2. "layout" \notin DOMAIN Absent
  BY DEF Absent
<1> QED BY <1>1, <1>2

\* A blank database is in order.
LEMMA BlankIsOk == FileOk(Blank)
  BY DEF FileOk, Blank

\* A schema can always be kept for itself.
LEMMA SameInPlace == ASSUME NEW s PROVE in_place(s, s)
  BY DEF in_place, ModelFits, SameField, Added

\* What holds of every handle holds of each.
LEMMA OneHandle ==
  ASSUME IInv, NEW h \in Handle, Open(h)
  PROVE  /\ HandleOk(h) /\ handles[h].file \in File /\ Initialised(handles[h].file)
         /\ Exists(handles[h].file) /\ FileOk(disk[handles[h].file])
         /\ disk[handles[h].file].generation \in Nat
         /\ DOMAIN handles[h] = {"file", "generation", "schema", "pending", "origin", "session"}
<1>1. HandleOk(h) /\ handles[h].file \in File /\ Initialised(handles[h].file)
  BY DEF IInv, HandleInv, HandleOk, UseInv
<1>2. Exists(handles[h].file) /\ FileOk(disk[handles[h].file])
  BY <1>1 DEF Initialised, IInv, DiskInv
<1> QED BY <1>1, <1>2 DEF IInv, HandleInv, FileOk

\* A step that keeps the file in use, the handles, and the files they have up to
\* the generation keeps the invariant of the handles.
LEMMA HandlesStay ==
  ASSUME IInv, UNCHANGED <<handles, abreast, sidecar, app>>, used \subseteq used',
         Exists(sidecar) /\ disk[sidecar].descriptor = app =>
           Exists(sidecar)' /\ disk'[sidecar].descriptor = app,
         \A h \in Handle : Open(h) =>
           LET f == handles[h].file IN
             Initialised(f)' /\ disk'[f].generation \in Nat /\ disk[f].generation <= disk'[f].generation
  PROVE HandleInv'
<1> SUFFICES ASSUME NEW h \in Handle, Open(h) PROVE HandleOk(h)'
  BY DEF IInv, HandleInv, Open
<1> DEFINE f == handles[h].file
<1>1. HandleOk(h) /\ disk[f].generation \in Nat
  BY OneHandle
<1>2. Initialised(f)' /\ disk'[f].generation \in Nat /\ disk[f].generation <= disk'[f].generation
  OBVIOUS
<1>3. handles[h].generation \in Nat /\ handles[h].generation <= disk'[f].generation
  BY <1>1, <1>2 DEF HandleOk
<1>4. handles[h].generation = disk'[f].generation => h \in abreast[f]
  BY <1>1, <1>2 DEF HandleOk
<1>5. f \in used' /\ (f # sidecar => Exists(sidecar)' /\ disk'[sidecar].descriptor = app)
  BY <1>1 DEF HandleOk
<1> QED BY <1>2, <1>3, <1>4, <1>5 DEF HandleOk, Initialised

---------------------------------------------------------------------------
(* Every step keeps the invariant.                                          *)

\* The invariant holds at first.
LEMMA Initial == Init => IInv
<1> SUFFICES ASSUME Init PROVE IInv
  OBVIOUS
<1> USE StoreAssumption DEF Init
<1>1. DiskInv /\ LayoutInv
  BY DEF DiskInv, LayoutInv, Exists, File
<1>2. UseInv
  <2>1. 0 \in File /\ disk[0] = found
    BY DEF File
  <2> QED BY <2>1 DEF UseInv, Exists
<1>3. HandleInv
  BY DEF HandleInv, Open
<1>4. OpeningInv
  BY DEF OpeningInv
<1> QED BY <1>1, <1>2, <1>3, <1>4 DEF IInv

\* Opening starts on the file in use.  Work that is not to be left behind unasked
\* is looked at here for the last time.
LEMMA StartKeeps ==
  ASSUME IInv, NEW h \in Handle, NEW discard \in BOOLEAN, NEW asked \in BOOLEAN, Start(h, discard, asked),
         UNCHANGED <<found, sidecar, app, used, astray>>,
         discard => asked \/ (Exists(sidecar) /\ (disk[sidecar].descriptor = app \/ disk[sidecar].work = 0))
  PROVE  /\ DiskInv' /\ LayoutInv' /\ UseInv' /\ OpeningInv'
         /\ \A f \in File : Exists(f) => disk'[f] = disk[f]
<1> DEFINE file == IF Exists(sidecar) THEN disk[sidecar] ELSE Blank
           plan == Choose(file, discard)
<1>1. FileOk(file) /\ file # Absent
  BY BlankIsOk, FileIsThere DEF IInv, DiskInv, UseInv
<1>2. disk' = [disk EXCEPT ![sidecar] = file] /\ DOMAIN disk = File /\ sidecar \in File
  BY DEF Start, IInv, DiskInv, UseInv
<1>3. \A f \in File : Exists(f) => disk'[f] = disk[f]
  BY <1>2
<1>4. DiskInv'
  BY <1>1, <1>2 DEF IInv, DiskInv, Exists
<1>5. UseInv'
  <2>1. \A f \in File : Initialised(f) => Initialised(f)'
    BY <1>3 DEF Initialised, Exists
  <2>2. found # Absent => disk'[0] # Absent
    BY <1>3, StoreAssumption DEF IInv, UseInv, Exists, File
  <2> QED BY <2>1, <2>2, <1>2 DEF IInv, UseInv, Exists
<1>6. file.descriptor # Unrecorded => file.layout = "current"
  BY <1>2 DEF IInv, LayoutInv, Blank
<1>7. LayoutInv'
  BY <1>2, <1>3, <1>6 DEF IInv, LayoutInv, Exists
<1>8. app # Unrecorded
  BY StoreAssumption DEF IInv
<1>9. /\ plan.schema # Unrecorded /\ plan.fresh \in BOOLEAN
      /\ plan.schema = app \/ (~ plan.fresh /\ plan.schema = file.descriptor)
  BY <1>8 DEF Choose, Plan
<1>10. plan.fresh => file.descriptor # app
  <2> SUFFICES ASSUME plan.fresh, file.descriptor = app PROVE FALSE
    OBVIOUS
  <2>1. file.layout = "current" /\ Fitting(file, app)
    BY <1>6, <1>8, SameInPlace DEF Fitting
  <2> QED BY <2>1 DEF Choose, Plan
<1>11. plan.fresh /\ file.descriptor # Unrecorded /\ file.work > 0 => asked
  <2> SUFFICES ASSUME plan.fresh, file.descriptor # Unrecorded, file.work > 0 PROVE asked
    OBVIOUS
  <2>1. discard /\ Exists(sidecar)
    BY <1>6 DEF Choose, Plan, Blank
  <2>2. file = disk[sidecar]
    BY <2>1
  <2> HIDE DEF file, plan
  <2>3. disk[sidecar].descriptor # app /\ disk[sidecar].work # 0
    BY <2>2, <1>10
  <2> QED BY <2>1, <2>3
<1>12. opening' = [handle |-> h, asked |-> asked /\ plan.fresh, carried |-> {}, unread |-> FALSE, file |-> sidecar,
                   schema |-> plan.schema, pending |-> plan.pending, fresh |-> plan.fresh,
                   step |-> IF plan.fresh THEN "clear" ELSE "framework"]
  BY DEF Start
<1>13. disk'[sidecar] = file
  BY <1>2
<1> HIDE DEF plan, file
<1>14. /\ DOMAIN opening' = {"handle", "asked", "carried", "unread", "file", "schema", "pending", "fresh", "step"}
       /\ opening'.handle = h /\ opening'.file = sidecar /\ opening'.fresh = plan.fresh
       /\ opening'.schema = plan.schema /\ opening'.step = (IF plan.fresh THEN "clear" ELSE "framework")
       /\ plan.fresh => opening'.asked = asked
  BY <1>12, <1>9
<1>15. Leaving'
  BY <1>9, <1>11, <1>13, <1>14 DEF Leaving
<1>16. OpeningOk'
  BY <1>1, <1>2, <1>9, <1>10, <1>13, <1>14, <1>15 DEF OpeningOk, Exists
<1> QED BY <1>3, <1>4, <1>5, <1>7, <1>16 DEF OpeningInv

\* What an opening in progress is about.
LEMMA OpeningAt ==
  ASSUME IInv, opening # Idle
  PROVE  /\ DOMAIN disk = File /\ sidecar \in File /\ OpeningOk
         /\ opening.file \in File /\ Exists(opening.file) /\ FileOk(disk[opening.file])
         /\ opening.handle \in Handle /\ DOMAIN handles = Handle /\ DOMAIN abreast = File
  BY DEF IInv, DiskInv, UseInv, HandleInv, OpeningInv, OpeningOk

\* Files above the one in use are removed, as far as they can be.
LEMMA ClearKeeps ==
  ASSUME IInv, clear
  PROVE  IInv'
<1>0. /\ opening.step = "clear" /\ opening.file = sidecar /\ opening.fresh /\ disk[sidecar].descriptor # app
      /\ DOMAIN disk = File /\ sidecar \in File /\ OpeningOk /\ Exists(sidecar)
  BY OpeningAt DEF clear, Doing, OpeningOk
<1>1. /\ UNCHANGED <<found, sidecar, app, handles, abreast, used, astray>>
      /\ opening' = [opening EXCEPT !.step = "create"]
  BY DEF clear, Then
<1>2. /\ DOMAIN disk' = File
      /\ \A n \in File : disk'[n] = disk[n] \/ disk'[n] = Absent
      /\ \A n \in File : n <= sidecar => disk'[n] = disk[n]
  <2>1. PICK stay : disk' = [n \in File |-> IF n \in Strays(opening.file) \ stay THEN Absent ELSE disk[n]]
    BY DEF clear
  <2>2. \A n \in File : n <= sidecar => n \notin Strays(sidecar)
    BY <1>0, StoreAssumption DEF Strays, File
  <2> QED BY <1>0, <2>1, <2>2
<1>3. DiskInv' /\ LayoutInv'
  BY <1>2 DEF IInv, DiskInv, LayoutInv, Exists
<1>4. disk'[sidecar] = disk[sidecar] /\ disk'[0] = disk[0]
  BY <1>0, <1>2, StoreAssumption DEF File
<1>5. UseInv'
  BY <1>1, <1>2, <1>4 DEF IInv, UseInv, Initialised, Exists
<1>6. HandleInv'
  <2>1. ASSUME NEW h \in Handle, Open(h)
        PROVE  /\ Initialised(handles[h].file)'
               /\ disk'[handles[h].file].generation \in Nat
               /\ disk[handles[h].file].generation <= disk'[handles[h].file].generation
    <3>1. handles[h].file = sidecar
      BY <1>0, <2>1, OneHandle DEF HandleOk
    <3> QED BY <2>1, <3>1, <1>1, <1>4, OneHandle DEF Initialised, Exists
  <2> QED BY <2>1, <1>0, <1>1, <1>4, HandlesStay DEF Exists
<1>7. /\ DOMAIN opening' = DOMAIN opening /\ opening'.step = "create"
      /\ opening'.handle = opening.handle /\ opening'.file = opening.file /\ opening'.asked = opening.asked
      /\ opening'.fresh = opening.fresh /\ opening'.schema = opening.schema
  BY <1>0, <1>1 DEF OpeningOk
<1>8. Leaving'
  BY <1>0, <1>1, <1>4, <1>7 DEF OpeningOk, Leaving
<1>9. OpeningOk'
  BY <1>0, <1>1, <1>4, <1>7, <1>8 DEF OpeningOk, Exists
<1> QED BY <1>1, <1>3, <1>5, <1>6, <1>9 DEF IInv, OpeningInv

\* A file is named: above every other, or one that may be there already.
LEMMA CreateKeeps ==
  ASSUME IInv, create
  PROVE  IInv'
<1>0. /\ opening.step = "create" /\ opening.file = sidecar /\ opening.fresh /\ opening.schema = app
      /\ DOMAIN disk = File /\ sidecar \in File /\ OpeningOk /\ Exists(sidecar)
  BY OpeningAt DEF create, Doing, OpeningOk
<1> DEFINE channels == DOMAIN disk[sidecar].cursors
<1>1. PICK next \in 1..MaxFile, carried \in {channels, {}} :
        /\ disk' = IF Exists(next) THEN disk ELSE [disk EXCEPT ![next] = Blank]
        /\ opening' = [opening EXCEPT !.step = "framework", !.file = next,
                                      !.carried = carried, !.unread = carried # channels]
        /\ astray' = (astray \/ ~ Next_free(next))
  BY <1>0 DEF create
<1> HIDE DEF channels
<1>2. UNCHANGED <<found, sidecar, app, handles, abreast, used>>
  BY DEF create
<1>3. next \in File
  BY StoreAssumption DEF File
<1>4. /\ DOMAIN disk' = File /\ Exists(next)'
      /\ \A n \in File : Exists(n) => disk'[n] = disk[n]
      /\ \A n \in File : disk'[n] = disk[n] \/ disk'[n] = Blank
  BY <1>0, <1>1, <1>3, BlankIsOk, FileIsThere DEF Exists
<1>5. DiskInv' /\ LayoutInv'
  <2>1. Blank.descriptor = Unrecorded
    BY DEF Blank
  <2> QED BY <1>4, <2>1, BlankIsOk DEF IInv, DiskInv, LayoutInv, Exists
<1>6. \A n \in File : Initialised(n) => Initialised(n)'
  BY <1>4 DEF Initialised, Exists
<1>7. UseInv'
  <2>1. found # Absent => Exists(0)'
    BY <1>4, StoreAssumption DEF IInv, UseInv, Exists, File
  <2>2. astray' \in BOOLEAN /\ (~ astray' => ~ astray)
    BY <1>1 DEF IInv, UseInv
  <2> QED BY <1>2, <1>6, <2>1, <2>2 DEF IInv, UseInv
<1>8. HandleInv'
  <2>1. ASSUME NEW h \in Handle, Open(h)
        PROVE  /\ Initialised(handles[h].file)'
               /\ disk'[handles[h].file].generation \in Nat
               /\ disk[handles[h].file].generation <= disk'[handles[h].file].generation
    <3>1. /\ handles[h].file \in File /\ Initialised(handles[h].file) /\ Exists(handles[h].file)
          /\ disk[handles[h].file].generation \in Nat
      BY <2>1, OneHandle
    <3>2. disk'[handles[h].file] = disk[handles[h].file]
      BY <3>1, <1>4
    <3>3. handles' = handles
      BY <1>2
    <3>4. Initialised(handles[h].file)'
      BY <3>1, <3>3, <1>6
    <3> QED BY <3>1, <3>2, <3>4
  <2>2. disk'[sidecar] = disk[sidecar]
    BY <1>0, <1>4
  <2> QED BY <2>1, <2>2, <1>2, HandlesStay DEF Exists
<1>9. /\ DOMAIN opening' = DOMAIN opening /\ opening'.step = "framework" /\ opening'.file = next
      /\ opening'.handle = opening.handle /\ opening'.asked = opening.asked
      /\ opening'.fresh = opening.fresh /\ opening'.schema = opening.schema
      /\ opening'.carried = carried /\ opening'.unread = (carried # channels)
  BY <1>0, <1>1 DEF OpeningOk
<1>10. disk'[sidecar] = disk[sidecar]
  BY <1>0, <1>4
<1>11. ~ astray' => next > sidecar
  <2> SUFFICES ASSUME Next_free(next) PROVE next > sidecar
    BY <1>1
  <2>1. CASE sidecar = 0
    BY <2>1, StoreAssumption
  <2>2. CASE sidecar # 0
    <3>1. sidecar \in 1..MaxFile
      BY <2>2, <1>0, StoreAssumption DEF File
    <3> QED BY <3>1, <1>0, StoreAssumption DEF Next_free
  <2> QED BY <2>1, <2>2
<1>12. Leaving'
  <2>1. next # sidecar => opening.asked \/ ~ (disk[sidecar].descriptor # Unrecorded /\ disk[sidecar].work > 0)
    BY <1>0 DEF OpeningOk, Leaving
  <2> QED BY <1>1, <1>2, <1>9, <1>10, <2>1 DEF Leaving, channels
<1>13. OpeningOk'
  BY <1>0, <1>2, <1>3, <1>4, <1>9, <1>11, <1>12 DEF OpeningOk
<1> QED BY <1>2, <1>5, <1>7, <1>8, <1>13 DEF IInv, OpeningInv

\* A step that makes one file, and takes no generation, descriptor or framework
\* back, keeps the invariant but for the opening's part.
LEMMA FileMade ==
  ASSUME IInv, NEW f \in File, UNCHANGED <<found, sidecar, app, handles, abreast, used, astray>>,
         DOMAIN disk' = File, \A n \in File : n # f => disk'[n] = disk[n],
         FileOk(disk'[f]), disk[f].generation <= disk'[f].generation, disk'[f].layout = "current",
         disk[f].descriptor # Unrecorded => disk'[f].descriptor # Unrecorded,
         f = sidecar /\ disk[f].descriptor = app => disk'[f].descriptor = app,
         OpeningOk'
  PROVE  IInv'
<1>1. disk'[f] # Absent
  BY FileIsThere
<1>2. DiskInv' /\ LayoutInv'
  BY DEF IInv, DiskInv, LayoutInv, Exists
<1>3. ASSUME NEW n \in File, Initialised(n)
      PROVE  /\ disk'[n] # Absent /\ disk'[n].generation > 0 /\ disk'[n].descriptor # Unrecorded
             /\ disk'[n].generation \in Nat /\ disk[n].generation <= disk'[n].generation
  <2>1. FileOk(disk[n])
    BY <1>3 DEF IInv, DiskInv, Initialised
  <2>2. CASE n = f
    BY <1>1, <1>3, <2>1, <2>2 DEF Initialised, FileOk
  <2>3. CASE n # f
    BY <1>3, <2>1, <2>3 DEF Initialised, FileOk, Exists
  <2> QED BY <2>2, <2>3
<1>4. UseInv'
  <2>1. found # Absent => disk'[0] # Absent
    BY <1>1, StoreAssumption DEF IInv, UseInv, Exists, File
  <2> QED BY <1>3, <2>1 DEF IInv, UseInv, Exists, Initialised
<1>5. HandleInv'
  <2>1. ASSUME NEW h \in Handle, Open(h)
        PROVE  /\ Initialised(handles[h].file)'
               /\ disk'[handles[h].file].generation \in Nat
               /\ disk[handles[h].file].generation <= disk'[handles[h].file].generation
    <3>1. handles[h].file \in File /\ Initialised(handles[h].file)
      BY <2>1, OneHandle
    <3>2. /\ disk'[handles[h].file] # Absent /\ disk'[handles[h].file].generation > 0
          /\ disk'[handles[h].file].descriptor # Unrecorded
          /\ disk'[handles[h].file].generation \in Nat
          /\ disk[handles[h].file].generation <= disk'[handles[h].file].generation
      BY <3>1, <1>3
    <3> QED BY <3>2 DEF Initialised, Exists
  <2>2. Exists(sidecar) /\ disk[sidecar].descriptor = app => Exists(sidecar)' /\ disk'[sidecar].descriptor = app
    BY <1>1 DEF IInv, UseInv, Exists
  <2> QED BY <2>1, <2>2, HandlesStay
<1> QED BY <1>2, <1>4, <1>5 DEF IInv, OpeningInv

\* The transaction that makes the file complete, and what precedes it.
LEMMA MakingKeeps ==
  ASSUME IInv, framework \/ initialise
  PROVE  IInv'
<1>0. /\ DOMAIN disk = File /\ sidecar \in File /\ OpeningOk /\ opening # Idle
      /\ opening.file \in File /\ Exists(opening.file) /\ FileOk(disk[opening.file])
  BY OpeningAt DEF framework, initialise, Doing
<1>1. PICK f \in File : f = opening.file
  BY <1>0
<1> DEFINE s == opening.schema
<1>2. UNCHANGED <<found, sidecar, app, handles, abreast, used, astray>>
  BY DEF framework, initialise
<1>3. /\ DOMAIN disk' = File /\ \A n \in File : n # f => disk'[n] = disk[n]
      /\ FileOk(disk'[f]) /\ disk[f].generation <= disk'[f].generation
      /\ disk'[f].layout = "current" /\ disk'[f].work = disk[f].work /\ disk'[f].cursors = disk[f].cursors
  <2>1. CASE framework
    BY <2>1, <1>0, <1>1 DEF framework, FileOk, Blank
  <2>2. CASE initialise
    <3>1. disk[f].layout = "current"
      BY <2>2, <1>0, <1>1 DEF initialise, Doing, OpeningOk
    <3> QED BY <2>2, <3>1, <1>0, <1>1 DEF initialise, FileOk, Blank
  <2> QED BY <2>1, <2>2
<1>4. CASE framework
  <2>1. disk'[f].descriptor = disk[f].descriptor /\ disk'[f].generation = disk[f].generation
    BY <1>0, <1>1, <1>4 DEF framework, FileOk, Blank
  <2>2. opening' = [opening EXCEPT !.step = "initialise"] /\ opening.step = "framework"
    BY <1>4 DEF framework, Then, Doing
  <2>3. /\ DOMAIN opening' = DOMAIN opening /\ opening'.step = "initialise" /\ opening'.file = f
        /\ opening'.handle = opening.handle /\ opening'.asked = opening.asked
        /\ opening'.fresh = opening.fresh /\ opening'.schema = s
        /\ opening'.carried = opening.carried /\ opening'.unread = opening.unread
    BY <1>0, <1>1, <2>2 DEF OpeningOk
  <2>4. /\ disk'[sidecar].descriptor = disk[sidecar].descriptor /\ disk'[sidecar].work = disk[sidecar].work
        /\ disk'[sidecar].cursors = disk[sidecar].cursors
    BY <1>0, <1>3, <2>1
  <2>5. Leaving'
    BY <1>0, <1>1, <1>2, <2>2, <2>3, <2>4 DEF OpeningOk, Leaving
  <2>6. disk'[f] # Absent
    BY <1>3, FileIsThere
  <2>7. OpeningOk'
    BY <1>0, <1>1, <1>2, <1>3, <2>2, <2>3, <2>4, <2>5, <2>6 DEF OpeningOk, Exists
  <2>8. /\ disk[f].descriptor # Unrecorded => disk'[f].descriptor # Unrecorded
        /\ f = sidecar /\ disk[f].descriptor = app => disk'[f].descriptor = app
    BY <2>1
  <2> QED BY <2>7, <2>8, <1>0, <1>1, <1>2, <1>3, FileMade
<1>5. CASE initialise
  <2>1. disk'[f].descriptor = s /\ disk'[f].generation > 0
    BY <1>0, <1>1, <1>5 DEF initialise, FileOk, Blank
  <2>2. opening' = [opening EXCEPT !.step = IF opening.fresh THEN "carry" ELSE "finish"]
        /\ opening.step = "initialise"
    BY <1>5 DEF initialise, Then, Doing
  <2>3. /\ DOMAIN opening' = DOMAIN opening /\ opening'.step = (IF opening.fresh THEN "carry" ELSE "finish")
        /\ opening'.file = f /\ opening'.handle = opening.handle /\ opening'.asked = opening.asked
        /\ opening'.fresh = opening.fresh /\ opening'.schema = s
        /\ opening'.carried = opening.carried /\ opening'.unread = opening.unread
    BY <1>0, <1>1, <2>2 DEF OpeningOk
  <2>4. f # sidecar => disk'[sidecar] = disk[sidecar]
    BY <1>0, <1>3
  <2>5. Leaving'
    BY <1>0, <1>1, <1>2, <2>2, <2>3, <2>4 DEF OpeningOk, Leaving
  <2>6. disk'[f] # Absent /\ s # Unrecorded
    BY <1>0, <1>3, FileIsThere DEF OpeningOk
  <2>7. Initialised(f)'
    BY <2>1, <2>6 DEF Initialised, Exists
  <2>8. OpeningOk'
    BY <1>0, <1>1, <1>2, <1>3, <2>1, <2>2, <2>3, <2>4, <2>5, <2>6, <2>7 DEF OpeningOk, Initialised, Exists
  <2>9. /\ disk[f].descriptor # Unrecorded => disk'[f].descriptor # Unrecorded
        /\ f = sidecar /\ disk[f].descriptor = app => disk'[f].descriptor = app
    BY <1>0, <1>1, <2>1, <2>6 DEF OpeningOk
  <2> QED BY <2>8, <2>9, <1>0, <1>1, <1>2, <1>3, FileMade
<1> QED BY <1>4, <1>5

\* A write of the new file's subscriptions: a handle that has it is left behind.
LEMMA CarryKeeps ==
  ASSUME IInv, carry
  PROVE  IInv'
<1>0. /\ DOMAIN disk = File /\ sidecar \in File /\ OpeningOk /\ opening # Idle /\ opening.step = "carry"
      /\ opening.file \in File /\ Exists(opening.file) /\ FileOk(disk[opening.file])
      /\ DOMAIN abreast = File
  BY OpeningAt DEF carry, Doing
<1>1. PICK f \in File : f = opening.file
  BY <1>0
<1>2. /\ UNCHANGED <<found, sidecar, app, handles, used, astray>>
      /\ opening' = [opening EXCEPT !.step = "point"]
  BY DEF carry, Then
<1>3. /\ DOMAIN opening' = DOMAIN opening /\ opening'.step = "point" /\ opening'.file = f
      /\ opening'.handle = opening.handle /\ opening'.asked = opening.asked
      /\ opening'.fresh = opening.fresh /\ opening'.schema = opening.schema
      /\ opening'.carried = opening.carried /\ opening'.unread = opening.unread
  BY <1>0, <1>1, <1>2 DEF OpeningOk
<1>4. /\ opening.fresh /\ opening.schema = app /\ disk[f].descriptor = app /\ Initialised(f)
  BY <1>0, <1>1 DEF OpeningOk
<1>5. CASE opening.carried = {}
  <2>1. UNCHANGED <<disk, abreast>>
    BY <1>5 DEF carry
  <2>2. UseInv' /\ HandleInv'
    BY <1>2, <2>1 DEF IInv, UseInv, HandleInv, HandleOk, Open, Initialised, Exists
  <2>3. Leaving'
    BY <1>0, <1>1, <1>2, <1>3, <1>5, <2>1 DEF OpeningOk, Leaving
  <2>4. OpeningOk'
    BY <1>0, <1>1, <1>2, <1>3, <2>1, <2>3 DEF OpeningOk, Initialised, Exists
  <2> QED BY <1>2, <2>1, <2>2, <2>4 DEF IInv, DiskInv, LayoutInv, OpeningInv, Exists
<1>6. CASE opening.carried # {}
  <2>1. /\ disk' = [disk EXCEPT ![f].cursors = Restarted(@, opening.carried), ![f].generation = @ + 1]
        /\ abreast' = [abreast EXCEPT ![f] = {}]
    BY <1>1, <1>6 DEF carry
  <2>2. /\ DOMAIN disk' = File /\ \A n \in File : n # f => disk'[n] = disk[n]
        /\ DOMAIN disk'[f] = DOMAIN Blank
        /\ disk'[f].generation = disk[f].generation + 1 /\ disk[f].generation \in Nat
        /\ disk'[f].layout = disk[f].layout /\ disk'[f].descriptor = disk[f].descriptor
        /\ disk'[f].work = disk[f].work
        /\ disk'[f].cursors = Restarted(disk[f].cursors, opening.carried)
        /\ DOMAIN abreast' = File /\ \A n \in File : n # f => abreast'[n] = abreast[n]
    BY <1>0, <1>1, <2>1 DEF FileOk, Blank
  <2>3. FileOk(disk'[f]) /\ disk'[f] # Absent
    BY <2>2, FileIsThere DEF FileOk
  <2>4. DiskInv' /\ LayoutInv'
    BY <2>2, <2>3, <1>4 DEF IInv, DiskInv, LayoutInv, Initialised, Exists
  <2>5. \A n \in File : Initialised(n) => Initialised(n)'
    BY <2>2, <2>3 DEF Initialised, Exists
  <2>6. UseInv'
    <3>1. found # Absent => disk'[0] # Absent
      BY <2>2, <2>3, StoreAssumption DEF IInv, UseInv, Exists, File
    <3> QED BY <1>2, <2>5, <3>1 DEF IInv, UseInv, Exists
  <2>7. Exists(sidecar) /\ disk[sidecar].descriptor = app => Exists(sidecar)' /\ disk'[sidecar].descriptor = app
    BY <1>0, <1>2, <2>2, <2>3 DEF Exists
  <2>8. HandleInv'
    <3>1. ASSUME NEW h \in Handle, Open(h) PROVE HandleOk(h)'
      <4>1. PICK g \in File : g = handles[h].file
        BY <3>1, OneHandle
      <4>2. HandleOk(h) /\ handles' = handles
        BY <3>1, <1>2, OneHandle
      <4>3. /\ handles[h].generation \in Nat /\ handles[h].generation <= disk'[g].generation
            /\ handles[h].generation = disk'[g].generation => h \in abreast'[g]
        <5>1. CASE g = f
          BY <4>1, <4>2, <5>1, <2>2 DEF HandleOk
        <5>2. CASE g # f
          BY <4>1, <4>2, <5>2, <2>2 DEF HandleOk
        <5> QED BY <5>1, <5>2
      <4>4. g \in used' /\ Initialised(g)'
        BY <4>1, <4>2, <1>2, <2>5 DEF HandleOk
      <4>5. g # sidecar' => Exists(sidecar)' /\ disk'[sidecar'].descriptor = app'
        BY <4>1, <4>2, <1>2, <2>7 DEF HandleOk
      <4> QED BY <4>1, <4>2, <4>3, <4>4, <4>5 DEF HandleOk
    <3> QED BY <3>1, <1>2, <2>2 DEF IInv, HandleInv, Open
  <2>9. Leaving'
    <3>1. opening.carried \subseteq DOMAIN disk'[f].cursors
      BY <2>2 DEF Restarted
    <3>2. f # sidecar => disk'[sidecar] = disk[sidecar]
      BY <1>0, <2>2
    <3> QED BY <1>0, <1>1, <1>2, <1>3, <3>1, <3>2 DEF OpeningOk, Leaving
  <2>10. OpeningOk'
    BY <1>0, <1>1, <1>2, <1>3, <1>4, <2>2, <2>3, <2>5, <2>9 DEF OpeningOk, Exists
  <2> QED BY <1>2, <2>4, <2>6, <2>8, <2>10 DEF IInv, OpeningInv
<1> QED BY <1>5, <1>6

\* The sidecar moves to the new file.
LEMMA PointKeeps ==
  ASSUME IInv, point
  PROVE  IInv'
<1>0. /\ sidecar \in File /\ OpeningOk /\ opening # Idle /\ opening.step = "point"
      /\ opening.file \in File /\ Exists(opening.file)
  BY OpeningAt DEF point, Doing
<1>1. PICK f \in File : f = opening.file
  BY <1>0
<1>2. /\ sidecar' = f /\ used' = used \cup {f} /\ opening' = [opening EXCEPT !.step = "finish"]
      /\ UNCHANGED <<found, disk, app, handles, abreast, astray>>
  BY <1>1 DEF point, Then
<1>3. /\ Initialised(f) /\ disk[f].descriptor = app /\ opening.fresh /\ (~ astray => f > sidecar)
  BY <1>0, <1>1 DEF OpeningOk
<1>4. UseInv'
  <2>1. \A n \in used : n \in File /\ (~ astray => n <= f /\ Initialised(n))
    BY <1>0, <1>1, <1>3, StoreAssumption DEF IInv, UseInv, File
  <2>2. f <= f
    BY StoreAssumption DEF File
  <2> QED BY <1>2, <1>3, <2>1, <2>2 DEF IInv, UseInv, Initialised, Exists
<1>5. HandleInv'
  <2>1. ASSUME NEW h \in Handle, Open(h) PROVE HandleOk(h)'
    <3>1. HandleOk(h)
      BY <2>1, OneHandle
    <3> QED BY <3>1, <1>2, <1>3 DEF HandleOk, Initialised, Exists
  <2> QED BY <2>1, <1>2 DEF IInv, HandleInv, Open
<1>6. /\ DOMAIN opening' = DOMAIN opening /\ opening'.step = "finish" /\ opening'.file = f
      /\ opening'.handle = opening.handle /\ opening'.fresh = opening.fresh
      /\ opening'.schema = opening.schema
  BY <1>0, <1>1, <1>2 DEF OpeningOk
<1>7. Leaving'
  BY <1>2, <1>6 DEF Leaving
<1>8. OpeningOk'
  BY <1>0, <1>1, <1>2, <1>3, <1>6, <1>7 DEF OpeningOk, Initialised, Exists
<1> QED BY <1>2, <1>4, <1>5, <1>8 DEF IInv, DiskInv, LayoutInv, OpeningInv, Exists

\* The client gets its handle.
LEMMA FinishKeeps ==
  ASSUME IInv, finish
  PROVE  IInv'
<1>0. /\ sidecar \in File /\ OpeningOk /\ opening # Idle /\ opening.step = "finish"
      /\ opening.file \in File /\ FileOk(disk[opening.file]) /\ opening.handle \in Handle
      /\ DOMAIN handles = Handle /\ DOMAIN abreast = File
  BY OpeningAt DEF finish, Doing
<1>1. PICK h \in Handle, f \in File : h = opening.handle /\ f = opening.file
  BY <1>0
<1> DEFINE kept == Open(h) /\ ~ opening.fresh
           made == [file |-> f, generation |-> disk[f].generation, schema |-> opening.schema,
                    pending |-> opening.pending, origin |-> TRUE, session |-> None]
<1>2. /\ opening' = Idle /\ UNCHANGED <<found, disk, sidecar, app, astray>> /\ used' = used \cup {f}
      /\ handles' = IF kept THEN handles ELSE [handles EXCEPT ![h] = made]
      /\ abreast' = IF kept THEN abreast ELSE
           [n \in File |-> IF n = f THEN abreast[n] \cup {h} ELSE abreast[n] \ {h}]
  BY <1>1 DEF finish
<1>3. f = sidecar /\ Initialised(f) /\ disk[f].generation \in Nat /\ f <= sidecar
  BY <1>0, <1>1, StoreAssumption DEF OpeningOk, FileOk, File
<1>4. UseInv'
  BY <1>2, <1>3 DEF IInv, UseInv, Initialised, Exists
<1>5. HandleInv'
  <2>1. CASE kept
    <3>1. UNCHANGED <<handles, abreast, disk, sidecar, app>>
      BY <2>1, <1>2
    <3> QED BY <3>1, <1>2 DEF IInv, HandleInv, HandleOk, Open, Initialised, Exists
  <2>2. CASE ~ kept
    <3>1. /\ handles' = [handles EXCEPT ![h] = made]
          /\ abreast' = [n \in File |-> IF n = f THEN abreast[n] \cup {h} ELSE abreast[n] \ {h}]
      BY <2>2, <1>2
    <3>2. DOMAIN handles' = Handle /\ DOMAIN abreast' = File
      BY <3>1, <1>0
    <3>3. handles'[h] = made /\ \A k \in Handle : k # h => handles'[k] = handles[k]
      BY <3>1, <1>0
    <3>4. /\ handles'[h].file = f /\ handles'[h].generation = disk[f].generation
          /\ DOMAIN handles'[h] = {"file", "generation", "schema", "pending", "origin", "session"}
      BY <3>3
    <3>5. h \in abreast'[f]
      BY <3>1
    <3>6. HandleOk(h)'
      BY <3>4, <3>5, <1>2, <1>3 DEF HandleOk, Initialised, Exists
    <3>7. ASSUME NEW k \in Handle, k # h, Open(k)
          PROVE  HandleOk(k)' /\ DOMAIN handles'[k] = {"file", "generation", "schema", "pending", "origin", "session"}
      <4>1. /\ HandleOk(k) /\ handles[k].file \in File
            /\ DOMAIN handles[k] = {"file", "generation", "schema", "pending", "origin", "session"}
        BY <3>7, OneHandle
      <4>2. k \in abreast[handles[k].file] => k \in abreast'[handles[k].file]
        BY <3>1, <3>7, <4>1
      <4>3. handles'[k] = handles[k]
        BY <3>3, <3>7
      <4> QED BY <4>1, <4>2, <4>3, <1>2 DEF HandleOk, Initialised, Exists
    <3> QED BY <3>2, <3>3, <3>4, <3>6, <3>7 DEF HandleInv, Open
  <2> QED BY <2>1, <2>2
<1> QED BY <1>2, <1>4, <1>5 DEF IInv, DiskInv, LayoutInv, OpeningInv, Exists

\* A failure leaves everything as it is.
LEMMA FailKeeps ==
  ASSUME IInv, fail
  PROVE  IInv'
<1>1. opening' = Idle /\ UNCHANGED <<found, disk, sidecar, app, handles, abreast, used, astray>>
  BY DEF fail
<1> QED BY <1>1 DEF IInv, DiskInv, LayoutInv, UseInv, HandleInv, HandleOk, OpeningInv, Open, Initialised, Exists

\* Steps of an opening.
LEMMA OpeningKeeps ==
  ASSUME IInv, clear \/ create \/ framework \/ initialise \/ carry \/ point \/ finish \/ fail
  PROVE  IInv'
BY ClearKeeps, CreateKeeps, MakingKeeps, CarryKeeps, PointKeeps, FinishKeeps, FailKeeps

\* A step that changes neither the file nor the generation of a handle, nor any
\* file that is there, keeps the invariant of the handles.
LEMMA HandlesKeep ==
  ASSUME IInv, DOMAIN handles' = Handle, UNCHANGED <<sidecar, app, abreast, used>>,
         \A f \in File : Exists(f) => disk'[f] = disk[f],
         \A h \in Handle : handles'[h] # Closed =>
           /\ Open(h) /\ DOMAIN handles'[h] = DOMAIN handles[h]
           /\ handles'[h].file = handles[h].file /\ handles'[h].generation = handles[h].generation
  PROVE HandleInv'
<1> SUFFICES ASSUME NEW h \in Handle, handles'[h] # Closed
             PROVE  /\ DOMAIN handles'[h] = {"file", "generation", "schema", "pending", "origin", "session"}
                    /\ HandleOk(h)'
  BY DEF IInv, HandleInv, Open
<1>1. HandleOk(h) /\ DOMAIN handles[h] = {"file", "generation", "schema", "pending", "origin", "session"}
  BY OneHandle
<1>2. handles'[h].file = handles[h].file /\ handles'[h].generation = handles[h].generation
  OBVIOUS
<1>3. disk'[handles[h].file] = disk[handles[h].file]
  BY OneHandle
<1>4. Exists(sidecar) => disk'[sidecar] = disk[sidecar]
  BY DEF IInv, UseInv
<1>5. Initialised(handles[h].file)'
  BY <1>1, <1>2, <1>3 DEF HandleOk, Initialised, Exists
<1>6. handles[h].file # sidecar => Exists(sidecar)' /\ disk'[sidecar].descriptor = app
  BY <1>1, <1>4 DEF HandleOk, Exists
<1> QED BY <1>1, <1>2, <1>3, <1>5, <1>6 DEF HandleOk

\* Opening a client, and rebuilding one: the rebuild asks about the work of the
\* handle's file, and a handle left behind finds nothing to move.
LEMMA OpenKeeps ==
  ASSUME IInv, NEW h \in Handle, NEW discard \in BOOLEAN, open_at(h, discard) \/ rebuild(h, discard)
  PROVE  IInv' /\ \A f \in File : Exists(f) => disk'[f] = disk[f]
<1>1. UNCHANGED <<found, sidecar, app, abreast, used, astray>>
  BY DEF open_at, rebuild
<1>2. /\ DiskInv' /\ LayoutInv' /\ UseInv' /\ OpeningInv'
      /\ \A f \in File : Exists(f) => disk'[f] = disk[f]
  <2>1. CASE open_at(h, discard)
    <3>1. Start(h, discard, discard)
      BY <2>1 DEF open_at
    <3>2. discard => discard \/ (Exists(sidecar) /\ (disk[sidecar].descriptor = app \/ disk[sidecar].work = 0))
      OBVIOUS
    <3> QED BY <1>1, <3>1, <3>2, StartKeeps
  <2>2. CASE rebuild(h, discard)
    <3>1. Start(h, TRUE, discard) /\ Open(h) /\ (disk[handles[h].file].work = 0 \/ discard)
      BY <2>2 DEF rebuild, Unsent
    <3>2. HandleOk(h) /\ Exists(handles[h].file)
      BY <3>1, OneHandle
    <3>3. TRUE => discard \/ (Exists(sidecar) /\ (disk[sidecar].descriptor = app \/ disk[sidecar].work = 0))
      <4>1. CASE handles[h].file = sidecar
        BY <3>1, <3>2, <4>1, Zenon
      <4>2. CASE handles[h].file # sidecar
        BY <3>2, <4>2 DEF HandleOk
      <4> QED BY <4>1, <4>2, Zenon
    <3> QED BY <1>1, <3>1, <3>3, StartKeeps
  <2> QED BY <2>1, <2>2
<1>3. DOMAIN handles = Handle /\ \A k \in Handle : Open(k) =>
        DOMAIN handles[k] = {"file", "generation", "schema", "pending", "origin", "session"}
  BY DEF IInv, HandleInv
<1>4. /\ DOMAIN handles' = Handle
      /\ \A k \in Handle : handles'[k] # Closed =>
           /\ Open(k) /\ DOMAIN handles'[k] = DOMAIN handles[k]
           /\ handles'[k].file = handles[k].file /\ handles'[k].generation = handles[k].generation
  <2>1. CASE open_at(h, discard)
    BY <1>3, <2>1 DEF open_at, Open
  <2>2. CASE rebuild(h, discard)
    <3>1. Open(h) /\ handles' = [handles EXCEPT ![h].origin = FALSE]
      BY <2>2 DEF rebuild
    <3>2. ASSUME NEW k \in Handle, k # h PROVE handles'[k] = handles[k]
      BY <3>1, <3>2, <1>3
    <3>3. handles'[h] = [handles[h] EXCEPT !.origin = FALSE]
      BY <3>1, <1>3
    <3>4. /\ DOMAIN handles'[h] = DOMAIN handles[h]
          /\ handles'[h].file = handles[h].file /\ handles'[h].generation = handles[h].generation
      BY <3>1, <3>3, <1>3
    <3> QED BY <3>1, <3>2, <3>4, <1>3 DEF Open
  <2> QED BY <2>1, <2>2
<1>5. HandleInv'
  BY <1>1, <1>2, <1>4, HandlesKeep
<1> QED BY <1>1, <1>2, <1>5 DEF IInv

\* A session changes nothing but itself until it commits.
LEMMA SessionKeeps ==
  ASSUME IInv, NEW h \in Handle, Open(h), NEW changed,
         handles' = [handles EXCEPT ![h].session = changed],
         opening = Idle, UNCHANGED <<found, disk, sidecar, app, opening, abreast, used, astray>>
  PROVE  IInv'
<1>1. DOMAIN handles = Handle /\ \A k \in Handle : Open(k) =>
        DOMAIN handles[k] = {"file", "generation", "schema", "pending", "origin", "session"}
  BY DEF IInv, HandleInv
<1>2. ASSUME NEW k \in Handle, handles'[k] # Closed
      PROVE  /\ Open(k) /\ DOMAIN handles'[k] = DOMAIN handles[k]
             /\ handles'[k].file = handles[k].file /\ handles'[k].generation = handles[k].generation
  <2>1. CASE k = h
    <3>1. handles'[k] = [handles[k] EXCEPT !.session = changed]
      BY <2>1, <1>1
    <3> QED BY <3>1, <2>1, <1>1
  <2>2. CASE k # h
    BY <2>2, <1>1, <1>2 DEF Open
  <2> QED BY <2>1, <2>2
<1>3. HandleInv'
  BY <1>1, <1>2, HandlesKeep
<1> QED BY <1>3 DEF IInv, DiskInv, LayoutInv, UseInv, OpeningInv, Initialised, Exists

\* A commit that passes the fence leaves every other handle of its file behind.
LEMMA CommitKeeps ==
  ASSUME IInv, NEW h \in Handle, Open(h), fence(h), NEW rows, Commit(h, rows),
         opening = Idle, UNCHANGED <<found, sidecar, app, opening, used, astray>>
  PROVE  IInv'
<1>1. DOMAIN handles = Handle /\ DOMAIN abreast = File /\ DOMAIN disk = File
  BY DEF IInv, HandleInv, DiskInv
<1>3. PICK f \in File : f = handles[h].file
  BY OneHandle
<1>4. Initialised(f) /\ FileOk(disk[f]) /\ disk[f].generation \in Nat
      /\ disk[f].generation = handles[h].generation /\ f \in used
  BY <1>3, OneHandle DEF HandleOk, fence
<1>5. /\ disk' = [disk EXCEPT ![f].work = rows.work, ![f].cursors = rows.cursors,
                              ![f].generation = @ + 1]
      /\ handles' = [handles EXCEPT ![h].generation = @ + 1, ![h].session = None]
      /\ abreast' = [abreast EXCEPT ![f] = {h}]
  BY <1>3, <1>4 DEF Commit
<1>6. /\ \A n \in File : n # f => disk'[n] = disk[n] /\ abreast'[n] = abreast[n]
      /\ disk'[f].generation = disk[f].generation + 1 /\ DOMAIN disk'[f] = DOMAIN disk[f]
      /\ disk'[f].descriptor = disk[f].descriptor /\ disk'[f].layout = disk[f].layout /\ abreast'[f] = {h}
  BY <1>1, <1>4, <1>5 DEF FileOk, Blank
<1>7. FileOk(disk'[f]) /\ disk'[f] # Absent /\ DOMAIN disk' = File
  <2>1. FileOk(disk'[f])
    BY <1>4, <1>6 DEF FileOk
  <2>2. DOMAIN disk' = File
    BY <1>1, <1>5
  <2> QED BY <2>1, <2>2, FileIsThere
<1>8. DiskInv' /\ LayoutInv'
  BY <1>4, <1>6, <1>7 DEF IInv, DiskInv, LayoutInv, Initialised, Exists
<1>9. \A n \in File : Initialised(n) => Initialised(n)'
  BY <1>4, <1>6, <1>7 DEF Initialised, Exists
<1>10. UseInv'
  <2>1. found # Absent => disk'[0] # Absent
    BY <1>6, <1>7, StoreAssumption DEF IInv, UseInv, Exists, File
  <2> QED BY <2>1, <1>9 DEF IInv, UseInv, Exists
<1>11. Exists(sidecar) /\ disk[sidecar].descriptor = app => Exists(sidecar)' /\ disk'[sidecar].descriptor = app
  BY <1>6, <1>7 DEF IInv, UseInv, Exists
<1>12. HandleInv'
  <2>1. /\ handles'[h].file = f /\ handles'[h].generation = handles[h].generation + 1
        /\ DOMAIN handles'[h] = {"file", "generation", "schema", "pending", "origin", "session"}
    BY <1>1, <1>3, <1>5, OneHandle
  <2>2. HandleOk(h)'
    <3>1. f # sidecar => Exists(sidecar)' /\ disk'[sidecar].descriptor = app
      BY <1>3, <1>11, OneHandle DEF HandleOk
    <3>2. Initialised(f)'
      BY <1>4, <1>9
    <3> QED BY <2>1, <1>4, <1>6, <3>1, <3>2 DEF HandleOk
  <2>3. ASSUME NEW k \in Handle, k # h, handles'[k] # Closed
        PROVE  HandleOk(k)' /\ DOMAIN handles'[k] = {"file", "generation", "schema", "pending", "origin", "session"}
    <3>1. handles'[k] = handles[k] /\ Open(k)
      BY <2>3, <1>1, <1>5 DEF Open
    <3>2. HandleOk(k) /\ DOMAIN handles[k] = {"file", "generation", "schema", "pending", "origin", "session"}
      BY <3>1, OneHandle
    <3>3. PICK g \in File : g = handles[k].file
      BY <3>1, OneHandle
    <3>4. Initialised(g)' /\ g \in used' /\ handles'[k].generation \in Nat
      BY <3>1, <3>2, <3>3, <1>9 DEF HandleOk
    <3>5. /\ handles'[k].generation <= disk'[g].generation
          /\ handles'[k].generation = disk'[g].generation => k \in abreast'[g]
      <4>1. CASE g = f
        BY <4>1, <3>1, <3>2, <3>3, <1>4, <1>6 DEF HandleOk
      <4>2. CASE g # f
        BY <4>2, <3>1, <3>2, <3>3, <1>6 DEF HandleOk
      <4> QED BY <4>1, <4>2
    <3>6. g # sidecar => Exists(sidecar)' /\ disk'[sidecar].descriptor = app
      BY <3>2, <3>3, <1>11 DEF HandleOk
    <3> QED BY <3>1, <3>2, <3>3, <3>4, <3>5, <3>6 DEF HandleOk
  <2>4. DOMAIN handles' = Handle /\ DOMAIN abreast' = File
    BY <1>1, <1>5
  <2> QED BY <2>1, <2>2, <2>3, <2>4 DEF HandleInv, Open
<1> QED BY <1>8, <1>10, <1>12 DEF IInv, OpeningInv

\* Steps of an open handle.
LEMMA WritingKeeps ==
  ASSUME IInv, NEW h \in Handle,
         \/ write(h) \/ begin_session(h) \/ session(h) \/ commit_session(h) \/ rollback_session(h)
         \/ session_savepoint(h) \/ session_release(h) \/ session_rollback_savepoint(h)
  PROVE  IInv'
<1>1. CASE write(h)
  <2>1. PICK rows : Commit(h, rows)
    BY <1>1 DEF write
  <2> QED BY <1>1, <2>1, CommitKeeps DEF write
<1>2. CASE commit_session(h)
  <2>1. CASE handles[h].session.saved = << >> /\ fence(h)
    BY <1>2, <2>1, CommitKeeps DEF commit_session, InSession
  <2>2. CASE ~ (handles[h].session.saved = << >> /\ fence(h))
    BY <1>2, <2>2, SessionKeeps DEF commit_session, InSession
  <2> QED BY <2>1, <2>2
<1>3. CASE begin_session(h)
  BY <1>3, SessionKeeps DEF begin_session
<1>4. CASE session(h) \/ rollback_session(h) \/ session_savepoint(h) \/ session_release(h)
           \/ session_rollback_savepoint(h)
  <2>1. PICK changed : Session(h, changed)
    BY <1>4 DEF session, rollback_session, session_savepoint, session_release, session_rollback_savepoint
  <2> QED BY <2>1, SessionKeeps DEF Session, InSession
<1> QED BY <1>1, <1>2, <1>3, <1>4

\* Closing a handle, and the end of the process, drop handles only.
LEMMA EndingKeeps ==
  ASSUME IInv, restart \/ \E h \in Handle : close(h)
  PROVE  IInv'
<1>1. opening' = Idle /\ UNCHANGED <<found, disk, sidecar, used, astray>> /\ app' \in Application
  BY DEF IInv, restart, close
<1>2. HandleInv'
  <2>1. CASE restart
    BY <2>1 DEF restart, HandleInv, Open
  <2>2. CASE \E h \in Handle : close(h)
    <3>1. PICK h \in Handle : close(h)
      BY <2>2
    <3>2. /\ handles' = [handles EXCEPT ![h] = Closed]
          /\ abreast' = [f \in File |-> abreast[f] \ {h}] /\ app' = app
      BY <3>1 DEF close
    <3>3. ASSUME NEW k \in Handle, handles'[k] # Closed
          PROVE  HandleOk(k)' /\ DOMAIN handles'[k] = {"file", "generation", "schema", "pending", "origin", "session"}
      <4>1. k # h /\ handles'[k] = handles[k] /\ Open(k)
        BY <3>2, <3>3 DEF IInv, HandleInv, Open
      <4>2. /\ HandleOk(k) /\ handles[k].file \in File
            /\ DOMAIN handles[k] = {"file", "generation", "schema", "pending", "origin", "session"}
        BY <4>1, OneHandle
      <4>4. k \in abreast[handles[k].file] => k \in abreast'[handles[k].file]
        BY <3>2, <4>1, <4>2
      <4> QED BY <1>1, <3>2, <4>1, <4>2, <4>4 DEF HandleOk, Initialised, Exists
    <3> QED BY <3>2, <3>3 DEF IInv, HandleInv, Open
  <2> QED BY <2>1, <2>2
<1> QED BY <1>1, <1>2 DEF IInv, DiskInv, LayoutInv, UseInv, OpeningInv, Initialised, Exists

\* Nothing happening changes nothing.
LEMMA StutteringKeeps == ASSUME IInv, UNCHANGED vars PROVE IInv'
  BY DEF IInv, vars, DiskInv, LayoutInv, UseInv, HandleInv, HandleOk, OpeningInv, OpeningOk, Leaving, Open,
         Initialised, Exists

---------------------------------------------------------------------------
(* The theorems.                                                            *)

\* The invariant holds in every state a client's files can reach.
THEOREM Inductive == Spec => []IInv
<1>1. ASSUME IInv, [Next]_vars PROVE IInv'
  BY <1>1, OpenKeeps, OpeningKeeps, WritingKeeps, EndingKeeps, StutteringKeeps DEF Next
<1> QED BY Initial, <1>1, PTL DEF Spec

\* A writer that passes the fence has seen every commit of its file, in any
\* number of handles: none overwrites what it does not know of.
THEOREM OneWriterHolds == Spec => []OneWriter
<1>1. IInv => OneWriter
  BY DEF IInv, HandleInv, HandleOk, OneWriter
<1> QED BY <1>1, Inductive, PTL

\* No opening, failed, cut short or gone on without what it could not remove or
\* read, removes or half makes a file that is or was in use, while every number
\* was chosen above the others; the file found is never lost.
THEOREM KeptHolds == Spec => []Kept
<1>1. IInv => Kept
  BY DEF IInv, UseInv, HandleInv, HandleOk, Kept
<1> QED BY <1>1, Inductive, PTL

---------------------------------------------------------------------------
(* What a file holds (Storable), and what a new one starts with (Moved),   *)
(* while every number is chosen above the others.  Both follow a schema    *)
(* from the application into an opening, a file and a handle: between the  *)
(* choice of a plan and the move of the sidecar nobody writes the file in  *)
(* use, and a file changes its schema only for one that its handles, all   *)
(* opened under the same application, already have.                        *)

\* The tables a schema has from the start.
TablesOf(schema_) == [m \in DOMAIN schema_.models |-> table_ddl(schema_.models[m])]

\* A file that was not found has exactly the tables of its schema.
TablesInv ==
  \A f \in File : Exists(f) /\ (f = 0 => found = Absent) =>
    disk[f].tables = IF disk[f].descriptor = Unrecorded THEN << >> ELSE TablesOf(disk[f].descriptor)

\* A schema the file keeps: the application's, or one it cannot replace.
Settled(schema_) == schema_ = app \/ ~ in_place(schema_, app)

\* A handle has the schema of its file.
SchemaInv ==
  \A h \in Handle : Open(h) =>
    handles[h].schema = disk[handles[h].file].descriptor /\ Settled(handles[h].schema)

\* What an opening has decided stays true of the file in use, and what it has
\* made is as it made it.
PlanOk ==
  LET file == disk[opening.file]
      old == disk[sidecar]
  IN
    /\ Settled(opening.schema)
    /\ ~ opening.fresh =>
         \/ opening.schema = file.descriptor
         \/ opening.schema = app /\ (file.descriptor = Unrecorded \/ in_place(file.descriptor, app))
    /\ opening.fresh /\ opening.step \in {"framework", "initialise"} => file.descriptor = Unrecorded
    /\ opening.fresh /\ opening.step \in {"framework", "initialise", "carry"} => file.cursors = << >>
    /\ opening.fresh /\ opening.step \in {"framework", "initialise", "carry", "point"} =>
         file.work = 0 /\ opening.carried \subseteq DOMAIN old.cursors
    /\ opening.step = "point" => DOMAIN file.cursors = opening.carried /\ Unstarted(file)
PlanInv == opening # Idle => PlanOk

PlaceInv == TablesInv /\ SchemaInv /\ PlanInv

\* A file without tables gets those of the schema.
LEMMA TablesMade == ASSUME NEW s PROVE reconcile(<< >>, s) = TablesOf(s)
  BY DEF reconcile, TablesOf, Extended

\* A file with the tables of a schema that can be kept gets those of the new one.
LEMMA TablesKept ==
  ASSUME NEW d, NEW s, in_place(d, s)
  PROVE  reconcile(TablesOf(d), s) = TablesOf(s)
<1> DEFINE made == TablesOf(s)
           old == TablesOf(d)
           widened == [m \in DOMAIN old |-> IF m \in DOMAIN made
                         THEN [old[m] EXCEPT !.columns = Extended(@, made[m].columns)] ELSE old[m]]
<1>1. DOMAIN old = DOMAIN d.models /\ DOMAIN made = DOMAIN s.models /\ DOMAIN d.models \subseteq DOMAIN s.models
  BY DEF in_place, TablesOf
<1>2. ASSUME NEW m \in DOMAIN old PROVE widened[m] = made[m]
  <2> DEFINE a == d.models[m]
             b == s.models[m]
  <2>1. /\ a.identity = b.identity /\ DOMAIN a.fields \subseteq DOMAIN b.fields
        /\ \A f \in DOMAIN a.fields : a.fields[f] = b.fields[f]
    BY <1>1, <1>2 DEF in_place, ModelFits, SameField
  <2>2. old[m] = table_ddl(a) /\ made[m] = table_ddl(b) /\ m \in DOMAIN made
    BY <1>1, <1>2 DEF TablesOf
  <2>3. widened[m] = [old[m] EXCEPT !.columns = Extended(@, made[m].columns)]
    BY <1>2, <2>2
  <2> HIDE DEF a, b, old, made, widened
  <2>4. Extended(table_ddl(a).columns, table_ddl(b).columns) = table_ddl(b).columns
    BY <2>1 DEF table_ddl, Extended
  <2>5. ASSUME NEW i, NEW c, NEW e
        PROVE  [[identity |-> i, columns |-> c] EXCEPT !.columns = e] = [identity |-> i, columns |-> e]
    OBVIOUS
  <2> DEFINE A == [f \in DOMAIN a.fields |-> column(a.fields[f])]
             B == [f \in DOMAIN b.fields |-> column(b.fields[f])]
  <2>6. /\ table_ddl(a) = [identity |-> b.identity, columns |-> A] /\ table_ddl(a).columns = A
        /\ table_ddl(b) = [identity |-> b.identity, columns |-> B] /\ table_ddl(b).columns = B
    BY <2>1 DEF table_ddl
  <2> HIDE DEF A, B
  <2>7. [table_ddl(a) EXCEPT !.columns = Extended(table_ddl(a).columns, table_ddl(b).columns)] = table_ddl(b)
    BY <2>4, <2>5, <2>6
  <2> QED BY <2>2, <2>3, <2>7
<1>3. reconcile(old, s) = Extended(widened, made)
  BY DEF reconcile, TablesOf
<1>4. DOMAIN widened = DOMAIN old
  OBVIOUS
<1>5. made = [m \in DOMAIN made |-> made[m]]
  BY DEF TablesOf
<1> HIDE DEF old, made, widened
<1>6. DOMAIN widened \cup DOMAIN made = DOMAIN made
  BY <1>1, <1>4
<1>7. Extended(widened, made) = [m \in DOMAIN made |-> made[m]]
  BY <1>2, <1>4, <1>6 DEF Extended
<1> QED BY <1>3, <1>5, <1>7 DEF old, made

\* No handle's file lies above the one in use.
LEMMA NoneAbove ==
  ASSUME IInv, ~ astray, NEW h \in Handle, Open(h)
  PROVE  handles[h].file \in File /\ handles[h].file <= sidecar /\ Exists(handles[h].file)
<1>1. HandleOk(h) /\ handles[h].file \in File /\ Exists(handles[h].file)
  BY OneHandle
<1> QED BY <1>1 DEF HandleOk, IInv, UseInv

\* At first there is a file without a schema, or none, and nobody has it open.
LEMMA PlaceInitial == Init => PlaceInv
<1> SUFFICES ASSUME Init PROVE PlaceInv
  OBVIOUS
<1> USE StoreAssumption DEF Init
<1>1. TablesInv
  BY DEF TablesInv, Exists
<1>2. SchemaInv
  BY DEF SchemaInv, Open
<1>3. PlanInv
  BY DEF PlanInv
<1> QED BY <1>1, <1>2, <1>3 DEF PlaceInv

\* With no opening in progress, what keeps the schemas of files and handles
\* keeps the invariant.
LEMMA PlaceStays ==
  ASSUME IInv, PlaceInv, opening' = Idle, UNCHANGED <<found, sidecar, app>>,
         \A f \in File :
           /\ Exists(f)' <=> Exists(f)
           /\ Exists(f) => disk'[f].descriptor = disk[f].descriptor /\ disk'[f].tables = disk[f].tables,
         \A h \in Handle : handles'[h] # Closed =>
           /\ Open(h) /\ handles'[h].file = handles[h].file /\ handles'[h].schema = handles[h].schema
  PROVE  PlaceInv'
<1>1. TablesInv'
  BY DEF PlaceInv, TablesInv
<1>2. SchemaInv'
  <2> SUFFICES ASSUME NEW h \in Handle, handles'[h] # Closed
               PROVE  handles'[h].schema = disk'[handles'[h].file].descriptor /\ Settled(handles[h].schema)'
    BY DEF SchemaInv, Open
  <2>1. Open(h) /\ handles'[h].file = handles[h].file /\ handles'[h].schema = handles[h].schema
    OBVIOUS
  <2>2. handles[h].schema = disk[handles[h].file].descriptor /\ Settled(handles[h].schema)
    BY <2>1 DEF PlaceInv, SchemaInv
  <2>3. handles[h].file \in File /\ Exists(handles[h].file)
    BY <2>1, OneHandle
  <2> QED BY <2>1, <2>2, <2>3 DEF Settled
<1>3. PlanInv'
  BY DEF PlanInv
<1> QED BY <1>1, <1>2, <1>3 DEF PlaceInv

\* Steps of an open handle, and the endings.
LEMMA WritingPlaces ==
  ASSUME IInv, PlaceInv, NEW h \in Handle,
         \/ write(h) \/ begin_session(h) \/ session(h) \/ commit_session(h) \/ rollback_session(h)
         \/ session_savepoint(h) \/ session_release(h) \/ session_rollback_savepoint(h) \/ close(h)
  PROVE  PlaceInv'
<1>1. DOMAIN handles = Handle /\ DOMAIN disk = File /\ \A k \in Handle : Open(k) =>
        DOMAIN handles[k] = {"file", "generation", "schema", "pending", "origin", "session"}
  BY DEF IInv, HandleInv, DiskInv
<1>2. opening' = Idle /\ Open(h) /\ UNCHANGED <<found, sidecar, app>>
  BY DEF write, begin_session, session, commit_session, rollback_session, session_savepoint,
         session_release, session_rollback_savepoint, close, Session, InSession
<1>3. CASE UNCHANGED disk /\ \E changed : handles' = [handles EXCEPT ![h].session = changed]
  <2>1. PICK changed : handles' = [handles EXCEPT ![h].session = changed]
    BY <1>3
  <2>2. ASSUME NEW k \in Handle, handles'[k] # Closed
        PROVE  Open(k) /\ handles'[k].file = handles[k].file /\ handles'[k].schema = handles[k].schema
    <3>1. CASE k = h
      <4>1. handles'[k] = [handles[k] EXCEPT !.session = changed]
        BY <1>1, <2>1, <3>1
      <4> QED BY <4>1, <3>1, <1>1, <1>2
    <3>2. CASE k # h
      BY <3>2, <1>1, <2>1, <2>2 DEF Open
    <3> QED BY <3>1, <3>2
  <2> QED BY <1>2, <1>3, <2>2, PlaceStays DEF Exists
<1>4. CASE \E rows : Commit(h, rows) /\ fence(h)
  <2>1. PICK rows : Commit(h, rows) /\ fence(h)
    BY <1>4
  <2>2. PICK f \in File : f = handles[h].file /\ Exists(f)
    BY <1>2, OneHandle
  <2>3. /\ disk' = [disk EXCEPT ![f].work = rows.work, ![f].cursors = rows.cursors,
                                ![f].generation = @ + 1]
        /\ handles' = [handles EXCEPT ![h].generation = @ + 1, ![h].session = None]
    BY <2>1, <2>2 DEF Commit, fence
  <2>4. DOMAIN disk[f] = DOMAIN Blank
    BY <2>2 DEF IInv, DiskInv, FileOk
  <2>5. /\ disk'[f].descriptor = disk[f].descriptor
        /\ disk'[f].tables = disk[f].tables /\ DOMAIN disk'[f] = DOMAIN Blank
        /\ \A n \in File : n # f => disk'[n] = disk[n]
    BY <2>3, <2>4, <1>1 DEF Blank
  <2>6. disk'[f] # Absent
    BY <2>5 DEF Blank, Absent
  <2>7. \A n \in File : /\ Exists(n)' <=> Exists(n)
                        /\ Exists(n) => disk'[n].descriptor = disk[n].descriptor /\ disk'[n].tables = disk[n].tables
    BY <2>2, <2>5, <2>6 DEF Exists
  <2>8. ASSUME NEW k \in Handle, handles'[k] # Closed
        PROVE  Open(k) /\ handles'[k].file = handles[k].file /\ handles'[k].schema = handles[k].schema
    <3>1. CASE k = h
      <4>1. handles'[k].file = handles[k].file /\ handles'[k].schema = handles[k].schema
        BY <1>1, <1>2, <2>3, <3>1
      <4> QED BY <4>1, <3>1, <1>2
    <3>2. CASE k # h
      BY <3>2, <1>1, <2>3, <2>8 DEF Open
    <3> QED BY <3>1, <3>2
  <2> QED BY <1>2, <2>7, <2>8, PlaceStays
<1>5. CASE close(h)
  BY <1>1, <1>2, <1>5, PlaceStays DEF close, Open, Exists
<1>6. CASE begin_session(h)
  BY <1>3, <1>6 DEF begin_session
<1>7. CASE session(h) \/ rollback_session(h) \/ session_savepoint(h) \/ session_release(h)
           \/ session_rollback_savepoint(h)
  <2>1. PICK changed : Session(h, changed)
    BY <1>7 DEF session, rollback_session, session_savepoint, session_release, session_rollback_savepoint
  <2> QED BY <2>1, <1>3 DEF Session
<1>8. CASE write(h)
  BY <1>4, <1>8 DEF write
<1>9. CASE commit_session(h)
  BY <1>3, <1>4, <1>9 DEF commit_session
<1> QED BY <1>5, <1>6, <1>7, <1>8, <1>9

\* The process ends: nothing is open, and no opening in progress.
LEMMA RestartPlaces ==
  ASSUME IInv, PlaceInv, restart
  PROVE  PlaceInv'
<1>1. TablesInv'
  BY DEF restart, PlaceInv, TablesInv, Exists
<1>2. SchemaInv' /\ PlanInv'
  BY DEF restart, SchemaInv, Open, PlanInv
<1> QED BY <1>1, <1>2 DEF PlaceInv

\* Opening chooses a plan for the file in use.
LEMMA StartPlaces ==
  ASSUME IInv, PlaceInv, NEW h \in Handle, NEW discard \in BOOLEAN, NEW asked,
         Start(h, discard, asked), UNCHANGED <<found, sidecar, app>>
  PROVE  TablesInv' /\ PlanInv'
<1> DEFINE file == IF Exists(sidecar) THEN disk[sidecar] ELSE Blank
           plan == Choose(file, discard)
<1>1. disk' = [disk EXCEPT ![sidecar] = file] /\ DOMAIN disk = File /\ sidecar \in File
  BY DEF Start, IInv, DiskInv, UseInv
<1>2. disk'[sidecar] = file /\ \A f \in File : f # sidecar => disk'[f] = disk[f]
  BY <1>1
<1>3. TablesInv'
  BY <1>1, <1>2 DEF PlaceInv, TablesInv, Exists, Blank
<1>4. file.descriptor # Unrecorded => file.layout = "current"
  BY <1>1 DEF IInv, LayoutInv, Blank
<1>5. plan.fresh \in BOOLEAN /\ (plan.fresh => plan.schema = app)
  BY DEF Choose, Plan
<1>6. /\ opening'.fresh = plan.fresh /\ opening'.schema = plan.schema /\ opening'.file = sidecar
      /\ opening'.step = (IF plan.fresh THEN "clear" ELSE "framework")
  BY DEF Start
<1>7. CASE plan.fresh
  <2> HIDE DEF plan, file
  <2>1. PlanOk'
    BY <1>5, <1>6, <1>7 DEF PlanOk, Settled
  <2> QED BY <1>3, <2>1 DEF PlanInv
<1>8. CASE ~ plan.fresh
  <2>1. /\ Settled(plan.schema)
        /\ \/ plan.schema = file.descriptor
           \/ plan.schema = app /\ (file.descriptor = Unrecorded \/ in_place(file.descriptor, app))
    <3>1. CASE file.layout = "fresh"
      BY <1>4, <3>1 DEF Choose, Plan, Settled
    <3>2. CASE file.layout # "fresh" /\ Fitting(file, app)
      BY <1>8, <3>2 DEF Choose, Plan, Settled, Fitting
    <3>3. CASE file.layout # "fresh" /\ ~ Fitting(file, app)
      BY <1>8, <3>3 DEF Choose, Plan, Settled, Fitting
    <3> QED BY <3>1, <3>2, <3>3
  <2> HIDE DEF plan, file
  <2>2. PlanOk'
    BY <1>2, <1>5, <1>6, <1>8, <2>1 DEF PlanOk, Settled
  <2> QED BY <1>3, <2>2 DEF PlanInv
<1> QED BY <1>7, <1>8

\* Opening a client, and rebuilding one.
LEMMA OpenPlaces ==
  ASSUME IInv, PlaceInv, NEW h \in Handle, NEW discard \in BOOLEAN, open_at(h, discard) \/ rebuild(h, discard)
  PROVE  PlaceInv'
<1>1. UNCHANGED <<found, sidecar, app>>
  BY DEF open_at, rebuild
<1>2. TablesInv' /\ PlanInv'
  <2>1. PICK told \in BOOLEAN, asked \in BOOLEAN : Start(h, told, asked)
    BY DEF open_at, rebuild
  <2> QED BY <1>1, <2>1, StartPlaces
<1>3. SchemaInv'
  <2> SUFFICES ASSUME NEW k \in Handle, handles'[k] # Closed
               PROVE  handles'[k].schema = disk'[handles'[k].file].descriptor /\ Settled(handles[k].schema)'
    BY DEF SchemaInv, Open
  <2>1. \A f \in File : Exists(f) => disk'[f] = disk[f]
    BY OpenKeeps
  <2>2. Open(k) /\ handles'[k].file = handles[k].file /\ handles'[k].schema = handles[k].schema
    <3>1. CASE open_at(h, discard)
      BY <3>1 DEF open_at, Open
    <3>2. CASE rebuild(h, discard)
      <4>1. handles' = [handles EXCEPT ![h].origin = FALSE] /\ Open(h) /\ DOMAIN handles = Handle
        BY <3>2 DEF rebuild, IInv, HandleInv
      <4>2. CASE k = h
        <5>1. DOMAIN handles[h] = {"file", "generation", "schema", "pending", "origin", "session"}
          BY <4>1, OneHandle
        <5> QED BY <4>1, <4>2, <5>1
      <4>3. CASE k # h
        BY <4>1, <4>3 DEF Open
      <4> QED BY <4>2, <4>3
    <3> QED BY <3>1, <3>2
  <2>3. handles[k].schema = disk[handles[k].file].descriptor /\ Settled(handles[k].schema)
    BY <2>2 DEF PlaceInv, SchemaInv
  <2>4. handles[k].file \in File /\ Exists(handles[k].file)
    BY <2>2, OneHandle
  <2> QED BY <1>1, <2>1, <2>2, <2>3, <2>4 DEF Settled
<1> QED BY <1>2, <1>3 DEF PlaceInv

\* The handles see nothing of an opening but what it makes of the file in use.
LEMMA SchemasStay ==
  ASSUME IInv, PlaceInv, ~ astray, UNCHANGED <<app, handles>>,
         \A f \in File : f <= sidecar /\ Exists(f) => disk'[f].descriptor = disk[f].descriptor
  PROVE  SchemaInv'
<1> SUFFICES ASSUME NEW k \in Handle, Open(k)
             PROVE  handles[k].schema = disk'[handles[k].file].descriptor /\ Settled(handles[k].schema)'
  BY DEF SchemaInv, Open
<1>1. handles[k].schema = disk[handles[k].file].descriptor /\ Settled(handles[k].schema)
  BY DEF PlaceInv, SchemaInv
<1>2. disk'[handles[k].file].descriptor = disk[handles[k].file].descriptor
  BY NoneAbove
<1> QED BY <1>1, <1>2 DEF Settled

\* Where an opening is, by the two invariants.
LEMMA PlaceAt ==
  ASSUME IInv, PlaceInv, ~ astray, opening # Idle
  PROVE  /\ DOMAIN disk = File /\ sidecar \in File /\ OpeningOk /\ PlanOk /\ DOMAIN handles = Handle
         /\ opening.file \in File /\ FileOk(disk[opening.file]) /\ Exists(opening.file)
         /\ opening.step \in {"framework", "initialise", "carry", "point"} /\ opening.fresh =>
              opening.file # sidecar /\ \A f \in File : f <= sidecar => f # opening.file
<1>1. opening.file > sidecar => opening.file # sidecar /\ \A f \in File : f <= sidecar => f # opening.file
  BY OpeningAt, StoreAssumption DEF File
<1> QED BY <1>1, OpeningAt DEF PlaceInv, PlanInv, OpeningOk

\* Clearing, and naming a new file.
LEMMA NamingPlaces ==
  ASSUME IInv, PlaceInv, ~ astray, ~ astray', clear \/ create
  PROVE  PlaceInv'
<1>0. /\ opening.step \in {"clear", "create"} /\ opening.file = sidecar /\ opening.fresh /\ Exists(sidecar)
      /\ DOMAIN disk = File /\ sidecar \in File /\ OpeningOk /\ PlanOk
  BY PlaceAt DEF clear, create, Doing, OpeningOk
<1>1. CASE clear
  <2>1. /\ UNCHANGED <<found, sidecar, app, handles>> /\ opening' = [opening EXCEPT !.step = "create"]
    BY <1>1 DEF clear, Then
  <2>2. /\ DOMAIN disk' = File /\ \A n \in File : disk'[n] = disk[n] \/ disk'[n] = Absent
        /\ \A n \in File : n <= sidecar => disk'[n] = disk[n]
    <3>1. PICK stay : disk' = [n \in File |-> IF n \in Strays(opening.file) \ stay THEN Absent ELSE disk[n]]
      BY <1>1 DEF clear
    <3>2. \A n \in File : n <= sidecar => n \notin Strays(sidecar)
      BY <1>0, StoreAssumption DEF Strays, File
    <3> QED BY <1>0, <3>1, <3>2
  <2>3. TablesInv'
    BY <2>1, <2>2 DEF PlaceInv, TablesInv, Exists
  <2>4. SchemaInv'
    BY <2>1, <2>2, SchemasStay
  <2>5. /\ opening'.step = "create" /\ opening'.fresh = opening.fresh /\ opening'.schema = opening.schema
    BY <1>0, <2>1 DEF OpeningOk
  <2>6. PlanOk'
    BY <1>0, <2>1, <2>5 DEF PlanOk, Settled
  <2> QED BY <2>3, <2>4, <2>6 DEF PlaceInv, PlanInv
<1>2. CASE create
  <2>1. PICK next \in 1..MaxFile, carried \in {DOMAIN disk[sidecar].cursors, {}} :
          /\ disk' = IF Exists(next) THEN disk ELSE [disk EXCEPT ![next] = Blank]
          /\ opening' = [opening EXCEPT !.step = "framework", !.file = next, !.carried = carried,
                                        !.unread = carried # DOMAIN disk[opening.file].cursors]
          /\ astray' = (astray \/ ~ Next_free(next))
    BY <1>0, <1>2 DEF create
  <2>2. next \in File /\ ~ Exists(next)
    <3>1. next \in File /\ ~ (next < next)
      BY StoreAssumption DEF File
    <3> QED BY <3>1, <2>1 DEF Next_free
  <2>3. UNCHANGED <<found, sidecar, app, handles>>
    BY <1>2 DEF create
  <2>4. disk'[next] = Blank /\ \A n \in File : n # next => disk'[n] = disk[n]
    BY <1>0, <2>1, <2>2
  <2>5. TablesInv'
    BY <2>2, <2>3, <2>4 DEF PlaceInv, TablesInv, Exists, Blank
  <2>6. \A n \in File : Exists(n) => disk'[n] = disk[n]
    BY <2>2, <2>4
  <2>7. SchemaInv'
    BY <2>3, <2>6, SchemasStay
  <2>8. /\ opening'.step = "framework" /\ opening'.file = next /\ opening'.fresh = opening.fresh
        /\ opening'.schema = opening.schema /\ opening'.carried = carried
    BY <1>0, <2>1 DEF OpeningOk
  <2>9. disk'[sidecar] = disk[sidecar]
    BY <1>0, <2>6
  <2>10. PlanOk'
    BY <1>0, <2>1, <2>3, <2>4, <2>8, <2>9 DEF PlanOk, Settled, Blank
  <2> QED BY <2>5, <2>7, <2>10 DEF PlaceInv, PlanInv
<1> QED BY <1>1, <1>2

\* Making the file.
LEMMA MakingPlaces ==
  ASSUME IInv, PlaceInv, ~ astray, framework \/ initialise
  PROVE  PlaceInv'
<1>0. /\ DOMAIN disk = File /\ sidecar \in File /\ OpeningOk /\ PlanOk /\ opening # Idle
      /\ opening.step \in {"framework", "initialise"}
      /\ opening.file \in File /\ FileOk(disk[opening.file]) /\ Exists(opening.file)
      /\ opening.fresh => opening.file # sidecar /\ \A f \in File : f <= sidecar => f # opening.file
  BY PlaceAt DEF framework, initialise, Doing
<1>1. PICK f \in File : f = opening.file
  BY <1>0
<1> DEFINE s == opening.schema
<1>2. UNCHANGED <<found, sidecar, app, handles>>
  BY DEF framework, initialise
<1>3. /\ \A n \in File : n # f => disk'[n] = disk[n]
      /\ disk'[f].work = disk[f].work /\ disk'[f].cursors = disk[f].cursors
  BY <1>0, <1>1 DEF framework, initialise, FileOk, Blank
<1>4. disk'[sidecar].cursors = disk[sidecar].cursors
  BY <1>0, <1>3
<1>5. CASE framework
  <2>1. opening' = [opening EXCEPT !.step = "initialise"] /\ opening.step = "framework"
    BY <1>5 DEF framework, Then, Doing
  <2>2. disk'[f].descriptor = disk[f].descriptor /\ disk'[f].tables = disk[f].tables
    BY <1>0, <1>1, <1>5 DEF framework, FileOk, Blank
  <2>3. TablesInv'
    BY <1>0, <1>1, <1>2, <1>3, <2>2 DEF PlaceInv, TablesInv, Exists
  <2>4. \A n \in File : n <= sidecar /\ Exists(n) => disk'[n].descriptor = disk[n].descriptor
    BY <1>3, <2>2
  <2>5. SchemaInv'
    BY <1>2, <2>4, SchemasStay
  <2>6. /\ opening'.step = "initialise" /\ opening'.file = f /\ opening'.fresh = opening.fresh
        /\ opening'.schema = s /\ opening'.carried = opening.carried
    BY <1>0, <1>1, <2>1 DEF OpeningOk
  <2>7. PlanOk'
    BY <1>0, <1>1, <1>2, <1>3, <1>4, <2>1, <2>2, <2>6 DEF PlanOk, Settled
  <2> QED BY <2>3, <2>5, <2>7 DEF PlaceInv, PlanInv
<1>6. CASE initialise
  <2>1. /\ opening' = [opening EXCEPT !.step = IF opening.fresh THEN "carry" ELSE "finish"]
        /\ opening.step = "initialise"
    BY <1>6 DEF initialise, Then, Doing
  <2>2. disk'[f].descriptor = s /\ disk'[f].tables = reconcile(disk[f].tables, s)
    BY <1>0, <1>1, <1>6 DEF initialise, FileOk, Blank
  <2>3. s # Unrecorded /\ Settled(s)
    BY <1>0 DEF OpeningOk, PlanOk
  <2>4. disk[f].descriptor = Unrecorded \/ in_place(disk[f].descriptor, s)
    BY <1>0, <1>1, SameInPlace DEF PlanOk
  <2>5. TablesInv'
    <3>1. ASSUME f = 0 => found = Absent PROVE disk'[f].tables = TablesOf(s)
      <4>1. disk[f].tables = IF disk[f].descriptor = Unrecorded THEN << >> ELSE TablesOf(disk[f].descriptor)
        BY <1>0, <1>1, <3>1 DEF PlaceInv, TablesInv
      <4> QED BY <2>2, <2>4, <4>1, TablesMade, TablesKept
    <3> QED BY <1>2, <1>3, <2>2, <2>3, <3>1 DEF PlaceInv, TablesInv, Exists
  <2>6. ASSUME NEW k \in Handle, Open(k)
        PROVE  handles[k].schema = disk'[handles[k].file].descriptor
    <3>1. handles[k].schema = disk[handles[k].file].descriptor /\ Settled(handles[k].schema)
      BY <2>6 DEF PlaceInv, SchemaInv
    <3>2. handles[k].file \in File /\ handles[k].file <= sidecar /\ Initialised(handles[k].file)
      BY <2>6, NoneAbove, OneHandle
    <3>3. CASE handles[k].file # f
      BY <1>3, <3>1, <3>2, <3>3
    <3>4. CASE handles[k].file = f
      <4>1. ~ opening.fresh
        BY <1>0, <1>1, <3>2, <3>4
      <4>2. s = disk[f].descriptor \/ (s = app /\ in_place(disk[f].descriptor, app))
        BY <1>0, <1>1, <3>2, <3>4, <4>1 DEF PlanOk, Initialised
      <4> QED BY <2>2, <3>1, <3>4, <4>2 DEF Settled
    <3> QED BY <3>3, <3>4
  <2>7. SchemaInv'
    BY <1>2, <2>6 DEF PlaceInv, SchemaInv, Open, Settled
  <2>8. /\ opening'.step = (IF opening.fresh THEN "carry" ELSE "finish") /\ opening'.file = f
        /\ opening'.fresh = opening.fresh /\ opening'.schema = s /\ opening'.carried = opening.carried
    BY <1>0, <1>1, <2>1 DEF OpeningOk
  <2> HIDE DEF s
  <2>9. PlanOk'
    BY <1>0, <1>1, <1>2, <1>3, <1>4, <2>1, <2>2, <2>3, <2>8 DEF PlanOk, Settled, s
  <2> QED BY <2>5, <2>7, <2>9 DEF PlaceInv, PlanInv
<1> QED BY <1>5, <1>6

\* The subscriptions, the sidecar and the handle.
LEMMA PointingPlaces ==
  ASSUME IInv, PlaceInv, ~ astray, carry \/ point \/ finish \/ fail
  PROVE  PlaceInv'
<1>0. /\ DOMAIN disk = File /\ sidecar \in File /\ OpeningOk /\ PlanOk /\ opening # Idle
      /\ DOMAIN handles = Handle
      /\ opening.file \in File /\ FileOk(disk[opening.file]) /\ Exists(opening.file)
      /\ opening.step \in {"carry", "point"} =>
           opening.file # sidecar /\ \A f \in File : f <= sidecar => f # opening.file
  BY PlaceAt DEF carry, point, finish, fail, Doing, OpeningOk
<1>1. PICK f \in File : f = opening.file
  BY <1>0
<1>2. CASE carry
  <2>1. /\ opening' = [opening EXCEPT !.step = "point"]
        /\ UNCHANGED <<found, sidecar, app, handles>> /\ opening.step = "carry"
    BY <1>2 DEF carry, Then, Doing
  <2>2. opening.fresh /\ disk[f].cursors = << >> /\ disk[f].work = 0 /\ disk[f].descriptor = opening.schema
    BY <1>0, <1>1, <2>1 DEF OpeningOk, PlanOk
  <2>3. /\ disk'[f].descriptor = disk[f].descriptor /\ disk'[f].tables = disk[f].tables
        /\ disk'[f].work = disk[f].work /\ \A n \in File : n # f => disk'[n] = disk[n]
    BY <1>0, <1>1, <1>2 DEF carry, FileOk, Blank
  <2>4. DOMAIN disk'[f].cursors = opening.carried /\ Unstarted(disk'[f])
    <3>1. CASE opening.carried = {}
      <4>1. disk'[f].cursors = << >>
        BY <1>2, <2>2, <3>1 DEF carry
      <4> QED BY <3>1, <4>1 DEF Unstarted
    <3>2. CASE opening.carried # {}
      <4>1. disk'[f].cursors = Restarted(<< >>, opening.carried)
        BY <1>0, <1>1, <1>2, <2>2, <3>2 DEF carry, FileOk, Blank
      <4>2. Restarted(<< >>, opening.carried) = [c \in opening.carried |-> 0]
        BY DEF Restarted
      <4> QED BY <4>1, <4>2 DEF Unstarted
    <3> QED BY <3>1, <3>2
  <2>5. TablesInv'
    BY <1>0, <1>1, <2>1, <2>3 DEF PlaceInv, TablesInv, Exists
  <2>6. SchemaInv'
    BY <2>1, <2>3, SchemasStay
  <2>7. /\ opening'.step = "point" /\ opening'.file = f /\ opening'.fresh = opening.fresh
        /\ opening'.schema = opening.schema /\ opening'.carried = opening.carried
    BY <1>0, <1>1, <2>1 DEF OpeningOk
  <2>8. disk'[sidecar] = disk[sidecar]
    BY <1>0, <1>1, <2>1, <2>3
  <2>9. PlanOk'
    BY <1>0, <1>1, <2>1, <2>2, <2>3, <2>4, <2>7, <2>8 DEF PlanOk, Settled
  <2> QED BY <2>5, <2>6, <2>9 DEF PlaceInv, PlanInv
<1>3. CASE point
  <2>1. /\ sidecar' = f /\ opening' = [opening EXCEPT !.step = "finish"]
        /\ UNCHANGED <<found, disk, app, handles>> /\ opening.step = "point"
    BY <1>1, <1>3 DEF point, Then, Doing
  <2>2. TablesInv' /\ SchemaInv'
    BY <2>1 DEF PlaceInv, TablesInv, SchemaInv, Open, Exists, Settled
  <2>3. /\ opening'.step = "finish" /\ opening'.file = f /\ opening'.fresh = opening.fresh
        /\ opening'.schema = opening.schema
    BY <1>0, <1>1, <2>1 DEF OpeningOk
  <2>4. PlanOk'
    BY <1>0, <1>1, <2>1, <2>3 DEF PlanOk, Settled
  <2> QED BY <2>2, <2>4 DEF PlaceInv, PlanInv
<1>4. CASE finish
  <2>0. PICK h \in Handle : h = opening.handle
    BY <1>0 DEF OpeningOk
  <2> DEFINE kept == Open(h) /\ ~ opening.fresh
             made == [file |-> f, generation |-> disk[f].generation, schema |-> opening.schema,
                      pending |-> opening.pending, origin |-> TRUE, session |-> None]
  <2>1. /\ opening' = Idle /\ UNCHANGED <<found, disk, sidecar, app>> /\ opening.step = "finish"
        /\ handles' = IF kept THEN handles ELSE [handles EXCEPT ![h] = made]
    BY <1>1, <1>4, <2>0 DEF finish, Doing
  <2>2. disk[f].descriptor = opening.schema /\ Settled(opening.schema)
    BY <1>0, <1>1, <2>1 DEF OpeningOk, PlanOk
  <2>3. TablesInv' /\ PlanInv'
    BY <2>1 DEF PlaceInv, TablesInv, Exists, PlanInv
  <2>4. ASSUME NEW k \in Handle, handles'[k] # Closed
        PROVE  handles'[k].schema = disk[handles'[k].file].descriptor /\ Settled(handles[k].schema)'
    <3>1. CASE handles'[k] = handles[k]
      BY <2>1, <2>4, <3>1 DEF PlaceInv, SchemaInv, Open, Settled
    <3>2. CASE handles'[k] # handles[k]
      <4>1. k = h /\ handles'[k] = made
        BY <2>1, <3>2, <1>0
      <4> QED BY <4>1, <2>1, <2>2 DEF Settled
    <3> QED BY <3>1, <3>2
  <2>5. SchemaInv'
    BY <2>1, <2>4 DEF SchemaInv, Open
  <2> QED BY <2>3, <2>5 DEF PlaceInv
<1>5. CASE fail
  <2>1. opening' = Idle /\ UNCHANGED <<found, disk, sidecar, app, handles>>
    BY <1>5 DEF fail
  <2> QED BY <2>1 DEF PlaceInv, TablesInv, SchemaInv, PlanInv, Open, Exists, Settled
<1> QED BY <1>2, <1>3, <1>4, <1>5

\* The sidecar moves only at the end of an opening that made a fresh file.
LEMMA PointMoves ==
  ASSUME [Next]_vars, sidecar' # sidecar
  PROVE  point
<1>1. /\ \A h \in Handle : \A discard : ~ open_at(h, discard) /\ ~ rebuild(h, discard)
      /\ ~ clear /\ ~ create /\ ~ framework /\ ~ initialise /\ ~ carry /\ ~ finish /\ ~ fail /\ ~ restart
  BY DEF open_at, rebuild, clear, create, framework, initialise, carry, finish, fail, restart
<1>2. \A h \in Handle :
        /\ ~ write(h) /\ ~ begin_session(h) /\ ~ session(h) /\ ~ commit_session(h) /\ ~ rollback_session(h)
        /\ ~ session_savepoint(h) /\ ~ session_release(h) /\ ~ session_rollback_savepoint(h) /\ ~ close(h)
  BY DEF write, begin_session, session, commit_session, rollback_session, session_savepoint,
         session_release, session_rollback_savepoint, close, Session
<1> QED BY <1>1, <1>2 DEF Next, vars

\* A number chosen unseen is not forgotten.
LEMMA StaysAstray ==
  ASSUME [Next]_vars, astray
  PROVE  astray'
<1>1. ASSUME create PROVE astray'
  BY <1>1 DEF create
<1>2. ASSUME ~ create PROVE astray' = astray
  <2>1. CASE UNCHANGED vars
    BY <2>1 DEF vars
  <2>2. CASE \E h \in Handle : \E discard \in BOOLEAN : open_at(h, discard) \/ rebuild(h, discard)
    BY <2>2 DEF open_at, rebuild
  <2>3. CASE clear \/ framework \/ initialise \/ carry \/ point \/ finish \/ fail \/ restart
    BY <2>3 DEF clear, framework, initialise, carry, point, finish, fail, restart
  <2>4. CASE \E h \in Handle :
               \/ write(h) \/ begin_session(h) \/ session(h) \/ commit_session(h) \/ rollback_session(h)
               \/ session_savepoint(h) \/ session_release(h) \/ session_rollback_savepoint(h) \/ close(h)
    BY <2>4 DEF write, begin_session, session, commit_session, rollback_session, session_savepoint,
                session_release, session_rollback_savepoint, close, Session
  <2> QED BY <1>2, <2>1, <2>2, <2>3, <2>4 DEF Next
<1> QED BY <1>1, <1>2

\* Files, handles and openings agree on schemas in every state a client's
\* files can reach with every number chosen above the others.
THEOREM SchemasAgree == Spec => [](~ astray => PlaceInv)
<1>1. Init => (~ astray => PlaceInv)
  BY PlaceInitial
<1>2. ASSUME IInv, ~ astray => PlaceInv, [Next]_vars PROVE ~ astray' => PlaceInv'
  <2> SUFFICES ASSUME ~ astray' PROVE PlaceInv'
    OBVIOUS
  <2>1. ~ astray /\ PlaceInv
    BY <1>2, StaysAstray
  <2>2. CASE UNCHANGED vars
    BY <2>1, <2>2 DEF vars, PlaceInv, TablesInv, SchemaInv, PlanInv, PlanOk, Open, Exists, Settled
  <2>3. CASE Next
    BY <1>2, <2>1, <2>3, OpenPlaces, NamingPlaces, MakingPlaces, PointingPlaces, WritingPlaces, RestartPlaces
       DEF Next
  <2> QED BY <1>2, <2>2, <2>3
<1> QED BY <1>1, <1>2, Inductive, PTL DEF Spec

\* Every record of a handle's schema has its table, with a column for every
\* field and none that it leaves empty unasked, whatever schemas came before.
THEOREM TablesHoldRecords == Spec => []Storable
<1>1. ASSUME IInv, ~ astray => PlaceInv PROVE Storable
  <2> SUFFICES ASSUME NEW h \in Handle, Open(h), ~ astray, handles[h].file = 0 => found = Absent,
                      NEW m \in DOMAIN handles[h].schema.models
               PROVE  LET models == handles[h].schema.models
                          tables == disk[handles[h].file].tables
                      IN /\ m \in DOMAIN tables /\ tables[m].identity = models[m].identity
                         /\ \A f \in DOMAIN models[m].fields :
                              f \in DOMAIN tables[m].columns /\ tables[m].columns[f] = column(models[m].fields[f])
                         /\ \A f \in DOMAIN tables[m].columns \ DOMAIN models[m].fields :
                              tables[m].columns[f].nullable
    BY DEF Storable
  <2>1. handles[h].file \in File /\ Initialised(handles[h].file)
    BY <1>1, OneHandle
  <2>2. disk[handles[h].file].tables = TablesOf(handles[h].schema)
    BY <1>1, <2>1 DEF PlaceInv, TablesInv, SchemaInv, Initialised
  <2> DEFINE model == handles[h].schema.models[m]
             table == disk[handles[h].file].tables[m]
  <2>3. m \in DOMAIN disk[handles[h].file].tables /\ table = table_ddl(model)
    BY <2>2 DEF TablesOf
  <2>4. table.identity = model.identity /\ table.columns = [f \in DOMAIN model.fields |-> column(model.fields[f])]
    BY <2>3 DEF table_ddl
  <2> QED BY <2>3, <2>4
<1> QED BY <1>1, Inductive, SchemasAgree, PTL

\* The sidecar moves only to a file complete for the application, with every
\* subscription unless the old file could not be read, and never away from work
\* unasked; with no work and every cursor at the start, unless a number was
\* chosen unseen.
THEOREM MovesComplete == Spec => Moved
<1> DEFINE Move == LET old == disk[sidecar]
                       new == disk'[sidecar']
                   IN /\ new.descriptor = app
                      /\ old.descriptor # Unrecorded /\ old.work > 0 => opening.asked
                      /\ ~ opening.unread => DOMAIN old.cursors \subseteq DOMAIN new.cursors
                      /\ ~ astray => /\ new.work = 0 /\ Unstarted(new)
                                    /\ DOMAIN new.cursors \subseteq DOMAIN old.cursors
<1>1. ASSUME IInv, ~ astray => PlaceInv, [Next]_vars, sidecar' # sidecar PROVE Move
  <2>1. point
    BY <1>1, PointMoves
  <2>2. opening # Idle /\ opening.step = "point" /\ sidecar' = opening.file /\ disk' = disk
    BY <2>1 DEF point, Doing
  <2>3. OpeningOk /\ Leaving /\ (~ astray => PlanOk)
    BY <1>1, <2>2, OpeningAt DEF OpeningOk, PlaceInv, PlanInv
  <2>4. opening.fresh /\ opening.schema = app /\ disk[opening.file].descriptor = app /\ opening.file # sidecar
    BY <1>1, <2>2, <2>3 DEF OpeningOk
  <2>5. /\ disk[sidecar].descriptor # Unrecorded /\ disk[sidecar].work > 0 => opening.asked
        /\ ~ opening.unread => DOMAIN disk[sidecar].cursors \subseteq DOMAIN disk[opening.file].cursors
    BY <2>2, <2>3, <2>4 DEF Leaving
  <2>6. ~ astray => /\ disk[opening.file].work = 0 /\ Unstarted(disk[opening.file])
                    /\ DOMAIN disk[opening.file].cursors \subseteq DOMAIN disk[sidecar].cursors
    BY <2>2, <2>3, <2>4 DEF PlanOk
  <2> QED BY <2>2, <2>4, <2>5, <2>6
<1>2. ASSUME IInv, ~ astray => PlaceInv, [Next]_vars PROVE [sidecar' # sidecar => Move]_vars
  BY <1>1, <1>2
<1> QED BY <1>2, Inductive, SchemasAgree, PTL DEF Spec, Moved

=============================================================================
