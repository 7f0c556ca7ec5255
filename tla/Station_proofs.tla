--------------------------- MODULE Station_proofs ---------------------------
(***************************************************************************)
(* Theorems about the components of the station that share no state: the   *)
(* cameras, for any handles the SDK may give out, whichever calls fail and *)
(* whenever a link is lost; the boards, for any names and handles of       *)
(* serial ports; the queue of images, for any length and number of images; *)
(* the database, for any values and size of the table; function lists and  *)
(* arguments, for any functions and any width of the counts; and the types *)
(* of all of them, the PLC and the state of the service included.          *)
(***************************************************************************)
EXTENDS MCStation, BoundedQueues_proofs

(***************************************************************************)
(* Cameras: what a camera holds of the SDK, and its flags.                 *)
(***************************************************************************)
(* Only what the two theorems rest on: parameters and frames are left out. *)
ShapeOK ==
  /\ engGrabbing \in BOOLEAN
  /\ cam \in [handle : Handles \cup {NoHandle}, info : BOOLEAN,
              openDevice : BOOLEAN, grabbing : BOOLEAN]
  /\ sdk \in [live : SUBSET Handles, open : SUBSET Handles,
              grab : SUBSET Handles, feed : SUBSET Handles]

(* A new engine starts without a handle, so the one before it had left none. *)
HandleHasEngine == make = NoEngine => cam.handle = NoHandle

CamInv == ShapeOK /\ HandlesAccounted /\ FlagsAgree /\ HandleHasEngine

(***************************************************************************)
(* What the operations of the camera do to its handle.                     *)
(***************************************************************************)
(* Without a handle the SDK has none of ours, so the new one is all it has. *)
LEMMA OpenKeeps ==
  ASSUME CamInv, make # NoEngine, cam.handle = NoHandle, NEW h \in Handles, NEW f \in BOOLEAN,
         cam' = [cam EXCEPT !.handle = h, !.openDevice = f], sdk' = SdkOpened(h),
         UNCHANGED <<make, engGrabbing>>
  PROVE  CamInv'
<1>1. sdk.live = {} /\ sdk.open = {}
  BY HandlesAssumption DEF CamInv, HandlesAccounted, ShapeOK
<1>2. /\ sdk' = [sdk EXCEPT !.live = {h}, !.open = {h}]
      /\ sdk'.live = {h} /\ sdk'.open = {h}
  BY <1>1 DEF SdkOpened, CamInv, ShapeOK
<1>3. ShapeOK'
  BY <1>2 DEF CamInv, ShapeOK
<1>4. HandlesAccounted'
  BY <1>2 DEF CamInv, ShapeOK, HandlesAccounted
<1>5. FlagsAgree'
  BY DEF CamInv, ShapeOK, FlagsAgree
<1>. QED  BY <1>3, <1>4, <1>5 DEF CamInv, HandleHasEngine

(* Whoever destroys the handle forgets it as well. *)
LEMMA DestroyKeeps ==
  ASSUME CamInv, sdk' = SdkDestroyed(cam.handle), cam'.handle = NoHandle
  PROVE  /\ sdk' \in [live : SUBSET Handles, open : SUBSET Handles,
                      grab : SUBSET Handles, feed : SUBSET Handles]
         /\ HandlesAccounted'
<1>1. /\ sdk' = [live |-> sdk.live \ {cam.handle}, open |-> sdk.open \ {cam.handle},
                 grab |-> sdk.grab \ {cam.handle}, feed |-> sdk.feed \ {cam.handle}]
  BY DEF CamInv, ShapeOK, SdkDestroyed
<1>2. sdk'.live = {} /\ sdk'.open = {}
  BY <1>1 DEF CamInv, HandlesAccounted
<1>. QED  BY <1>1, <1>2 DEF CamInv, ShapeOK, HandlesAccounted

(* Which handles grab or feed frames is not what the handles are accounted by. *)
LEMMA StreamKeeps ==
  ASSUME CamInv, UNCHANGED make, cam'.handle = cam.handle,
         cam' \in [handle : Handles \cup {NoHandle}, info : BOOLEAN,
                   openDevice : BOOLEAN, grabbing : BOOLEAN],
         sdk' \in [live : SUBSET Handles, open : SUBSET Handles,
                   grab : SUBSET Handles, feed : SUBSET Handles],
         sdk'.live = sdk.live, sdk'.open = sdk.open,
         engGrabbing' \in BOOLEAN, FlagsAgree'
  PROVE  CamInv'
BY DEF CamInv, ShapeOK, HandlesAccounted, HandleHasEngine

(* A camera that has destroyed its handle, its flags as they were. *)
LEMMA CloseKeeps ==
  ASSUME CamInv, UNCHANGED <<make, engGrabbing>>, NEW i \in BOOLEAN, NEW f \in BOOLEAN,
         cam' = [cam EXCEPT !.handle = NoHandle, !.info = i, !.openDevice = f],
         sdk' = SdkDestroyed(cam.handle)
  PROVE  CamInv'
<1>1. /\ cam' \in [handle : Handles \cup {NoHandle}, info : BOOLEAN,
                   openDevice : BOOLEAN, grabbing : BOOLEAN]
      /\ cam'.handle = NoHandle /\ cam'.grabbing = cam.grabbing
  BY DEF CamInv, ShapeOK
<1>2. ShapeOK' /\ HandlesAccounted'
  BY <1>1, DestroyKeeps DEF CamInv, ShapeOK
<1>3. FlagsAgree' /\ HandleHasEngine'
  BY <1>1 DEF CamInv, FlagsAgree, HandleHasEngine
<1>. QED  BY <1>2, <1>3 DEF CamInv

-----------------------------------------------------------------------------
(***************************************************************************)
(* Every step keeps CamInv.                                                *)
(***************************************************************************)
LEMMA SameKeeps ==
  ASSUME CamInv, UNCHANGED <<make, engGrabbing, cam, sdk>> PROVE CamInv'
BY DEF CamInv, ShapeOK, HandlesAccounted, FlagsAgree, HandleHasEngine

LEMMA CreateKeeps == ASSUME CamInv, Create PROVE CamInv'
<1>1. /\ cam' = [NoCamera EXCEPT !.info = TRUE]
      /\ engGrabbing' = FALSE /\ UNCHANGED sdk /\ cam.handle = NoHandle
  BY DEF Create, NewEngine, CamInv, HandleHasEngine
<1>2. cam' = [handle |-> NoHandle, info |-> TRUE, openDevice |-> FALSE, grabbing |-> FALSE]
  BY <1>1 DEF NoCamera
<1>3. engGrabbing' \in BOOLEAN
  BY <1>1, Zenon
<1>4. cam'.handle = NoHandle /\ cam'.grabbing = FALSE
  BY <1>2
<1>5. ShapeOK'
  <2>1. cam' \in [handle : Handles \cup {NoHandle}, info : BOOLEAN,
                  openDevice : BOOLEAN, grabbing : BOOLEAN]
    BY <1>2
  <2>2. UNCHANGED sdk
    BY <1>1
  <2>. QED  BY <1>3, <2>1, <2>2 DEF CamInv, ShapeOK
<1>6. HandlesAccounted'
  BY <1>1, <1>4 DEF CamInv, HandlesAccounted
<1>7. FlagsAgree'
  BY <1>1, <1>4, Zenon DEF FlagsAgree
<1>8. HandleHasEngine'
  BY <1>4 DEF HandleHasEngine
<1>. QED  BY <1>5, <1>6, <1>7, <1>8 DEF CamInv

LEMMA DeleteKeeps == ASSUME CamInv, Delete PROVE CamInv'
<1>1. /\ cam' = [handle |-> NoHandle, info |-> FALSE, openDevice |-> FALSE, grabbing |-> FALSE]
      /\ engGrabbing' = FALSE /\ sdk' = SdkDestroyed(cam.handle)
  BY DEF Delete, DeleteEngine, NoCamera
<1>2. engGrabbing' \in BOOLEAN
  BY <1>1, Zenon
<1>3. cam'.handle = NoHandle
  BY <1>1
<1>4. ShapeOK' /\ HandlesAccounted'
  BY <1>1, <1>2, <1>3, DestroyKeeps DEF ShapeOK
<1>. QED  BY <1>1, <1>4 DEF CamInv, FlagsAgree, HandleHasEngine

LEMMA OpenHikKeeps ==
  ASSUME CamInv, OpenHik, UNCHANGED <<make, engGrabbing>> PROVE CamInv'
<1>1. CASE make = "hik" /\ cam.info /\ cam.handle = NoHandle /\ up
  <2>1. PICK h \in Handles : /\ cam' = [cam EXCEPT !.handle = h, !.openDevice = TRUE]
                             /\ sdk' = SdkOpened(h)
    BY <1>1 DEF OpenHik
  <2>2. TRUE \in BOOLEAN /\ make # NoEngine
    BY <1>1 DEF NoEngine
  <2>. QED  BY <1>1, <2>1, <2>2, OpenKeeps
<1>2. CASE ~(make = "hik" /\ cam.info /\ cam.handle = NoHandle /\ up)
  BY <1>2, SameKeeps DEF OpenHik
<1>. QED  BY <1>1, <1>2

LEMMA OpenDahuaKeeps ==
  ASSUME CamInv, OpenDahua, UNCHANGED <<make, engGrabbing>> PROVE CamInv'
<1>1. CASE make = "dahua" /\ cam.info /\ cam.handle = NoHandle /\ up
  <2>1. PICK h \in Handles : cam' = [cam EXCEPT !.handle = h] /\ sdk' = SdkOpened(h)
    BY <1>1 DEF OpenDahua
  <2>2. /\ cam' = [cam EXCEPT !.handle = h, !.openDevice = cam.openDevice]
        /\ cam.openDevice \in BOOLEAN /\ make # NoEngine
    BY <1>1, <2>1 DEF CamInv, ShapeOK, NoEngine
  <2>. QED  BY <1>1, <2>1, <2>2, OpenKeeps
<1>2. CASE ~(make = "dahua" /\ cam.info /\ cam.handle = NoHandle /\ up)
  BY <1>2, SameKeeps DEF OpenDahua
<1>. QED  BY <1>1, <1>2

LEMMA CloseHikKeeps ==
  ASSUME CamInv, CloseHik, UNCHANGED <<make, engGrabbing>> PROVE CamInv'
<1>. DEFINE f == cam.openDevice \/ Reached
<1>1. f \in BOOLEAN /\ cam.info \in BOOLEAN
  BY DEF CamInv, ShapeOK, Reached
<1>2. cam' = [cam EXCEPT !.handle = NoHandle, !.info = cam.info, !.openDevice = f]
  BY DEF CloseHik, CamInv, ShapeOK
<1>3. sdk' = SdkDestroyed(cam.handle)
  BY DEF CloseHik
<1>. HIDE DEF f
<1>. QED  BY <1>1, <1>2, <1>3, CloseKeeps

LEMMA CloseDahuaKeeps ==
  ASSUME CamInv, CloseDahua, UNCHANGED <<make, engGrabbing>> PROVE CamInv'
<1>1. cam.openDevice \in BOOLEAN /\ cam.info \in BOOLEAN
  BY DEF CamInv, ShapeOK
<1>2. cam' = [cam EXCEPT !.handle = NoHandle, !.info = cam.info, !.openDevice = cam.openDevice]
  BY DEF CloseDahua, CamInv, ShapeOK
<1>3. sdk' = SdkDestroyed(cam.handle)
  BY DEF CloseDahua
<1>. QED  BY <1>1, <1>2, <1>3, CloseKeeps

LEMMA OpenCloseKeeps == ASSUME CamInv, OpenDevice \/ CloseDevice PROVE CamInv'
<1>1. CASE OpenDevice
  BY <1>1, OpenHikKeeps, OpenDahuaKeeps DEF OpenDevice
<1>2. CASE CloseDevice
  BY <1>2, CloseHikKeeps, CloseDahuaKeeps DEF CloseDevice
<1>. QED  BY <1>1, <1>2

(* The engine's flag follows what the camera answers. *)
LEMMA StartFrameKeeps == ASSUME CamInv, StartFrame PROVE CamInv'
<1>0. cam.grabbing \in BOOLEAN
  BY DEF CamInv, ShapeOK
<1>1. CASE make = "hik" /\ StartHik /\ engGrabbing' = StartHikOk
  <2>1. UNCHANGED make
    BY DEF StartFrame
  <2>2. CASE ~cam.grabbing /\ Reached
    <3>1. /\ sdk' = [sdk EXCEPT !.grab = @ \cup {cam.handle}]
          /\ cam' = [cam EXCEPT !.grabbing = TRUE]
      BY <1>1, <2>2 DEF StartHik
    <3>2. engGrabbing' = TRUE
      BY <1>1, <2>2 DEF StartHikOk
    <3>3. cam.handle \in Handles
      BY <2>2 DEF Reached, CamInv, ShapeOK
    <3>4. cam'.grabbing = TRUE
      BY <3>1 DEF CamInv, ShapeOK
    <3>5. FlagsAgree' /\ engGrabbing' \in BOOLEAN
      BY <3>2, <3>4, Zenon DEF FlagsAgree
    <3>. QED  BY <2>1, <3>1, <3>3, <3>5, StreamKeeps DEF CamInv, ShapeOK
  <2>3. CASE ~(~cam.grabbing /\ Reached)
    <3>1. UNCHANGED <<cam, sdk>>
      BY <1>1, <2>3 DEF StartHik
    <3>2. engGrabbing' = cam.grabbing
      BY <1>0, <1>1, <2>3 DEF StartHikOk, Reached
    <3>3. FlagsAgree' /\ engGrabbing' \in BOOLEAN
      BY <1>0, <3>1, <3>2 DEF FlagsAgree
    <3>. QED  BY <2>1, <3>1, <3>3, StreamKeeps DEF CamInv, ShapeOK
  <2>. QED  BY <2>2, <2>3
<1>2. CASE make = "dahua" /\ Reached /\ sdk' = [sdk EXCEPT !.grab = @ \cup {cam.handle}]
           /\ engGrabbing' = TRUE /\ UNCHANGED cam
  <2>1. UNCHANGED make
    BY DEF StartFrame
  <2>2. engGrabbing' \in BOOLEAN /\ FlagsAgree'
    BY <1>2, <2>1, Zenon DEF FlagsAgree
  <2>3. cam.handle \in Handles
    BY <1>2 DEF Reached, CamInv, ShapeOK
  <2>. QED  BY <1>2, <2>1, <2>2, <2>3, StreamKeeps DEF CamInv, ShapeOK
<1>. QED  BY <1>1, <1>2 DEF StartFrame

LEMMA StopFrameKeeps == ASSUME CamInv, StopFrame PROVE CamInv'
<1>0. cam.grabbing \in BOOLEAN /\ UNCHANGED make
  BY DEF StopFrame, CamInv, ShapeOK
<1>1. PICK ok \in {Reached, TRUE} :
        LET stops == ok /\ cam.handle \in sdk.grab
        IN  \/ /\ make = "hik" /\ StopHik(stops)
               /\ engGrabbing' = (cam.grabbing /\ ~stops)
            \/ /\ make = "dahua"
               /\ sdk' = [sdk EXCEPT !.grab = @ \ IF stops THEN {cam.handle} ELSE {}]
               /\ engGrabbing' = ~stops /\ UNCHANGED cam
  BY DEF StopFrame
<1>. DEFINE stops == ok /\ cam.handle \in sdk.grab
<1>2. stops \in BOOLEAN
  OBVIOUS
<1>3. CASE /\ make = "hik" /\ StopHik(stops)
           /\ engGrabbing' = (cam.grabbing /\ ~stops)
  <2>. HIDE DEF stops
  <2>1. CASE cam.grabbing /\ stops
    <3>1. /\ sdk' = [sdk EXCEPT !.grab = @ \ {cam.handle}]
          /\ cam' = [cam EXCEPT !.grabbing = FALSE]
      BY <1>3, <2>1 DEF StopHik
    <3>2. engGrabbing' = FALSE
      BY <1>3, <2>1
    <3>3. cam'.grabbing = FALSE
      BY <3>1 DEF CamInv, ShapeOK
    <3>4. engGrabbing' \in BOOLEAN /\ FlagsAgree'
      BY <3>2, <3>3, Zenon DEF FlagsAgree
    <3>. QED  BY <1>0, <3>1, <3>4, StreamKeeps DEF CamInv, ShapeOK
  <2>2. CASE ~(cam.grabbing /\ stops)
    <3>1. UNCHANGED <<cam, sdk>>
      BY <1>3, <2>2 DEF StopHik
    <3>2. engGrabbing' = cam.grabbing
      BY <1>0, <1>2, <1>3, <2>2
    <3>3. engGrabbing' \in BOOLEAN /\ FlagsAgree'
      BY <1>0, <3>1, <3>2 DEF FlagsAgree
    <3>. QED  BY <1>0, <3>1, <3>3, StreamKeeps DEF CamInv, ShapeOK
  <2>. QED  BY <2>1, <2>2
<1>4. CASE /\ make = "dahua"
           /\ sdk' = [sdk EXCEPT !.grab = @ \ IF stops THEN {cam.handle} ELSE {}]
           /\ engGrabbing' = ~stops /\ UNCHANGED cam
  <2>. HIDE DEF stops
  <2>1. engGrabbing' \in BOOLEAN /\ FlagsAgree'
    BY <1>0, <1>2, <1>4 DEF FlagsAgree
  <2>. QED  BY <1>0, <1>4, <2>1, StreamKeeps DEF CamInv, ShapeOK
<1>. QED  BY <1>1, <1>3, <1>4

LEMMA RegisterKeeps == ASSUME CamInv, RegisterImageCallBack PROVE CamInv'
<1>1. cam.handle \in Handles
  BY DEF RegisterImageCallBack, Reached, CamInv, ShapeOK
<1>2. FlagsAgree'
  BY DEF RegisterImageCallBack, CamInv, FlagsAgree
<1>. QED  BY <1>1, <1>2, StreamKeeps DEF RegisterImageCallBack, CamInv, ShapeOK

(* ReconnectDevice starts a camera only when its flag says that it grabs already. *)
LEMMA ReconnectKeeps == ASSUME CamInv, Reconnect PROVE CamInv'
<1>1. CASE LostHik
  BY <1>1, CloseHikKeeps DEF LostHik
<1>2. CASE Reopen
  BY <1>2, OpenHikKeeps DEF Reopen
<1>3. CASE Restart
  <2>1. UNCHANGED <<cam, sdk>>
    BY <1>3 DEF Restart, StartHik
  <2>. QED  BY <1>3, <2>1, SameKeeps DEF Restart
<1>. QED  BY <1>1, <1>2, <1>3 DEF Reconnect

LEMMA NotifyKeeps == ASSUME CamInv, onDeviceLinkNotify PROVE CamInv'
<1>0. make = "dahua" /\ UNCHANGED <<make, engGrabbing>>
  BY DEF onDeviceLinkNotify
<1>1. FALSE \in BOOLEAN /\ cam.openDevice \in BOOLEAN
  BY DEF CamInv, ShapeOK
<1>2. FlagsAgree' /\ engGrabbing' \in BOOLEAN
  BY <1>0 DEF FlagsAgree, CamInv, ShapeOK
<1>3. CASE cam' = [cam EXCEPT !.info = FALSE] /\ UNCHANGED <<sdk, notice>>
  BY <1>0, <1>2, <1>3, StreamKeeps DEF CamInv, ShapeOK
<1>4. CASE deviceOffLine
  BY <1>0, <1>2, <1>4, StreamKeeps DEF deviceOffLine, CamInv, ShapeOK
<1>5. CASE deviceOnLine
  <2>1. cam' = [cam EXCEPT !.handle = NoHandle, !.info = FALSE, !.openDevice = cam.openDevice]
    BY <1>5 DEF deviceOnLine, CamInv, ShapeOK
  <2>. QED  BY <1>0, <1>1, <1>5, <2>1, CloseKeeps DEF deviceOnLine
<1>. QED  BY <1>3, <1>4, <1>5 DEF onDeviceLinkNotify

LEMMA InitCamInv == CamInit => CamInv
<1>. SUFFICES ASSUME CamInit PROVE CamInv
  OBVIOUS
<1>1. engGrabbing \in BOOLEAN
  BY Zenon DEF CamInit
<1>. QED  BY <1>1 DEF CamInit, NoCamera, CamInv, ShapeOK, HandlesAccounted, FlagsAgree,
                    HandleHasEngine

LEMMA NextKeepsCamInv == CamInv /\ [CamNext]_camVars => CamInv'
<1>. SUFFICES ASSUME CamInv, [CamNext]_camVars PROVE CamInv'
  OBVIOUS
<1>1. CASE EndLink \/ Enumerate \/ SetParam \/ SetTrigger \/ GetParam \/ SaveFeature
           \/ LoadFeature \/ DeliverFrame \/ GetFrame \/ UNCHANGED camVars
  <2>1. UNCHANGED <<make, engGrabbing, cam, sdk>>
    BY <1>1 DEF EndLink, Enumerate, SetParam, SetTrigger, GetParam, SaveFeature,
                LoadFeature, DeliverFrame, GetFrame, camVars
  <2>. QED  BY <2>1, SameKeeps
<1>2. CASE Create \/ Delete
  BY <1>2, CreateKeeps, DeleteKeeps
<1>3. CASE OpenDevice \/ CloseDevice
  BY <1>3, OpenCloseKeeps
<1>4. CASE StartFrame \/ StopFrame \/ RegisterImageCallBack
  BY <1>4, StartFrameKeeps, StopFrameKeeps, RegisterKeeps
<1>5. CASE Reconnect \/ onDeviceLinkNotify
  BY <1>5, ReconnectKeeps, NotifyKeeps
<1>. QED  BY <1>1, <1>2, <1>3, <1>4, <1>5 DEF CamNext

-----------------------------------------------------------------------------
(***************************************************************************)
(* The theorems.                                                           *)
(***************************************************************************)
(* Every handle the SDK holds for the library is the one of the camera, and
   open: Open, Close, ReconnectDevice, deviceOnLine and ~class_net_engine leave
   none behind, whichever of their calls fail and whenever the link is lost. *)
THEOREM HandlesAlwaysAccounted == CamSpec => []HandlesAccounted
<1>1. CamInv => HandlesAccounted
  BY DEF CamInv
<1>. QED  BY InitCamInv, NextKeepsCamInv, <1>1, PTL DEF CamSpec

(* class_net_engine::m_bStartGrabbing and CMvCamera::m_bStartGrabbing, which
   StartGrabbing, StopGrabbing, Close and ReconnectDevice set and clear or leave,
   are always the same. *)
THEOREM FlagsAlwaysAgree == CamSpec => []FlagsAgree
<1>1. CamInv => FlagsAgree
  BY DEF CamInv
<1>. QED  BY InitCamInv, NextKeepsCamInv, <1>1, PTL DEF CamSpec

-----------------------------------------------------------------------------

(***************************************************************************)
(* The list of open ports.                                                 *)
(***************************************************************************)
Port == [name : PortNames, handle : PortHandles]

PortsTypeOK ==
  ports \in Seq(Port) /\ io \in [live : SUBSET PortHandles, open : SUBSET PortHandles]

PortInv == PortsTypeOK /\ PortsAccounted

(* What the search by name returns: 0 when no port has it, or a port's place. *)
LEMMA SearchByName ==
  ASSUME PortsTypeOK, NEW name
  PROVE  LET i == GetSerialComIndexByName(name)
         IN  /\ i = 0 => \A k \in 1 .. Len(ports) : ports[k].name # name
             /\ i # 0 => i \in 1 .. Len(ports)
<1>. DEFINE I == {k \in 1 .. Len(ports) : ports[k].name = name}
            m == CHOOSE x \in I : \A y \in I : x <= y
<1>1. GetSerialComIndexByName(name) = IF I # {} THEN m ELSE 0
  BY DEF GetSerialComIndexByName, SelectInSeq, Min
<1>2. CASE I = {}
  BY <1>1, <1>2
<1>3. CASE I # {}
  <2>1. I \in SUBSET Nat
    BY LenProperties DEF PortsTypeOK
  <2>2. \E x \in I : \A y \in I : x <= y
    BY <1>3, <2>1, LeastNatural
  <2>3. m \in I
    BY <2>2
  <2>. HIDE DEF m
  <2>4. m \in 1 .. Len(ports)
    BY <2>3
  <2>. QED  BY <1>1, <1>3, <2>4, LenProperties DEF PortsTypeOK
<1>. QED  BY <1>2, <1>3

LEMMA KeepPorts == ASSUME PortInv, UNCHANGED <<ports, io>> PROVE PortInv'
BY DEF PortInv, PortsTypeOK, PortsAccounted

(* A port that opens has a handle that no port of the list has, and a name. *)
LEMMA OpenSerialKeeps ==
  ASSUME PortInv, NEW name \in PortNames, OpenSerial(name) PROVE PortInv'
<1>1. \A k \in 1 .. Len(ports) : ports[k].name # name
  BY SearchByName DEF OpenSerial, PortInv
<1>2. PICK h \in PortHandles \ io.live :
        \/ DestroyUnopened(h) /\ UNCHANGED ports
        \/ /\ io' = [live |-> io.live \cup {h}, open |-> io.open \cup {h}]
           /\ ports' = Append(ports, [name |-> name, handle |-> h])
  BY DEF OpenSerial
<1>3. CASE DestroyUnopened(h) /\ UNCHANGED ports
  BY <1>3, KeepPorts DEF DestroyUnopened
<1>4. CASE /\ io' = [live |-> io.live \cup {h}, open |-> io.open \cup {h}]
           /\ ports' = Append(ports, [name |-> name, handle |-> h])
  <2>. DEFINE p == [name |-> name, handle |-> h]
              n == Len(ports)
  <2>1. p \in Port /\ p.name = name /\ p.handle = h
    BY DEF Port
  <2>2. n \in Nat /\ DOMAIN ports = 1 .. n
    BY LenProperties DEF PortInv, PortsTypeOK
  <2>3. /\ ports' \in Seq(Port) /\ Len(ports') = n + 1
        /\ ports'[n + 1] = p /\ \A k \in 1 .. n : ports'[k] = ports[k]
    BY <1>4, <2>1, AppendProperties DEF PortInv, PortsTypeOK
  <2>4. DOMAIN ports' = 1 .. n + 1
    BY <2>3, LenProperties
  <2>5. /\ io'.live = io.live \cup {h} /\ io'.open = io.open \cup {h}
        /\ io' \in [live : SUBSET PortHandles, open : SUBSET PortHandles]
    BY <1>4 DEF PortInv, PortsTypeOK
  <2>6. io.live = {ports[k].handle : k \in 1 .. n} /\ io.open = io.live
    BY <2>2 DEF PortInv, PortsAccounted
  <2>. HIDE DEF p, n
  <2>7. io'.live = {ports'[k].handle : k \in 1 .. n + 1}
    BY <2>1, <2>2, <2>3, <2>5, <2>6
  <2>8. ASSUME NEW k \in 1 .. n PROVE ports[k].name # name /\ ports[k].handle # h
    BY <1>1, <2>6 DEF n
  <2>9. ASSUME NEW i \in 1 .. n + 1, NEW j \in 1 .. n + 1, i # j
        PROVE  ports'[i].name # ports'[j].name /\ ports'[i].handle # ports'[j].handle
    <3>1. CASE i \in 1 .. n /\ j \in 1 .. n
      BY <2>2, <2>3, <2>9, <3>1 DEF PortInv, PortsAccounted
    <3>2. CASE i = n + 1 /\ j \in 1 .. n
      BY <2>1, <2>3, <2>8, <3>2
    <3>3. CASE j = n + 1 /\ i \in 1 .. n
      BY <2>1, <2>3, <2>8, <3>3
    <3>. QED  BY <2>2, <2>9, <3>1, <3>2, <3>3
  <2>. QED  BY <2>3, <2>4, <2>5, <2>6, <2>7, <2>9 DEF PortInv, PortsTypeOK, PortsAccounted
<1>. QED  BY <1>2, <1>3, <1>4

(* The port that closes takes its handle, and no other port's, with it. *)
LEMMA CloseSerialKeeps ==
  ASSUME PortInv, NEW name \in PortNames, CloseSerial(name) PROVE PortInv'
<1>. DEFINE i == GetSerialComIndexByName(name)
            n == Len(ports)
            h == ports[i].handle
<1>1. i \in 1 .. n
  BY SearchByName DEF CloseSerial, PortInv
<1>2. io' = [s \in DOMAIN io |-> io[s] \ {h}] /\ ports' = RemoveAt(ports, i)
  BY DEF CloseSerial, HandleDestroyed
<1>. HIDE DEF i
<1>3. n \in Nat /\ DOMAIN ports = 1 .. n
  BY LenProperties DEF PortInv, PortsTypeOK
<1>4. /\ ports' \in Seq(Port) /\ Len(ports') = n - 1
      /\ \A k \in 1 .. n - 1 : ports'[k] = IF k < i THEN ports[k] ELSE ports[k + 1]
  BY <1>1, <1>2, RemoveAtProperties DEF PortInv, PortsTypeOK
<1>5. DOMAIN ports' = 1 .. n - 1
  BY <1>4, LenProperties
<1>6. /\ io' \in [live : SUBSET PortHandles, open : SUBSET PortHandles]
      /\ io'.live = io.live \ {h} /\ io'.open = io.open \ {h}
  BY <1>2 DEF PortInv, PortsTypeOK
<1>7. /\ io.live = {ports[k].handle : k \in 1 .. n} /\ io.open = io.live
      /\ \A j, k \in 1 .. n : j # k =>
            ports[j].name # ports[k].name /\ ports[j].handle # ports[k].handle
  BY <1>3 DEF PortInv, PortsAccounted
<1>. DEFINE old(k) == IF k < i THEN k ELSE k + 1
<1>8. \A k \in 1 .. n - 1 : old(k) \in 1 .. n /\ old(k) # i /\ ports'[k] = ports[old(k)]
  BY <1>1, <1>3, <1>4
<1>9. \A j, k \in 1 .. n - 1 : j # k => old(j) # old(k)
  BY <1>1, <1>3
<1>10. \A k \in 1 .. n : k # i => \E j \in 1 .. n - 1 : old(j) = k
  <2>. SUFFICES ASSUME NEW k \in 1 .. n, k # i PROVE \E j \in 1 .. n - 1 : old(j) = k
    OBVIOUS
  <2>1. CASE k < i
    BY <1>1, <1>3, <2>1
  <2>2. CASE k > i
    <3>1. k - 1 \in 1 .. n - 1 /\ old(k - 1) = k
      BY <1>1, <1>3, <2>2
    <3>. QED  BY <3>1
  <2>. QED  BY <1>1, <1>3, <2>1, <2>2
<1>. HIDE DEF old, n
<1>11. io'.live = {ports'[k].handle : k \in 1 .. n - 1}
  <2>1. ASSUME NEW x \in io'.live PROVE x \in {ports'[k].handle : k \in 1 .. n - 1}
    <3>1. PICK k \in 1 .. n : x = ports[k].handle /\ k # i
      BY <1>6, <1>7, <2>1
    <3>2. PICK j \in 1 .. n - 1 : old(j) = k
      BY <1>10, <3>1
    <3>3. ports'[j] = ports[k]
      BY <1>8, <3>2
    <3>. QED  BY <3>1, <3>2, <3>3
  <2>2. ASSUME NEW k \in 1 .. n - 1 PROVE ports'[k].handle \in io'.live
    BY <1>1, <1>6, <1>7, <1>8
  <2>. QED  BY <2>1, <2>2
<1>12. ASSUME NEW j \in 1 .. n - 1, NEW k \in 1 .. n - 1, j # k
       PROVE  ports'[j].name # ports'[k].name /\ ports'[j].handle # ports'[k].handle
  BY <1>7, <1>8, <1>9, <1>12
<1>. QED  BY <1>4, <1>5, <1>6, <1>7, <1>11, <1>12 DEF PortInv, PortsTypeOK, PortsAccounted

LEMMA InitPortInv == BoardInit => PortInv
BY EmptySeq DEF BoardInit, PortInv, PortsTypeOK, PortsAccounted

LEMMA NextKeepsPortInv == PortInv /\ [BoardNext]_boardVars => PortInv'
<1>. SUFFICES ASSUME PortInv, [BoardNext]_boardVars PROVE PortInv'
  OBVIOUS
<1>1. ASSUME NEW name \in PortNames, OnSerial(name) PROVE PortInv'
  <2>1. CASE OpenSerial(name)
    BY <2>1, OpenSerialKeeps
  <2>2. CASE CloseSerial(name)
    BY <2>2, CloseSerialKeeps
  <2>3. CASE ~(OpenSerial(name) \/ CloseSerial(name))
    <3>1. UNCHANGED <<ports, io>>
      BY <1>1, <2>3 DEF OnSerial, SaveOrReboot, IOBoard_SetOutput, SetLightParam,
           SetLightTrigger, IOBoard_SetInput, IOBoard_SetOutputTrigger,
           IOBoard_SetOutputEnable, IOBoard_SetOutputDisable, OnPort
    <3>. QED  BY <3>1, KeepPorts
  <2>. QED  BY <2>1, <2>2, <2>3
<1>2. ASSUME NEW name \in CardNames, OnCard(name) PROVE UNCHANGED <<ports, io>>
  BY <1>2 DEF OnCard, PCIe_OpenDevice, PCIe_CloseDevice, PCIe_WriteDeviceIO
<1>3. CASE OnMainBoard
  BY <1>3, KeepPorts DEF OnMainBoard, SelectPnp, OpenGPIO, SetGPO
<1>4. CASE UNCHANGED boardVars
  BY <1>4, KeepPorts DEF boardVars
<1>. QED  BY <1>1, <1>2, <1>3, <1>4, KeepPorts DEF BoardNext

(* OpenSerial and CloseSerial keep the list and the library in step, whichever
   ports do not open: no handle is lost, none is closed twice, and a name finds
   one port. *)
THEOREM PortsAlwaysAccounted == BoardSpec => []PortsAccounted
<1>1. PortInv => PortsAccounted
  BY DEF PortInv
<1>. QED  BY InitPortInv, NextKeepsPortInv, <1>1, PTL DEF BoardSpec

-----------------------------------------------------------------------------
(***************************************************************************)
(* What the boards are asked for.                                          *)
(***************************************************************************)
(* An int is at most MaxTime as an unsigned int only when it is not negative. *)
LEMMA ShortIsPositive ==
  ASSUME NEW t \in Times, Unsigned(t) <= MaxTime
  PROVE  Unsigned(t) = t /\ t \in 0 .. MaxTime
<1>1. /\ t \in Int /\ 2 * t < WordSize /\ -WordSize <= 2 * t
      /\ MaxTime \in Nat /\ WordSize \in Nat \ {0} /\ 2 * MaxTime < WordSize
  BY BoardAssumption
<1>2. CASE t >= 0
  <2>1. t \in 0 .. WordSize - 1
    BY <1>1, <1>2
  <2>2. t % WordSize = t
    BY <1>1, <2>1
  <2>. QED  BY <1>1, <1>2, <2>2 DEF Unsigned
<1>3. CASE t < 0
  <2>1. t \in (-WordSize) .. (-1)
    BY <1>1, <1>3
  <2>2. t % WordSize = t + WordSize
    BY <1>1, <2>1
  <2>. QED  BY <1>1, <1>3, <2>2 DEF Unsigned
<1>. QED  BY <1>1, <1>2, <1>3

LEMMA OutputsPossible ==
  ASSUME NEW o \in Outputs, sent' = o PROVE CheckedOutputPossible'
<1>1. /\ o = <<o[1], o[2], o[3], o[4]>> /\ o[1] \in OutputTypes
      /\ o[2] \in Times /\ o[3] \in Times /\ o[4] \in Times
      /\ CheckOutputParam(o[1], o[2], o[3], o[4])
  BY DEF Outputs
<1>4. CASE o[1] = "other"
  BY <1>4 DEF CheckedOutputPossible
<1>2. CASE o[1] = "single"
  <2>1. Unsigned(o[2]) <= MaxTime
    BY <1>1, <1>2 DEF CheckOutputParam
  <2>2. o[2] \in 0 .. MaxTime
    BY <1>1, <2>1, ShortIsPositive
  <2>. QED  BY <1>2, <2>2 DEF CheckedOutputPossible
<1>3. CASE o[1] = "pwm"
  <2>1. /\ Unsigned(o[3]) <= MaxTime /\ Unsigned(o[4]) <= MaxTime
        /\ Unsigned(o[4]) # 0 /\ ~(Unsigned(o[3]) < Unsigned(o[4]))
    BY <1>1, <1>3 DEF CheckOutputParam
  <2>2. /\ Unsigned(o[3]) = o[3] /\ o[3] \in 0 .. MaxTime
        /\ Unsigned(o[4]) = o[4] /\ o[4] \in 0 .. MaxTime
    BY <1>1, <2>1, ShortIsPositive
  <2>3. 1 <= o[4] /\ o[4] <= o[3] /\ o[3] <= MaxTime
    BY <2>1, <2>2, BoardAssumption
  <2>. QED  BY <1>3, <2>3 DEF CheckedOutputPossible
<1>. QED  BY <1>1, <1>2, <1>3, <1>4 DEF OutputTypes

LEMMA LightPossible ==
  ASSUME NEW dur \in Times,
         sent' = <<"light", IF Unsigned(dur) > MaxTime THEN MaxTime ELSE dur>>
  PROVE  CheckedOutputPossible'
<1>1. /\ Unsigned(dur) \in Int /\ MaxTime \in Nat
  BY BoardAssumption DEF Unsigned
<1>2. (IF Unsigned(dur) > MaxTime THEN MaxTime ELSE dur) \in 0 .. MaxTime
  BY <1>1, ShortIsPositive
<1>. QED  BY <1>2 DEF CheckedOutputPossible

(* Settings of every other kind are not about times. *)
LEMMA OthersPossible ==
  ASSUME NEW kind \in {"lightTrigger", "input", "outputTrigger", "enable", "disable",
                       "card", "pnp", "driver", "gpio"}, sent'[1] = kind
  PROVE  CheckedOutputPossible'
BY DEF CheckedOutputPossible

LEMMA KeepPossible == ASSUME CheckedOutputPossible, UNCHANGED sent PROVE CheckedOutputPossible'
BY DEF CheckedOutputPossible

LEMMA SerialPossible ==
  ASSUME CheckedOutputPossible, NEW name, OnSerial(name) PROVE CheckedOutputPossible'
<1>1. CASE OpenSerial(name) \/ CloseSerial(name) \/ SaveOrReboot(name)
  BY <1>1, KeepPossible DEF OpenSerial, CloseSerial, SaveOrReboot
<1>2. CASE IOBoard_SetOutput(name)
  BY <1>2, OutputsPossible DEF IOBoard_SetOutput, OnPort, Handed
<1>3. CASE SetLightParam(name)
  BY <1>3, LightPossible DEF SetLightParam, OnPort, Handed
<1>4. CASE \/ SetLightTrigger(name) \/ IOBoard_SetInput(name)
           \/ IOBoard_SetOutputTrigger(name) \/ IOBoard_SetOutputEnable(name)
           \/ IOBoard_SetOutputDisable(name)
  BY <1>4, OthersPossible DEF SetLightTrigger, IOBoard_SetInput, IOBoard_SetOutputTrigger,
     IOBoard_SetOutputEnable, IOBoard_SetOutputDisable, OnPort, Handed
<1>. QED  BY <1>1, <1>2, <1>3, <1>4 DEF OnSerial

LEMMA CardPossible ==
  ASSUME CheckedOutputPossible, NEW name, OnCard(name) PROVE CheckedOutputPossible'
<1>1. CASE PCIe_WriteDeviceIO(name)
  BY <1>1, OthersPossible DEF PCIe_WriteDeviceIO
<1>2. CASE ~PCIe_WriteDeviceIO(name)
  BY <1>2, KeepPossible DEF OnCard, PCIe_OpenDevice, PCIe_CloseDevice
<1>. QED  BY <1>1, <1>2

LEMMA MainBoardPossible ==
  ASSUME CheckedOutputPossible, OnMainBoard PROVE CheckedOutputPossible'
<1>1. CASE SelectPnp
  BY <1>1, OthersPossible DEF SelectPnp, SetPnpEnable, Handed
<1>2. ASSUME NEW type \in GpioTypes, OpenGPIO(type) PROVE CheckedOutputPossible'
  <2>1. \/ UNCHANGED sent \/ sent' = <<"pnp", "NPN">> \/ sent' = <<"driver">>
    BY <1>2 DEF OpenGPIO, SetPnpEnable, Handed
  <2>. QED  BY <2>1, KeepPossible, OthersPossible
<1>3. ASSUME NEW level \in Levels, SetGPO(level) PROVE CheckedOutputPossible'
  BY <1>3, OthersPossible DEF SetGPO, Handed
<1>. QED  BY <1>1, <1>2, <1>3 DEF OnMainBoard

(* Whatever ints a program passes as times, negative ones too, a single pulse or
   a light asked of a board lasts at most MaxTime, and pulses are no wider than
   their period: CheckOutputParam compares the times as unsigned ints, and
   SetLightParam cuts what is too long. Of an output of any other type, which the
   code does not check, nothing is said. *)
THEOREM CheckedOutputAlwaysPossible == BoardSpec => []CheckedOutputPossible
<1>1. BoardInit => CheckedOutputPossible
  BY DEF BoardInit, CheckedOutputPossible
<1>2. CheckedOutputPossible /\ [BoardNext]_boardVars => CheckedOutputPossible'
  BY SerialPossible, CardPossible, MainBoardPossible, KeepPossible DEF BoardNext, boardVars
<1>. QED  BY <1>1, <1>2, PTL DEF BoardSpec

-----------------------------------------------------------------------------
(***************************************************************************)
(* The image queue.                                                        *)
(***************************************************************************)
ImagesAreNumbers == images \in Seq(Nat) /\ pushed \in Nat

(* A push drops one image when the queue is full, and none otherwise. *)
LEMMA ImagePushIsPut ==
  ASSUME ImageAssumption, ImagesAreNumbers, Image_Fifo_Push PROVE Images!Next
<1>. DEFINE x == pushed + 1
<1>1. x \in 1 .. MaxImages /\ MostImages \in Nat \ {0} /\ Len(images) \in Nat
  BY LenProperties DEF ImagesAreNumbers, Image_Fifo_Push, ImageAssumption, MostImages
<1>2. images' = PushDropOldest(images, x, MostImages) /\ UNCHANGED given
  BY DEF Image_Fifo_Push
<1>. HIDE DEF x
<1>3. CASE Len(images) >= MostImages
  <2>1. Tail(images) = SubSeq(images, 2, Len(images)) /\ 1 \in 0 .. Len(images)
    BY <1>1, <1>3 DEF ImagesAreNumbers
  <2>2. images' = Append(SubSeq(images, 1 + 1, Len(images)), x)
    BY <1>2, <1>3, <2>1 DEF PushDropOldest
  <2>. QED  BY <1>1, <1>2, <2>1, <2>2 DEF Images!Next, Images!Put
<1>4. CASE ~(Len(images) >= MostImages)
  <2>1. images = SubSeq(images, 0 + 1, Len(images)) /\ 0 \in 0 .. Len(images)
    BY <1>1 DEF ImagesAreNumbers
  <2>2. images' = Append(SubSeq(images, 0 + 1, Len(images)), x)
    BY <1>2, <1>4, <2>1 DEF PushDropOldest
  <2>. QED  BY <1>1, <1>2, <2>1, <2>2 DEF Images!Next, Images!Put
<1>. QED  BY <1>3, <1>4

LEMMA NextKeepsNumbers ==
  ASSUME ImageAssumption, ImagesAreNumbers, [ImgNext]_imgVars PROVE ImagesAreNumbers'
<1>1. CASE Image_Fifo_Push
  <2>1. pushed + 1 \in Nat /\ pushed' = pushed + 1
    BY <1>1 DEF Image_Fifo_Push, ImagesAreNumbers
  <2>2. images' \in {Append(images, pushed + 1), Append(Tail(images), pushed + 1)}
    BY <1>1 DEF Image_Fifo_Push, PushDropOldest
  <2>3. images # << >> => Tail(images) \in Seq(Nat)
    BY HeadTailProperties DEF ImagesAreNumbers
  <2>4. images = << >> => images' = Append(images, pushed + 1)
    <3>1. images = << >> => Len(images) = 0
      OBVIOUS
    <3>2. ~(0 >= MostImages)
      BY DEF MostImages, ImageAssumption
    <3>3. images' = PushDropOldest(images, pushed + 1, MostImages)
      BY <1>1 DEF Image_Fifo_Push
    <3>. QED  BY <3>1, <3>2, <3>3, Zenon DEF PushDropOldest
  <2>5. Append(images, pushed + 1) \in Seq(Nat)
    BY <2>1, AppendProperties DEF ImagesAreNumbers
  <2>6. CASE images = << >>
    BY <2>1, <2>4, <2>5, <2>6 DEF ImagesAreNumbers
  <2>7. CASE images # << >>
    <3>1. Append(Tail(images), pushed + 1) \in Seq(Nat)
      BY <2>1, <2>3, <2>7, AppendProperties
    <3>. QED  BY <2>1, <2>2, <2>5, <3>1 DEF ImagesAreNumbers
  <2>. QED  BY <2>6, <2>7
<1>2. CASE Image_Fifo_Get
  BY <1>2, HeadTailProperties DEF Image_Fifo_Get, ImagesAreNumbers
<1>3. CASE Image_Fifo_Length \/ Image_Fifo_Init \/ UNCHANGED imgVars
  BY <1>3, EmptySeq DEF Image_Fifo_Length, Image_Fifo_Init, imgVars, ImagesAreNumbers
<1>. QED  BY <1>1, <1>2, <1>3 DEF ImgNext

(* CMainProcess gives images out in the order they came, none twice, and loses
   only the oldest of a full queue, or all of them in Image_Fifo_Init. *)
THEOREM ImageQueueLosesOldest == ImgSpec => ImageQueueIsLossyFifo
<1>1. ImgInit => ImagesAreNumbers
  BY EmptySeq DEF ImgInit, ImagesAreNumbers
<1>2. ImagesAreNumbers /\ [ImgNext]_imgVars => ImagesAreNumbers'
  BY ImageAssumption, NextKeepsNumbers
<1>3. ImagesAreNumbers /\ [ImgNext]_imgVars
        => [Images!Next \/ Image_Fifo_Init]_<<images, given>>
  <2>. SUFFICES ASSUME ImagesAreNumbers, [ImgNext]_imgVars
                PROVE  Images!Next \/ Image_Fifo_Init \/ UNCHANGED <<images, given>>
    OBVIOUS
  <2>1. CASE Image_Fifo_Push
    BY <2>1, ImageAssumption, ImagePushIsPut
  <2>2. CASE Image_Fifo_Get
    BY <2>2 DEF Image_Fifo_Get, Images!Next, Images!Take
  <2>3. CASE Image_Fifo_Length \/ UNCHANGED imgVars
    BY <2>3 DEF Image_Fifo_Length, imgVars
  <2>. QED  BY <2>1, <2>2, <2>3 DEF ImgNext
<1>. QED  BY <1>1, <1>2, <1>3, PTL DEF ImgSpec, ImageQueueIsLossyFifo

-----------------------------------------------------------------------------
(***************************************************************************)
(* The database.                                                           *)
(***************************************************************************)
(* An edit of a record that exists has that record at hand. *)
DbInv == DbTypeOK /\ (edit = "old" => cur # 0)

LEMMA InitDbInv == DbInit => DbInv
<1>. SUFFICES ASSUME DbInit PROVE DbInv
  OBVIOUS
<1>1. 0 \in FieldValues /\ 0 \in Fields /\ SqlNull \in Fields /\ 1 \in 1 .. MaxRows
  BY DatabaseAssumption DEF Fields
<1>2. table \in Seq(Fields) /\ Len(table) = 1
  BY <1>1, IsASeq DEF DbInit
<1>3. Len(table) \in 1 .. MaxRows /\ cur \in 0 .. Len(table)
  BY <1>1, <1>2 DEF DbInit
<1>4. seen \in Fields /\ value \in Fields /\ cell \in FieldValues
  BY <1>1, Zenon DEF DbInit
<1>5. /\ base \in BOOLEAN /\ link \in BOOLEAN /\ orphans \in BOOLEAN /\ dbDown \in BOOLEAN
      /\ db \in {"none", "closed", "open"} /\ rs \in {"none", "closed", "open"}
      /\ edit \in {"none", "old", "new"} /\ (edit = "old" => cur # 0)
  BY DEF DbInit
<1>. QED  BY <1>2, <1>3, <1>4, <1>5 DEF DbInv, DbTypeOK

(* What is stored is a value of the field and in the record at hand. *)
LEMMA StoreKeeps ==
  ASSUME DbInv, rs = "open", edit # "none", Taken, Store
  PROVE  /\ table' \in Seq(Fields) /\ Len(table') \in 1 .. MaxRows /\ cur' \in 1 .. Len(table')
         /\ \E i \in DOMAIN table' : table'[i] = value
<1>1. /\ table \in Seq(Fields) /\ Len(table) \in 1 .. MaxRows /\ value \in Fields
      /\ cur \in 0 .. Len(table) /\ DOMAIN table = 1 .. Len(table) /\ MaxRows \in Nat
  BY LenProperties, DatabaseAssumption DEF DbInv, DbTypeOK
<1>2. CASE edit = "new"
  <2>1. table' = Append(table, value) /\ cur' = Len(table) + 1 /\ Len(table) < MaxRows
    BY <1>2 DEF Store, Taken
  <2>2. /\ table' \in Seq(Fields) /\ Len(table') = Len(table) + 1
        /\ table'[Len(table) + 1] = value
    BY <1>1, <2>1, AppendProperties
  <2>3. Len(table) + 1 \in DOMAIN table'
    BY <1>1, <2>2, LenProperties
  <2>. QED  BY <1>1, <2>1, <2>2, <2>3
<1>3. CASE edit # "new"
  <2>1. table' = [table EXCEPT ![cur] = value] /\ cur' = cur /\ cur \in DOMAIN table
    BY <1>1, <1>3 DEF Store, DbInv, DbTypeOK
  <2>2. table' \in Seq(Fields) /\ Len(table') = Len(table) /\ table'[cur] = value
    BY <1>1, <2>1, ExceptSeq
  <2>3. cur \in DOMAIN table'
    BY <1>1, <2>1, <2>2, LenProperties
  <2>. QED  BY <1>1, <2>1, <2>2, <2>3
<1>. QED  BY <1>2, <1>3

LEMMA NextKeepsDbInv == DbInv /\ [DbNext]_dbVars => DbInv'
<1>. SUFFICES ASSUME DbInv, [DbNext]_dbVars PROVE DbInv'
  OBVIOUS
<1>. USE DatabaseAssumption
<1>1. CASE Server
  <2>1. table' \in Seq(Fields) /\ Len(table') = Len(table)
    BY <1>1, ExceptSeq, LenProperties DEF Server, DbInv, DbTypeOK
  <2>. QED  BY <1>1, <2>1 DEF Server, DbInv, DbTypeOK
<1>2. CASE Mz_ConnectDB \/ Mz_CloseDB \/ Mz_CloseRecord
  <2>1. NothingAtHand /\ UNCHANGED <<table, link, cell, dbDown>>
    BY <1>2, Zenon DEF Mz_ConnectDB, ConnectDB, Mz_CloseDB, CloseDB, Mz_CloseRecord, NoRecordset
  <2>2. base' \in BOOLEAN /\ orphans' \in BOOLEAN
    BY <1>2, Zenon DEF Mz_ConnectDB, Mz_CloseDB, Mz_CloseRecord, DbInv, DbTypeOK
  <2>3. db' \in {"none", "closed", "open"} /\ rs' \in {"none", "closed", "open"}
    BY <1>2 DEF Mz_ConnectDB, ConnectDB, ConnectionOpens, Mz_CloseDB, CloseDB, Mz_CloseRecord,
       NoRecordset, DbInv, DbTypeOK
  <2>4. edit' = "none" /\ cur' \in 0 .. Len(table') /\ seen' \in Fields /\ value' \in Fields
    BY <2>1 DEF NothingAtHand, DbInv, DbTypeOK, Fields
  <2>. QED  BY <2>1, <2>2, <2>3, <2>4 DEF DbInv, DbTypeOK
<1>3. CASE Mz_OpenRecord
  <2>1. table[1] \in Fields
    BY ElementOfSeq DEF DbInv, DbTypeOK
  <2>. QED  BY <1>3, <2>1 DEF Mz_OpenRecord, RecordsetOpens, NoRecordset, NothingAtHand,
            DbInv, DbTypeOK, Fields
<1>4. CASE Mz_GetRecordeValue
  <2>1. cell' \in FieldValues
    BY <1>4 DEF Mz_GetRecordeValue, GetRecordValue, GetDouble, GetOther, GetTime, FieldValue,
       DbInv, DbTypeOK, Fields
  <2>. QED  BY <1>4, <2>1 DEF Mz_GetRecordeValue, DbInv, DbTypeOK
<1>5. CASE Mz_SetRecordeValue
  BY <1>5 DEF Mz_SetRecordeValue, SetRecordValue, SetText, SetNumber, AtHand,
     DbInv, DbTypeOK, Fields
<1>6. CASE Mz_UpdataRecorde
  <2>1. /\ table' \in Seq(Fields) /\ Len(table') \in 1 .. MaxRows
        /\ cur' \in 1 .. Len(table')
    BY <1>6, StoreKeeps DEF Mz_UpdataRecorde
  <2>. QED  BY <1>6, <2>1 DEF Mz_UpdataRecorde, DbInv, DbTypeOK, Fields
<1>7. CASE Mz_AddNewRecorde
  <2>1. /\ table' \in Seq(Fields) /\ Len(table') \in 1 .. MaxRows
        /\ cur' \in 0 .. Len(table')
    <3>1. CASE edit = "none"
      BY <1>7, <3>1 DEF Mz_AddNewRecorde, DbInv, DbTypeOK
    <3>2. CASE edit # "none"
      BY <1>7, <3>2, StoreKeeps DEF Mz_AddNewRecorde
    <3>. QED  BY <3>1, <3>2
  <2>. QED  BY <1>7, <2>1 DEF Mz_AddNewRecorde, DbInv, DbTypeOK, Fields
<1>8. CASE UNCHANGED dbVars
  BY <1>8 DEF dbVars, DbInv, DbTypeOK
<1>. QED  BY <1>1, <1>2, <1>3, <1>4, <1>5, <1>6, <1>7, <1>8 DEF DbNext

(* No Update that failed (of UpdataRecorde or of AddNewRecorde), and no closing or
   reopening of the record set, loses a value that SetRecordeValue took: it stays
   pending until it is in the table, or the connection is closed or made anew. *)
THEOREM EditIsKept == DbSpec => EditKeptUntilStored
<1>1. DbInv /\ [DbNext]_dbVars
        => [edit # "none" /\ edit' # edit
              => \/ \E i \in DOMAIN table' : table'[i] = value
                 \/ Mz_ConnectDB \/ Mz_CloseDB]_dbVars
  <2>. SUFFICES ASSUME DbInv, DbNext, edit # "none", edit' # edit, ~Mz_ConnectDB, ~Mz_CloseDB
                PROVE  \E i \in DOMAIN table' : table'[i] = value
    OBVIOUS
  <2>1. ~Server /\ ~Mz_GetRecordeValue
    BY DEF Server, Mz_GetRecordeValue
  <2>2. ~Mz_OpenRecord /\ ~Mz_CloseRecord
    BY DEF Mz_OpenRecord, RecordsetOpens, Mz_CloseRecord, MayClose
  <2>3. ~Mz_SetRecordeValue
    BY DEF Mz_SetRecordeValue, SetRecordValue
  <2>4. Mz_UpdataRecorde \/ Mz_AddNewRecorde
    BY <2>1, <2>2, <2>3 DEF DbNext
  <2>5. rs = "open" /\ Taken /\ Store
    BY <2>4 DEF Mz_UpdataRecorde, Mz_AddNewRecorde
  <2>. QED  BY <2>5, StoreKeeps
<1>. QED  BY InitDbInv, NextKeepsDbInv, <1>1, PTL DEF DbSpec, EditKeptUntilStored

-----------------------------------------------------------------------------
(***************************************************************************)
(* Function lists and arguments.                                           *)
(***************************************************************************)
(* What a count in an unsigned char is of the number it counts.            *)
LEMMA Counted ==
  ASSUME NEW n \in Nat
  PROVE  n % CountMod \in 0 .. n /\ (n < CountMod => n % CountMod = n)
<1>1. CountMod \in Nat \ {0}
  BY CountAssumption
<1>. DEFINE m == CountMod
<1>2. m \in Nat \ {0}
  BY <1>1
<1>. HIDE DEF m
<1>3. n % m \in 0 .. n /\ (n < m => n % m = n)
  BY <1>2
<1>. QED  BY <1>3 DEF m

(* The values of a packet are those put in, cut where their count says. *)
LEMMA PacketValues ==
  ASSUME NEW S, NEW values \in Seq(S), NEW pictures \in Seq(S)
  PROVE  LET p == Len(values) % CountMod
             r == AnasysPacket(PacketData(values, pictures)).values
         IN p \in 0 .. Len(values) /\ r \in Seq(S) /\ Len(r) = p /\ \A i \in 1 .. p : r[i] = values[i]
<1>. DEFINE p == Len(values) % CountMod
            d == values \o pictures
<1>1. Len(values) \in Nat /\ p \in 0 .. Len(values)
  BY Counted, LenProperties
<1>2. /\ d \in Seq(S) /\ Len(d) = Len(values) + Len(pictures) /\ Len(pictures) \in Nat
      /\ \A i \in 1 .. Len(values) : d[i] = values[i]
  BY JoinProperties
<1>3. AnasysPacket(PacketData(values, pictures)).values = SubSeq(d, 1, p)
  BY DEF AnasysPacket, PacketData, PackHead
<1>. HIDE DEF p, d
<1>4. p \in 0 .. Len(d)
  BY <1>1, <1>2
<1>5. /\ SubSeq(d, 1, p) \in Seq(S) /\ Len(SubSeq(d, 1, p)) = p
      /\ \A i \in 1 .. p : SubSeq(d, 1, p)[i] = d[i]
  BY <1>2, <1>4, CutProperties
<1>6. \A i \in 1 .. p : i \in 1 .. Len(values)
  BY <1>1
<1>. QED  BY <1>1, <1>2, <1>3, <1>5, <1>6 DEF p

(* Values and images that can be counted arrive as they are. *)
LEMMA PacketArguments ==
  ASSUME NEW S, NEW values \in Seq(S), NEW pictures \in Seq(S),
         \A i \in 1 .. Len(pictures) : pictures[i].type = "image",
         Len(values) < CountMod, Len(pictures) < CountMod
  PROVE  AnasysPacket(PacketData(values, pictures)) = [values |-> values, images |-> pictures]
<1>. DEFINE p == Len(values) % CountMod
            q == Len(pictures) % CountMod
            d == values \o pictures
            a == AnasysPacket(PacketData(values, pictures))
<1>1. /\ Len(values) \in Nat /\ p = Len(values) /\ Len(pictures) \in Nat /\ q = Len(pictures)
  BY Counted, LenProperties
<1>2. \A i \in 1 .. Len(pictures) : d[Len(values) + i] = pictures[i]
  BY JoinProperties
<1>3. a.values \in Seq(S) /\ Len(a.values) = p /\ \A i \in 1 .. p : a.values[i] = values[i]
  BY PacketValues
<1>4. a.images = [k \in 1 .. q |-> IF d[p + k].type = "image" THEN d[p + k] ELSE HImage(Garbage)]
  BY DEF AnasysPacket, PacketData, PackHead
<1>5. a = [values |-> a.values, images |-> a.images]
  BY DEF AnasysPacket
<1>. HIDE DEF p, q, d, a
<1>6. a.values = values
  BY <1>1, <1>3, SeqEqual
<1>7. \A k \in 1 .. q : d[p + k] = pictures[k] /\ d[p + k].type = "image"
  BY <1>1, <1>2
<1>8. a.images = [k \in 1 .. q |-> pictures[k]]
  BY <1>4, <1>7
<1>9. pictures = [k \in 1 .. Len(pictures) |-> pictures[k]]
  BY LenProperties
<1>. QED  BY <1>1, <1>5, <1>6, <1>8, <1>9 DEF a

(* A list of functions, told in five values each, cut and parsed. *)
LEMMA ListAsLearned ==
  ASSUME NEW F \in Seq(FunctionSet)
  PROVE  LET r == ParseFuncList(AnasysPacket(PacketData(Described(F), << >>)).values)
         IN /\ 5 * Len(F) < CountMod => r = F
            /\ Len(r) <= Len(F)
            /\ \A i \in DOMAIN r : /\ r[i].name = F[i].name
                                   /\ i = Len(r) \/ r[i] = F[i]
<1>. DEFINE l == Len(F)
            n == 5 * l
            d == Described(F)
            v == AnasysPacket(PacketData(d, << >>)).values
            p == n % CountMod
            m == (p + 4) \div 5
            r == ParseFuncList(v)
            S == {d[k] : k \in 1 .. n}
<1>1. l \in Nat /\ n \in Nat /\ DOMAIN F = 1 .. l /\ \A i \in 1 .. l : F[i] \in FunctionSet
  BY LenProperties, ElementOfSeq
<1>2. d \in Seq(S) /\ Len(d) = n
  <2>1. d = [k \in 1 .. n |-> d[k]]
    BY DEF Described
  <2>. HIDE DEF d, n
  <2>2. \A k \in 1 .. n : d[k] \in S
    OBVIOUS
  <2>. HIDE DEF S
  <2>3. [k \in 1 .. n |-> d[k]] \in Seq(S)
    BY <1>1, <2>2, IsASeq
  <2>4. d \in Seq(S)
    BY <2>1, <2>3
  <2>5. DOMAIN d = 1 .. n
    BY <2>1
  <2>. QED  BY <1>1, <2>4, <2>5, LenProperties
<1>3. /\ p \in 0 .. n /\ v \in Seq(S) /\ Len(v) = p /\ \A i \in 1 .. p : v[i] = d[i]
  <2>. HIDE DEF d, n, S
  <2>. << >> \in Seq(S)
    BY EmptySeq
  <2>. QED  BY <1>2, PacketValues
<1>4. n < CountMod => p = n
  BY <1>1, Counted
<1>5. ASSUME NEW i \in 1 .. l, NEW j \in 0 .. 4
      PROVE  /\ 5 * i - 4 + j \in 1 .. n
             /\ d[5 * i - 4 + j] = IF j = 0 THEN HValue("string", F[i].name)
                                  ELSE HValue("int", F[i].nums[j])
  <2>1. /\ 5 * i - 4 + j \in 1 .. n /\ ((5 * i - 4 + j) + 4) \div 5 = i
        /\ ((5 * i - 4 + j) - 1) % 5 = j
    BY <1>1
  <2>. DEFINE k == 5 * i - 4 + j
  <2>2. k \in 1 .. 5 * Len(F) /\ (k + 4) \div 5 = i /\ (k - 1) % 5 = j
    BY <2>1
  <2>. HIDE DEF k
  <2>3. d[k] = IF j = 0 THEN HValue("string", F[i].name) ELSE HValue("int", F[i].nums[j])
    BY <2>2 DEF Described
  <2>. QED  BY <2>1, <2>3 DEF k
<1>6. /\ r = [i \in 1 .. m |-> [name |-> AsText(v, 5 * i - 4),
                              nums |-> [k \in 1 .. 4 |-> AsInt(v, 5 * i - 4 + k)]]]
  BY <1>3 DEF ParseFuncList
<1>7. m \in 0 .. l /\ (p = n => m = l) /\ \A i \in 1 .. m : i \in 1 .. l /\ 5 * i - 4 \in 1 .. p
  BY <1>1, <1>3
<1>8. DOMAIN v = 1 .. p
  BY <1>3, LenProperties
<1>9. ASSUME NEW i \in 1 .. m PROVE r[i].name = F[i].name
  <2>1. i \in 1 .. l /\ 5 * i - 4 + 0 = 5 * i - 4 /\ 5 * i - 4 \in 1 .. p
    BY <1>1, <1>7
  <2>2. d[5 * i - 4] = HValue("string", F[i].name)
    BY <1>5, <2>1
  <2>. HIDE DEF d, v, p, r, m
  <2>3. r[i].name = v[5 * i - 4].v
    BY <1>6, <1>8, <2>1 DEF AsText
  <2>. QED  BY <1>3, <2>1, <2>2, <2>3 DEF HValue
<1>10. ASSUME NEW i \in 1 .. m, i < m \/ p = n PROVE r[i] = F[i]
  <2>1. i \in 1 .. l /\ \A k \in 1 .. 4 : 5 * i - 4 + k \in 1 .. p
    <3>1. i \in 1 .. l /\ (i < m \/ p = n) /\ l \in Nat /\ n = 5 * l /\ p \in 0 .. n
      BY <1>1, <1>3, <1>7, <1>10
    <3>2. m = (p + 4) \div 5 /\ i \in 1 .. m
      OBVIOUS
    <3>. HIDE DEF m, p, n
    <3>. QED  BY <3>1, <3>2
  <2>2. \A k \in 1 .. 4 : k \in 0 .. 4 /\ k # 0
    OBVIOUS
  <2>3. \A k \in 1 .. 4 : d[5 * i - 4 + k] = HValue("int", F[i].nums[k])
    BY <1>5, <2>1, <2>2
  <2>. HIDE DEF d, v, p, r, m
  <2>4. \A k \in 1 .. 4 : AsInt(v, 5 * i - 4 + k) = F[i].nums[k]
    <3>. SUFFICES ASSUME NEW k \in 1 .. 4 PROVE AsInt(v, 5 * i - 4 + k) = F[i].nums[k]
      OBVIOUS
    <3>1. v[5 * i - 4 + k] = HValue("int", F[i].nums[k]) /\ 5 * i - 4 + k \in DOMAIN v
      BY <1>3, <1>8, <2>1, <2>3
    <3>. QED  BY <3>1 DEF AsInt, HValue
  <2>5. r[i] = [name |-> r[i].name, nums |-> [k \in 1 .. 4 |-> AsInt(v, 5 * i - 4 + k)]]
    BY <1>6
  <2>6. r[i] = [name |-> F[i].name, nums |-> [k \in 1 .. 4 |-> F[i].nums[k]]]
    BY <1>9, <2>4, <2>5
  <2>. QED  BY <1>1, <2>1, <2>6, FunctionAssumption
<1>11. /\ DOMAIN r = 1 .. m /\ Len(r) = m
  BY <1>6, <1>7
<1>. HIDE DEF d, v, p, r, m
<1>12. n < CountMod => r = F
  <2>. SUFFICES ASSUME n < CountMod PROVE r = F
    OBVIOUS
  <2>1. p = n /\ m = l /\ \A i \in 1 .. l : r[i] = F[i]
    BY <1>4, <1>7, <1>10
  <2>2. r = [i \in 1 .. l |-> r[i]] /\ F = [i \in 1 .. l |-> F[i]]
    BY <1>1, <1>6, <2>1
  <2>. QED  BY <2>1, <2>2
<1>13. \A i \in DOMAIN r : r[i].name = F[i].name /\ (i = Len(r) \/ r[i] = F[i])
  BY <1>1, <1>7, <1>9, <1>10, <1>11
<1>. QED  BY <1>7, <1>11, <1>12, <1>13 DEF r, v, d

(* A list on its way is the one of the table it is remembered with. *)
ListOnItsWay ==
  /\ vecfuncs \in Seq(FunctionSet)
  /\ answer # NoAnswer
       => /\ answer[2] \in Seq(FunctionSet)
          /\ answer[1] = PacketData(Described(answer[2]), << >>)

FunInv == ListOnItsWay /\ ListLearned /\ ArgumentsIntact

LEMMA InitFunInv == FunInit => FunInv
<1>. SUFFICES ASSUME FunInit PROVE FunInv
  OBVIOUS
<1>1. ListOnItsWay
  BY EmptySeq DEF FunInit, ListOnItsWay
<1>2. ListLearned
  BY DEF FunInit, ListLearned
<1>3. ArgumentsIntact
  BY DEF FunInit, ArgumentsIntact
<1>. QED  BY <1>1, <1>2, <1>3 DEF FunInv

LEMMA LearnKeeps == ASSUME FunInv, UpdataRemoteFuncList PROVE FunInv'
<1>1. /\ answer[2] \in Seq(FunctionSet) /\ announced' = answer[2] /\ answer' = NoAnswer
      /\ remotefuncs' =
           ParseFuncList(AnasysPacket(PacketData(Described(answer[2]), << >>)).values)
      /\ UNCHANGED <<vecfuncs, sentCall, gotCall>>
  BY DEF FunInv, ListOnItsWay, UpdataRemoteFuncList
<1>2. \A F \in Seq(FunctionSet) :
        LET r == ParseFuncList(AnasysPacket(PacketData(Described(F), << >>)).values)
        IN /\ 5 * Len(F) < CountMod => r = F
           /\ Len(r) <= Len(F)
           /\ \A i \in DOMAIN r : /\ r[i].name = F[i].name
                                  /\ i = Len(r) \/ r[i] = F[i]
  BY ListAsLearned
<1>3. ListLearned'
  BY <1>1, <1>2, Zenon DEF ListLearned
<1>4. ListOnItsWay' /\ ArgumentsIntact'
  BY <1>1 DEF FunInv, ListOnItsWay, ArgumentsIntact
<1>. QED  BY <1>3, <1>4 DEF FunInv

LEMMA DoActionKeeps ==
  ASSUME FunInv, NEW name \in FunNames, DoAction(name) PROVE FunInv'
<1>1. PICK n \in ValueCounts, k \in ImageCounts :
        sentCall' = [values |-> HValues(n), images |-> HImages(k)]
  BY DEF DoAction
<1>2. gotCall' = AnasysPacket(PacketData(sentCall'.values, sentCall'.images))
  BY DEF DoAction
<1>. DEFINE S == {HValue("int", i) : i \in Nat} \cup {HImage(i) : i \in Nat}
<1>3. n \in Nat /\ k \in Nat
  BY CountAssumption
<1>4. /\ HValues(n) \in Seq(S) /\ HImages(k) \in Seq(S)
      /\ \A i \in 1 .. Len(HImages(k)) : HImages(k)[i].type = "image"
  <2>1. \A i \in 1 .. n : HValue("int", i) \in S
    OBVIOUS
  <2>2. \A i \in 1 .. k : HImage(i) \in S
    OBVIOUS
  <2>. HIDE DEF S
  <2>3. HValues(n) \in Seq(S)
    BY <1>3, <2>1, IsASeq DEF HValues
  <2>4. HImages(k) \in Seq(S)
    BY <1>3, <2>2, IsASeq DEF HImages
  <2>5. \A i \in 1 .. Len(HImages(k)) : HImages(k)[i].type = "image"
    BY <1>3 DEF HImages, HImage
  <2>. QED  BY <2>3, <2>4, <2>5
<1>. HIDE DEF S
<1>5. Len(HValues(n)) < CountMod /\ Len(HImages(k)) < CountMod
        => AnasysPacket(PacketData(HValues(n), HImages(k))) =
             [values |-> HValues(n), images |-> HImages(k)]
  BY <1>4, PacketArguments
<1>6. ArgumentsIntact'
  BY <1>1, <1>2, <1>5 DEF ArgumentsIntact
<1>7. ListOnItsWay' /\ ListLearned'
  BY DEF DoAction, FunInv, ListOnItsWay, ListLearned
<1>. QED  BY <1>6, <1>7 DEF FunInv

LEMMA NextKeepsFunInv == FunInv /\ [FunNext]_funVars => FunInv'
<1>. SUFFICES ASSUME FunInv, [FunNext]_funVars PROVE FunInv'
  OBVIOUS
<1>1. CASE RegisterActionFun_Local
  <2>1. vecfuncs' \in Seq(FunctionSet)
    BY <1>1, AppendProperties DEF RegisterActionFun_Local, FunInv, ListOnItsWay
  <2>. QED  BY <1>1, <2>1
            DEF RegisterActionFun_Local, FunInv, ListOnItsWay, ListLearned, ArgumentsIntact
<1>2. CASE AskActionFunList
  <2>1. /\ vecfuncs \in Seq(FunctionSet) /\ vecfuncs' = vecfuncs
        /\ answer' = <<PacketData(Described(vecfuncs), << >>), vecfuncs>>
        /\ UNCHANGED <<announced, remotefuncs, sentCall, gotCall>>
    BY <1>2 DEF AskActionFunList, FunInv, ListOnItsWay
  <2>2. ListOnItsWay'
    BY <2>1 DEF ListOnItsWay
  <2>. QED  BY <2>1, <2>2 DEF FunInv, ListLearned, ArgumentsIntact
<1>3. CASE UpdataRemoteFuncList
  BY <1>3, LearnKeeps
<1>4. CASE \E name \in FunNames : DoAction(name)
  BY <1>4, DoActionKeeps
<1>5. CASE UNCHANGED funVars
  BY <1>5 DEF funVars, FunInv, ListOnItsWay, ListLearned, ArgumentsIntact
<1>. QED  BY <1>1, <1>2, <1>3, <1>4, <1>5 DEF FunNext

(* A table of functions, which AskActionFunList_static tells in five values each
   and ParamThreadRecvProc parses, is learned as it is while the unsigned char
   m_paramnums counts its values, and otherwise only cut: whichever functions are
   registered meanwhile. *)
THEOREM ListsAreLearned == FunSpec => []ListLearned
<1>1. FunInv => ListLearned
  BY DEF FunInv
<1>. QED  BY InitFunInv, NextKeepsFunInv, <1>1, PTL DEF FunSpec

(* AnasysPacket gives a function the values and the images SC_PackData packed for
   it, whatever their number, up to what the counts of the head can hold. *)
THEOREM ArgumentsArrive == FunSpec => []ArgumentsIntact
<1>1. FunInv => ArgumentsIntact
  BY DEF FunInv
<1>. QED  BY InitFunInv, NextKeepsFunInv, <1>1, PTL DEF FunSpec

-----------------------------------------------------------------------------
(***************************************************************************)
(* The types of every component, and what they need beside the invariants  *)
(* above.                                                                  *)
(***************************************************************************)
(* Cameras: parameters and frames *)
CamOthersOK ==
  /\ up \in BOOLEAN /\ listed \in Makes \cup {NoEngine} /\ make \in Makes \cup {NoEngine}
  /\ notice \in {"idle", "reopen", "restart", "openNull"}
  /\ setting \in [kind : Kinds, value : Values, selector : Selectors] /\ file \in Values
  /\ got \in Values \/ (setting.kind = "text" /\ got = Unread)
  /\ mat \in {<< >>, RawFrame, BgrFrame, Freed}

(* A frame of whole pixels, with the first and third byte of each exchanged. *)
LEMMA BlueFirst == RGB2BGR(RawFrame) = BgrFrame
<1>. DEFINE n == Len(RawFrame)
            from(k) == CASE k % 3 = 1 -> k + 2 [] k % 3 = 0 -> k - 2 [] OTHER -> k
<1>1. /\ n \in Nat /\ n % 3 = 0 /\ DOMAIN RawFrame = 1 .. n
      /\ BgrFrame = [k \in 1 .. n |-> BgrFrame[k]]
  BY FrameAssumption, LenProperties
<1>2. RGB2BGR(RawFrame) = [k \in 1 .. n |-> RawFrame[from(k)]]
  BY <1>1 DEF RGB2BGR
<1>3. ASSUME NEW k \in 1 .. n PROVE BgrFrame[k] = RawFrame[from(k)]
  <2>. DEFINE p == (k + 2) \div 3
  <2>1. /\ p \in 1 .. n \div 3 /\ k \in Nat
        /\ \/ k = 3 * p - 2 /\ k % 3 = 1
           \/ k = 3 * p - 1 /\ k % 3 = 2
           \/ k = 3 * p /\ k % 3 = 0
    BY <1>1
  <2>2. /\ BgrFrame[3 * p - 2] = RawFrame[3 * p]
        /\ BgrFrame[3 * p - 1] = RawFrame[3 * p - 1]
        /\ BgrFrame[3 * p] = RawFrame[3 * p - 2]
    BY <2>1, FrameAssumption
  <2>. HIDE DEF p, n
  <2>3. CASE k = 3 * p - 2 /\ k % 3 = 1
    BY <2>1, <2>2, <2>3
  <2>4. CASE k = 3 * p - 1 /\ k % 3 = 2
    BY <2>1, <2>2, <2>4
  <2>5. CASE k = 3 * p /\ k % 3 = 0
    BY <2>1, <2>2, <2>5
  <2>. QED  BY <2>1, <2>3, <2>4, <2>5
<1>. HIDE DEF n, from
<1>. QED  BY <1>1, <1>2, <1>3

LEMMA NextKeepsCamOthers == CamOthersOK /\ [CamNext]_camVars => CamOthersOK'
<1>. SUFFICES ASSUME CamOthersOK, [CamNext]_camVars PROVE CamOthersOK'
  OBVIOUS
<1>1. CASE \/ EndLink \/ Enumerate \/ Delete
           \/ OpenDevice \/ CloseDevice \/ StartFrame \/ StopFrame \/ RegisterImageCallBack
           \/ UNCHANGED camVars
  BY <1>1 DEF EndLink, Enumerate, Delete, DeleteEngine, OpenDevice, CloseDevice, StartFrame,
     StopFrame, RegisterImageCallBack, camVars, CamOthersOK
<1>2. CASE Create
  BY <1>2 DEF Create, NewEngine, NewSetting, Values, Selectors, CamOthersOK
<1>3. CASE SetParam \/ SetTrigger \/ LoadFeature
  <2>1. UNCHANGED <<up, listed, make, notice, file, got, mat>>
    BY <1>3 DEF SetParam, SetTrigger, LoadFeature
  <2>2. /\ setting' \in [kind : Kinds, value : Values, selector : Selectors]
        /\ setting'.kind = setting.kind
    BY <1>3 DEF SetParam, SetTrigger, LoadFeature, HikParam, DahuaParam, DahuaTriggerMode,
       DahuaTriggerSource, Values, Selectors, CamOthersOK
  <2>. QED  BY <2>1, <2>2 DEF CamOthersOK
<1>4. CASE GetParam \/ SaveFeature
  BY <1>4 DEF GetParam, SaveFeature, ReadValue, CamOthersOK
<1>5. CASE DeliverFrame \/ GetFrame
  <2>1. \A f \in Formats : Convert2Mat(f, RawFrame) \in {<< >>, RawFrame, BgrFrame}
    BY BlueFirst DEF Convert2Mat
  <2>2. UNCHANGED <<up, listed, make, notice, setting, file, got>>
    BY <1>5 DEF DeliverFrame, GetFrame
  <2>3. mat' \in {<< >>, RawFrame, BgrFrame, Freed}
    BY <1>5, <2>1 DEF DeliverFrame, GetFrame
  <2>. QED  BY <2>2, <2>3 DEF CamOthersOK
<1>6. CASE Reconnect \/ onDeviceLinkNotify
  <2>1. UNCHANGED <<up, listed, make, setting, file, got, mat>>
    BY <1>6 DEF Reconnect, LostHik, Reopen, Restart, onDeviceLinkNotify
  <2>2. notice' \in {"idle", "reopen", "restart", "openNull"}
    BY <1>6 DEF Reconnect, LostHik, Reopen, Restart, onDeviceLinkNotify, deviceOffLine,
       deviceOnLine, CamOthersOK
  <2>. QED  BY <2>1, <2>2 DEF CamOthersOK
<1>. QED  BY <1>1, <1>2, <1>3, <1>4, <1>5, <1>6 DEF CamNext

LEMMA InitCamOthers == CamInit => CamOthersOK
<1>. SUFFICES ASSUME CamInit PROVE CamOthersOK
  OBVIOUS
<1>1. up \in BOOLEAN
  BY Zenon DEF CamInit
<1>. QED  BY <1>1 DEF CamInit, NewSetting, Values, Kinds, Selectors, CamOthersOK

LEMMA CamTypes == CamInv /\ CamOthersOK => CamTypeOK
BY DEF CamInv, ShapeOK, CamOthersOK, CamTypeOK

-----------------------------------------------------------------------------
(* Boards: cards, the main board and the kinds of settings *)
Card == [name : CardNames, id : CardIds]
SettingKinds == {"light", "single", "pwm", "other", "lightTrigger", "input", "outputTrigger",
                 "enable", "disable", "card", "pnp", "driver", "gpio"}
BoardOthersOK ==
  /\ cards \in Seq(Card) /\ Len(cards) <= MaxCards
  /\ cardId \in {-1} \cup 0 .. Len(cards) - 1
  /\ pci \subseteq CardIds
  /\ gpioType \in GpioTypes \cup {"unset"}
  /\ sent = << >> \/ sent[1] \in SettingKinds
  /\ boardDown \in BOOLEAN

(* What the search for a card returns: -1, or its place counted from 0. *)
LEMMA SearchForCard ==
  ASSUME BoardOthersOK, NEW name
  PROVE  GetDeviceIDbyName(name) \in {-1} \cup 0 .. Len(cards) - 1
<1>. DEFINE I == {k \in 1 .. Len(cards) : cards[k].name = name}
            m == CHOOSE x \in I : \A y \in I : x <= y
            i == IF I # {} THEN m ELSE 0
<1>1. GetDeviceIDbyName(name) = i - 1
  BY DEF GetDeviceIDbyName, SelectInSeq, Min
<1>2. Len(cards) \in Nat
  BY LenProperties DEF BoardOthersOK
<1>3. I \in SUBSET Nat
  BY <1>2
<1>4. I # {} => m \in I
  <2>1. I # {} => \E x \in I : \A y \in I : x <= y
    BY <1>3, LeastNatural
  <2>. QED  BY <2>1
<1>5. i \in 0 .. Len(cards)
  <2>. HIDE DEF m
  <2>. QED  BY <1>2, <1>4
<1>. HIDE DEF i
<1>. QED  BY <1>1, <1>2, <1>5

LEMMA NextKeepsBoardOthers == BoardOthersOK /\ [BoardNext]_boardVars => BoardOthersOK'
<1>. SUFFICES ASSUME BoardOthersOK, [BoardNext]_boardVars PROVE BoardOthersOK'
  OBVIOUS
<1>1. ASSUME NEW name \in PortNames, OnSerial(name) PROVE BoardOthersOK'
  <2>1. UNCHANGED <<cards, cardId, pci, gpioType>> /\ boardDown' \in BOOLEAN
    BY <1>1 DEF OnSerial, OpenSerial, CloseSerial, SaveOrReboot, IOBoard_SetOutput,
       SetLightParam, SetLightTrigger, IOBoard_SetInput, IOBoard_SetOutputTrigger,
       IOBoard_SetOutputEnable, IOBoard_SetOutputDisable, OnPort, BoardOthersOK
  <2>2. sent' = << >> \/ sent'[1] \in SettingKinds
    <3>1. CASE OpenSerial(name) \/ CloseSerial(name) \/ SaveOrReboot(name)
      BY <3>1 DEF OpenSerial, CloseSerial, SaveOrReboot, BoardOthersOK
    <3>2. CASE IOBoard_SetOutput(name)
      <4>1. PICK o \in Outputs : sent' = o
        BY <3>2 DEF IOBoard_SetOutput, OnPort, Handed
      <4>. QED  BY <4>1 DEF Outputs, OutputTypes, SettingKinds
    <3>3. CASE SetLightParam(name)
      <4>1. PICK t : sent' = <<"light", t>>
        BY <3>3 DEF SetLightParam, OnPort, Handed
      <4>. QED  BY <4>1 DEF SettingKinds
    <3>4. CASE \/ SetLightTrigger(name) \/ IOBoard_SetInput(name)
               \/ IOBoard_SetOutputTrigger(name) \/ IOBoard_SetOutputEnable(name)
               \/ IOBoard_SetOutputDisable(name)
      BY <3>4 DEF SetLightTrigger, IOBoard_SetInput, IOBoard_SetOutputTrigger,
         IOBoard_SetOutputEnable, IOBoard_SetOutputDisable, OnPort, Handed, SettingKinds
    <3>. QED  BY <1>1, <3>1, <3>2, <3>3, <3>4 DEF OnSerial
  <2>. QED  BY <2>1, <2>2 DEF BoardOthersOK
<1>2. ASSUME NEW name \in CardNames, OnCard(name) PROVE BoardOthersOK'
  <2>0. Len(cards) \in Nat
    BY LenProperties DEF BoardOthersOK
  <2>1. ASSUME NEW id \in CardIds, PCIe_OpenDevice(name, id) PROVE BoardOthersOK'
    <3>1. [name |-> name, id |-> id] \in Card
      BY DEF Card
    <3>2. cards' \in Seq(Card) /\ Len(cards') = Len(cards) + 1 /\ Len(cards) < MaxCards
      BY <2>1, <3>1, AppendProperties DEF PCIe_OpenDevice, BoardOthersOK
    <3>3. /\ MaxCards \in Nat /\ pci' \subseteq CardIds
          /\ UNCHANGED <<cardId, gpioType, sent, boardDown>>
      BY <2>1, BoardAssumption DEF PCIe_OpenDevice, BoardOthersOK
    <3>4. cardId \in {-1} \cup 0 .. Len(cards) - 1
      BY DEF BoardOthersOK
    <3>5. Len(cards') <= MaxCards /\ cardId' \in {-1} \cup 0 .. Len(cards') - 1
      BY <2>0, <3>2, <3>3, <3>4
    <3>. QED  BY <3>2, <3>3, <3>5 DEF BoardOthersOK
  <2>2. CASE PCIe_CloseDevice(name)
    BY <2>2, SearchForCard DEF PCIe_CloseDevice, BoardOthersOK
  <2>3. CASE PCIe_WriteDeviceIO(name)
    <3>1. sent'[1] \in SettingKinds
      BY <2>3 DEF PCIe_WriteDeviceIO, SettingKinds
    <3>. QED  BY <2>3, <3>1 DEF PCIe_WriteDeviceIO, BoardOthersOK
  <2>. QED  BY <1>2, <2>1, <2>2, <2>3 DEF OnCard
<1>3. CASE OnMainBoard
  <2>1. UNCHANGED <<cards, cardId, pci, boardDown>> /\ gpioType' \in GpioTypes \cup {"unset"}
    BY <1>3 DEF OnMainBoard, SelectPnp, OpenGPIO, SetGPO, BoardOthersOK
  <2>2. UNCHANGED sent \/ sent'[1] \in {"pnp", "driver", "gpio"}
    BY <1>3 DEF OnMainBoard, SelectPnp, OpenGPIO, SetGPO, SetPnpEnable, Handed
  <2>3. sent' = << >> \/ sent'[1] \in SettingKinds
    BY <2>2 DEF SettingKinds, BoardOthersOK
  <2>. QED  BY <2>1, <2>3 DEF BoardOthersOK
<1>4. CASE UNCHANGED boardVars
  BY <1>4 DEF boardVars, BoardOthersOK
<1>. QED  BY <1>1, <1>2, <1>3, <1>4 DEF BoardNext

LEMMA InitBoardOthers == BoardInit => BoardOthersOK
<1>. SUFFICES ASSUME BoardInit PROVE BoardOthersOK
  OBVIOUS
<1>1. cards \in Seq(Card) /\ Len(cards) = 0 /\ 0 <= MaxCards
  BY EmptySeq, BoardAssumption DEF BoardInit
<1>2. boardDown \in BOOLEAN
  BY Zenon DEF BoardInit
<1>. QED  BY <1>1, <1>2 DEF BoardInit, BoardOthersOK

LEMMA BoardTypes == PortInv /\ BoardOthersOK => BoardTypeOK
BY DEF PortInv, PortsTypeOK, Port, BoardOthersOK, Card, SettingKinds, BoardTypeOK

-----------------------------------------------------------------------------
(* The service: a thread of ServiceMain only in a process, which has its libraries. *)
LEMMA InitSvcTypes == SvcInit => SvcTypeOK
<1>. SUFFICES ASSUME SvcInit PROVE SvcTypeOK
  OBVIOUS
<1>1. /\ installed \in BOOLEAN /\ running \in BOOLEAN /\ kernel \in BOOLEAN
      /\ libs \in BOOLEAN /\ libs = (main # "ended")
  BY DEF SvcInit
<1>. QED  BY <1>1 DEF SvcInit, SvcTypeOK, States

LEMMA NextKeepsSvcTypes == SvcTypeOK /\ [SvcNext]_svcVars => SvcTypeOK'
<1>. SUFFICES ASSUME SvcTypeOK, [SvcNext]_svcVars PROVE SvcTypeOK'
  OBVIOUS
<1>. DEFINE Flags == /\ installed \in BOOLEAN /\ running \in BOOLEAN /\ kernel \in BOOLEAN
                     /\ libs \in BOOLEAN
            Told == reported \in States \ {"noChange"} /\ status \in States
            Event == exitEvent \in {"null", "unset", "set"}
            Threads ==
              /\ main \in {"ended", "dispatch", "stop", "stopWork", "wait",
                           "interrogate", "bad", "report", "close"}
              /\ svc \in {"none", "start", "registered", "reporting", "starting", "made",
                          "loop", "done"}
              /\ main = "ended" => svc = "none"
              /\ libs <=> main # "ended"
<1>0. Flags /\ Told /\ Event /\ Threads
  BY DEF SvcTypeOK
<1>1. CASE Install \/ Control \/ Uninstall \/ StartProcess
  <2>1. Flags'
    BY <1>0, <1>1, Zenon DEF Install, Control, Uninstall, StartProcess
  <2>2. Told' /\ Event'
    BY <1>0, <1>1 DEF Install, Control, Uninstall, StartProcess, EventBeforeDispatcher, States
  <2>3. Threads'
    BY <1>0, <1>1 DEF Install, Control, Uninstall, Accepts, StartProcess
  <2>. QED  BY <2>1, <2>2, <2>3 DEF SvcTypeOK
<1>2. CASE MainThread
  <2>1. Flags'
    BY <1>0, <1>2, Zenon DEF MainThread, StopFlag, StopWorkMoudle, WaitForExit, OtherControl,
       ReportControl, DispatcherReturns, EndProcess
  <2>2. Told' /\ Event'
    BY <1>0, <1>2 DEF MainThread, StopFlag, StopWorkMoudle, WaitForExit, OtherControl,
       ReportControl, Heard, DispatcherReturns, EndProcess, States
  <2>3. Threads'
    BY <1>0, <1>2 DEF MainThread, StopFlag, StopWorkMoudle, WaitForExit, OtherControl,
       ReportControl, DispatcherReturns, EndProcess
  <2>. QED  BY <2>1, <2>2, <2>3 DEF SvcTypeOK
<1>3. CASE ServiceThread
  <2>1. Flags'
    BY <1>0, <1>3, Zenon DEF ServiceThread, RegisterHandler, SetRunning, ReportRunning,
       MakeKernel, SetFlag, LeaveLoop
  <2>2. Told' /\ Event'
    BY <1>0, <1>3 DEF ServiceThread, RegisterHandler, SetRunning, ReportRunning, Heard,
       MakeKernel, SetFlag, LeaveLoop, States
  <2>3. Threads'
    BY <1>0, <1>3 DEF ServiceThread, RegisterHandler, SetRunning, ReportRunning, MakeKernel,
       SetFlag, LeaveLoop
  <2>. QED  BY <2>1, <2>2, <2>3 DEF SvcTypeOK
<1>4. CASE UNCHANGED svcVars
  BY <1>4 DEF svcVars, SvcTypeOK
<1>. QED  BY <1>1, <1>2, <1>3, <1>4 DEF SvcNext

-----------------------------------------------------------------------------
(* The PLC client: a request on its way is the frame that its function has made. *)
FrameAsked ==
  CASE asked = "nothing" -> frame = << >>
    [] asked = "read" -> \E a, b, c, d \in PlcBytes : frame = <<ReadCode, a, b, c, d, 0>>
    [] asked = "write" -> \E a, b, c, d \in PlcBytes : frame = <<WriteCode, a, b, c, d>>
    [] OTHER -> FALSE

ModInv == ModTypeOK /\ FrameAsked

LEMMA InitModInv == ModInit => ModInv
<1>. SUFFICES ASSUME ModInit PROVE ModInv
  OBVIOUS
<1>1. registers \in [Words -> Words]
  BY ModbusAssumption DEF ModInit, Words, ZeroWord
<1>. QED  BY <1>1, ModbusAssumption DEF ModInit, ModInv, ModTypeOK, FrameAsked

(* A read is answered as a write or with an exception, and a write, a byte too
   short, with an exception: the function is never the one that was asked for. *)
LEMMA AnswerKeeps == ASSUME ModInv, Answered PROVE ModInv'
<1>1. /\ asked' = "nothing" /\ frame' = << >> /\ UNCHANGED <<socket, startups>>
      /\ asked \in {"read", "write"}
      /\ registers' = IF FrameWrites
                      THEN [registers EXCEPT ![<<frame[3], frame[4]>>] = <<frame[5], frame[6]>>]
                      ELSE registers
      /\ result' = IF Succeeds(asked) THEN "true" ELSE "false"
  BY DEF Answered, ModInv, ModTypeOK
<1>2. PlcBytes \subseteq Nat /\ 0 \in PlcBytes
  BY ModbusAssumption
<1>3. CASE asked = "read"
  <2>1. PICK a, b, c, d \in PlcBytes : frame = <<ReadCode, a, b, c, d, 0>>
    BY <1>3 DEF ModInv, FrameAsked
  <2>2. /\ frame[2] = a /\ frame[3] = b /\ frame[4] = c /\ frame[5] = d /\ frame[6] = 0
        /\ Len(frame) = 6 /\ a \in Nat
    BY <1>2, <2>1
  <2>3. registers' \in [Words -> Words]
    <3>1. <<b, c>> \in Words /\ <<d, 0>> \in Words
      BY <1>2 DEF Words
    <3>. QED  BY <1>1, <2>2, <3>1 DEF ModInv, ModTypeOK
  <2>4. AnswerFunction = IF a = 6 THEN 6 ELSE a + 128
    BY <2>2 DEF AnswerFunction, FrameWrites, FrameFunction, Exception, WriteCode
  <2>5. ~Succeeds(asked)
    BY <1>3, <2>2, <2>4 DEF Succeeds, ReadCode
  <2>. QED  BY <1>1, <2>3, <2>5 DEF ModInv, ModTypeOK, FrameAsked
<1>4. CASE asked = "write"
  <2>1. PICK a, b, c, d \in PlcBytes : frame = <<WriteCode, a, b, c, d>>
    BY <1>4 DEF ModInv, FrameAsked
  <2>2. frame[2] = a /\ Len(frame) = 5 /\ a \in Nat
    BY <1>2, <2>1
  <2>3. ~FrameWrites /\ registers' = registers
    BY <1>1, <2>2 DEF FrameWrites
  <2>4. AnswerFunction = a + 128
    BY <2>2, <2>3 DEF AnswerFunction, FrameFunction, Exception
  <2>5. ~Succeeds(asked)
    BY <1>4, <2>2, <2>4 DEF Succeeds, WriteCode
  <2>. QED  BY <1>1, <2>3, <2>5 DEF ModInv, ModTypeOK, FrameAsked
<1>. QED  BY <1>1, <1>3, <1>4

LEMMA NextKeepsModInv == ModInv /\ [ModNext]_modVars => ModInv'
<1>. SUFFICES ASSUME ModInv, [ModNext]_modVars PROVE ModInv'
  OBVIOUS
<1>1. CASE connect2
  BY <1>1, ModbusAssumption DEF connect2, ModInv, ModTypeOK, FrameAsked
<1>2. CASE readHoldingRegisters
  <2>1. PICK s \in Words, c \in Words :
          frame' = <<ReadCode, s[1], s[2], c[1], c[2], 0>>
    BY <1>2 DEF readHoldingRegisters
  <2>2. s[1] \in PlcBytes /\ s[2] \in PlcBytes /\ c[1] \in PlcBytes /\ c[2] \in PlcBytes
    BY DEF Words
  <2>3. asked' = "read" /\ UNCHANGED <<socket, startups, registers, result>>
    BY <1>2 DEF readHoldingRegisters
  <2>4. FrameAsked'
    BY <2>1, <2>2, <2>3 DEF FrameAsked
  <2>5. frame' # << >> /\ Len(frame') \in {5, 6} /\ frame'[1] \in {ReadCode, WriteCode}
    BY <2>1
  <2>. QED  BY <2>3, <2>4, <2>5 DEF ModInv, ModTypeOK
<1>3. CASE writeSingleRegister
  <2>1. PICK s \in Words, c \in Words : frame' = <<WriteCode, s[1], s[2], c[1], c[2]>>
    BY <1>3 DEF writeSingleRegister
  <2>2. s[1] \in PlcBytes /\ s[2] \in PlcBytes /\ c[1] \in PlcBytes /\ c[2] \in PlcBytes
    BY DEF Words
  <2>3. asked' = "write" /\ UNCHANGED <<socket, startups, registers, result>>
    BY <1>3 DEF writeSingleRegister
  <2>4. FrameAsked'
    BY <2>1, <2>2, <2>3 DEF FrameAsked
  <2>5. frame' # << >> /\ Len(frame') \in {5, 6} /\ frame'[1] \in {ReadCode, WriteCode}
    BY <2>1
  <2>. QED  BY <2>3, <2>4, <2>5 DEF ModInv, ModTypeOK
<1>4. CASE Answered
  BY <1>4, AnswerKeeps
<1>5. CASE Broken \/ NewClient \/ UNCHANGED modVars
  BY <1>5 DEF Broken, NewClient, modVars, ModInv, ModTypeOK, FrameAsked
<1>. QED  BY <1>1, <1>2, <1>3, <1>4, <1>5 DEF ModNext

-----------------------------------------------------------------------------
(* The image queue: images are in the order of their numbers, so none is twice in
   the queue and whoever takes the first one deletes no other. *)
Earlier == {p \in Nat \X Nat : p[1] < p[2]}
ImgInv == ImgTypeOK /\ Sorted(images, Earlier)

LEMMA InitImgInv == ImgInit => ImgInv
<1>. SUFFICES ASSUME ImgInit PROVE ImgInv
  OBVIOUS
<1>1. images \in Seq(mats) /\ given \in Seq(1 .. pushed) /\ Len(images) = 0
  BY EmptySeq DEF ImgInit
<1>2. MostImages \in Nat /\ MaxImages \in Nat
  BY ImageAssumption DEF MostImages
<1>3. Sorted(images, Earlier)
  BY EmptySorted DEF ImgInit
<1>. QED  BY <1>1, <1>2, <1>3 DEF ImgInit, ImgInv, ImgTypeOK

LEMMA SeqOfThose ==
  ASSUME NEW S, NEW T, NEW q \in Seq(S), \A i \in 1 .. Len(q) : q[i] \in T
  PROVE  q \in Seq(T)
<1>1. Len(q) \in Nat /\ q = [i \in 1 .. Len(q) |-> q[i]]
  BY LenProperties
<1>2. [i \in 1 .. Len(q) |-> q[i]] \in Seq(T)
  BY <1>1, IsASeq
<1>. QED  BY <1>1, <1>2

LEMMA SeqOfMore == ASSUME NEW S, NEW T, S \subseteq T, NEW q \in Seq(S) PROVE q \in Seq(T)
<1>1. \A i \in 1 .. Len(q) : q[i] \in T
  BY ElementOfSeq
<1>. QED  BY <1>1, SeqOfThose

(* What is behind the first image is another image. *)
LEMMA BehindTheFirst ==
  ASSUME ImgInv, images # << >>
  PROVE  /\ Head(images) \in mats /\ Tail(images) \in Seq(mats \ {Head(images)})
         /\ Len(Tail(images)) = Len(images) - 1
         /\ Sorted(Tail(images), Earlier)
<1>1. /\ images \in Seq(mats) /\ Tail(images) \in Seq(mats)
      /\ Len(Tail(images)) = Len(images) - 1
      /\ Head(images) \in mats
  BY HeadTailProperties DEF ImgInv, ImgTypeOK
<1>2. /\ Sorted(Tail(images), Earlier)
      /\ \A x \in Range(Tail(images)) : <<Head(images), x>> \in Earlier
  BY TailSorted DEF ImgInv, ImgTypeOK
<1>3. \A i \in 1 .. Len(Tail(images)) : Tail(images)[i] \in mats \ {Head(images)}
  <2>. SUFFICES ASSUME NEW i \in 1 .. Len(Tail(images))
                PROVE  Tail(images)[i] \in mats /\ Tail(images)[i] # Head(images)
    OBVIOUS
  <2>1. Tail(images)[i] \in mats /\ Tail(images)[i] \in Range(Tail(images))
    BY <1>1, ElementOfSeq, RangeOfQueue
  <2>2. <<Head(images), Tail(images)[i]>> \in Earlier
    BY <1>2, <2>1
  <2>. QED  BY <2>1, <2>2 DEF Earlier
<1>4. Tail(images) \in Seq(mats \ {Head(images)})
  BY <1>1, <1>3, SeqOfThose
<1>. QED  BY <1>1, <1>2, <1>4

LEMMA ImagePushKeeps == ASSUME ImgInv, Image_Fifo_Push PROVE ImgInv'
<1>. DEFINE x == pushed + 1
            more == mats \cup {x}
<1>1. /\ pushed \in Nat /\ MaxImages \in Nat /\ x \in 1 .. MaxImages /\ pushed' = x
      /\ mats \subseteq 1 .. pushed /\ images \in Seq(mats) /\ given \in Seq(1 .. pushed)
      /\ Len(images) \in Nat /\ Len(images) <= MostImages /\ MostImages \in Nat \ {0}
      /\ UNCHANGED <<given, length>>
  BY ImageAssumption, LenProperties DEF ImgInv, ImgTypeOK, Image_Fifo_Push, MostImages
<1>2. given' \in Seq(1 .. pushed') /\ more \subseteq 1 .. pushed' /\ x \notin mats
  <2>1. 1 .. pushed \subseteq 1 .. pushed'
    BY <1>1
  <2>. QED  BY <1>1, <2>1, SeqOfMore
<1>3. /\ images' = PushDropOldest(images, x, MostImages)
      /\ mats' = more \ IF Len(images) >= MostImages THEN {Head(images)} ELSE {}
  BY DEF Image_Fifo_Push
<1>4. /\ images \in Seq(Nat) /\ x \in Nat
      /\ \A y \in Range(images) : <<y, x>> \in Earlier
  <2>1. mats \subseteq Nat
    BY <1>1
  <2>2. images \in Seq(Nat)
    BY <1>1, <2>1, SeqOfMore
  <2>3. \A y \in Range(images) : y \in 1 .. pushed
    BY <1>1, RangeOfQueue
  <2>4. \A y \in Range(images) : y \in Nat /\ y < x
    BY <1>1, <2>3
  <2>. QED  BY <1>1, <2>2, <2>4 DEF Earlier
<1>. HIDE DEF x, more
<1>5. Sorted(images', Earlier)
  BY <1>1, <1>3, <1>4, PushDropOldestSorted DEF ImgInv
<1>6. images' \in Seq(mats') /\ Len(images') <= MostImages
  <2>1. CASE Len(images) >= MostImages
    <3>1. images # << >> /\ images' = Append(Tail(images), x)
      BY <1>1, <1>3, <2>1 DEF PushDropOldest
    <3>2. /\ Head(images) \in mats /\ Tail(images) \in Seq(mats \ {Head(images)})
          /\ Len(Tail(images)) = Len(images) - 1
      BY <3>1, BehindTheFirst
    <3>3. mats' = more \ {Head(images)} /\ x \in mats'
          /\ mats \ {Head(images)} \subseteq mats'
      BY <1>2, <1>3, <2>1, <3>2 DEF more
    <3>4. Tail(images) \in Seq(mats')
      BY <3>2, <3>3, SeqOfMore
    <3>. QED  BY <1>1, <3>1, <3>2, <3>3, <3>4, AppendProperties
  <2>2. CASE ~(Len(images) >= MostImages)
    <3>1. images' = Append(images, x) /\ mats' = more /\ x \in mats' /\ mats \subseteq mats'
      BY <1>3, <2>2 DEF PushDropOldest, more
    <3>2. images \in Seq(mats')
      BY <1>1, <3>1, SeqOfMore
    <3>. QED  BY <1>1, <2>2, <3>1, <3>2, AppendProperties
  <2>. QED  BY <2>1, <2>2
<1>7. mats' \subseteq 1 .. pushed' /\ pushed' \in 0 .. MaxImages
  <2>1. mats' \subseteq more
    BY <1>3
  <2>2. pushed' \in 0 .. MaxImages
    BY <1>1
  <2>. QED  BY <1>2, <2>1, <2>2
<1>8. length' \in 0 .. MostImages
  BY <1>1 DEF ImgInv, ImgTypeOK
<1>. QED  BY <1>2, <1>5, <1>6, <1>7, <1>8 DEF ImgInv, ImgTypeOK, MostImages

LEMMA NextKeepsImgInv == ImgInv /\ [ImgNext]_imgVars => ImgInv'
<1>. SUFFICES ASSUME ImgInv, [ImgNext]_imgVars PROVE ImgInv'
  OBVIOUS
<1>1. CASE Image_Fifo_Push
  BY <1>1, ImagePushKeeps
<1>2. CASE Image_Fifo_Get
  <2>1. /\ Head(images) \in mats /\ Tail(images) \in Seq(mats \ {Head(images)})
        /\ Len(Tail(images)) = Len(images) - 1
        /\ Sorted(Tail(images), Earlier)
    BY <1>2, BehindTheFirst DEF Image_Fifo_Get
  <2>2. /\ images' = Tail(images) /\ mats' = mats \ {Head(images)}
        /\ given' = Append(given, Head(images)) /\ UNCHANGED <<pushed, length>>
    BY <1>2 DEF Image_Fifo_Get
  <2>3. given' \in Seq(1 .. pushed)
    BY <2>1, <2>2, AppendProperties DEF ImgInv, ImgTypeOK
  <2>4. Len(images) \in Nat /\ Len(images) <= MostImages /\ MostImages \in Nat
    BY ImageAssumption, LenProperties DEF ImgInv, ImgTypeOK, MostImages
  <2>. QED  BY <2>1, <2>2, <2>3, <2>4 DEF ImgInv, ImgTypeOK, MostImages
<1>3. CASE Image_Fifo_Length
  <2>1. Len(images) \in 0 .. MostImages
    BY ImageAssumption, LenProperties DEF ImgInv, ImgTypeOK, MostImages
  <2>. QED  BY <1>3, <2>1 DEF Image_Fifo_Length, ImgInv, ImgTypeOK, MostImages
<1>4. CASE Image_Fifo_Init
  <2>1. images' \in Seq(mats') /\ Len(images') = 0 /\ Sorted(images', Earlier)
    BY <1>4, EmptySeq, EmptySorted DEF Image_Fifo_Init
  <2>2. MostImages \in Nat
    BY ImageAssumption DEF MostImages
  <2>. QED  BY <1>4, <2>1, <2>2 DEF Image_Fifo_Init, ImgInv, ImgTypeOK, MostImages
<1>5. CASE UNCHANGED imgVars
  BY <1>5 DEF imgVars, ImgInv, ImgTypeOK, MostImages
<1>. QED  BY <1>1, <1>2, <1>3, <1>4, <1>5 DEF ImgNext

-----------------------------------------------------------------------------
(* Function lists: IsFuncNameExist_Local keeps the names of a table apart. *)
LEMMA InitFunTypes == FunInit => FunTypeOK
BY EmptySeq DEF FunInit, FunTypeOK

LEMMA NextKeepsFunTypes == FunTypeOK /\ [FunNext]_funVars => FunTypeOK'
<1>. SUFFICES ASSUME FunTypeOK, [FunNext]_funVars PROVE FunTypeOK'
  OBVIOUS
<1>1. CASE RegisterActionFun_Local
  <2>1. PICK f \in FunctionSet :
          ~IsFuncNameExist_Local(f.name) /\ vecfuncs' = Append(vecfuncs, f)
    BY <1>1 DEF RegisterActionFun_Local
  <2>. DEFINE n == Len(vecfuncs)
  <2>2. /\ n \in Nat /\ DOMAIN vecfuncs = 1 .. n /\ vecfuncs' \in Seq(FunctionSet)
        /\ Len(vecfuncs') = n + 1 /\ DOMAIN vecfuncs' = 1 .. n + 1
        /\ vecfuncs'[n + 1] = f /\ \A k \in 1 .. n : vecfuncs'[k] = vecfuncs[k]
    BY <2>1, AppendProperties, LenProperties DEF FunTypeOK
  <2>3. \A k \in 1 .. n : vecfuncs[k].name # f.name
    BY <2>1, <2>2 DEF IsFuncNameExist_Local
  <2>4. \A i, j \in 1 .. n : i # j => vecfuncs[i].name # vecfuncs[j].name
    BY <2>2 DEF FunTypeOK
  <2>. HIDE DEF n
  <2>5. \A i, j \in 1 .. n + 1 : i # j => vecfuncs'[i].name # vecfuncs'[j].name
    <3>1. \A i \in 1 .. n + 1 : i \in 1 .. n \/ i = n + 1
      BY <2>2
    <3>. QED  BY <2>2, <2>3, <2>4, <3>1
  <2>. QED  BY <1>1, <2>2, <2>5 DEF RegisterActionFun_Local, FunTypeOK
<1>2. CASE AskActionFunList
  <2>1. /\ answer' = <<PacketData(Described(vecfuncs), << >>), vecfuncs>>
        /\ UNCHANGED <<vecfuncs, announced, remotefuncs>>
    BY <1>2 DEF AskActionFunList
  <2>2. Len(Described(vecfuncs)) \in Nat
    <3>1. 5 * Len(vecfuncs) \in Nat
      BY LenProperties DEF FunTypeOK
    <3>. QED  BY <3>1 DEF Described
  <2>3. answer'[1].head.params = Len(Described(vecfuncs)) % CountMod
    BY <2>1 DEF PacketData, PackHead
  <2>4. answer'[1].head.params < CountMod
    <3>. DEFINE m == CountMod
                l == Len(Described(vecfuncs))
    <3>1. m \in Nat \ {0} /\ l \in Nat
      BY <2>2, CountAssumption
    <3>. HIDE DEF m, l
    <3>2. l % m < m
      BY <3>1
    <3>. QED  BY <2>3, <3>2 DEF m, l
  <2>5. answer'[2] \in Seq(FunctionSet)
    BY <2>1 DEF FunTypeOK
  <2>. QED  BY <2>1, <2>4, <2>5 DEF FunTypeOK
<1>3. CASE UpdataRemoteFuncList
  <2>1. \A i \in DOMAIN remotefuncs' : Len(remotefuncs'[i].nums) = 4
    BY <1>3 DEF UpdataRemoteFuncList, ParseFuncList
  <2>2. announced' = answer[2] /\ answer # NoAnswer /\ answer' = NoAnswer /\ UNCHANGED vecfuncs
    BY <1>3 DEF UpdataRemoteFuncList
  <2>. QED  BY <2>1, <2>2 DEF FunTypeOK
<1>4. CASE \E name \in FunNames : DoAction(name)
  BY <1>4 DEF DoAction, FunTypeOK
<1>5. CASE UNCHANGED funVars
  BY <1>5 DEF funVars, FunTypeOK
<1>. QED  BY <1>1, <1>2, <1>3, <1>4, <1>5 DEF FunNext

-----------------------------------------------------------------------------
(* What every component of the station keeps, whichever of them moves *)
StationInv ==
  /\ part \in Parts
  /\ CamInv /\ CamOthersOK /\ PortInv /\ BoardOthersOK /\ DbInv /\ SvcTypeOK
  /\ ModInv /\ ImgInv /\ FunTypeOK

LEMMA InitStationInv == StationInit => StationInv
BY InitCamInv, InitCamOthers, InitPortInv, InitBoardOthers, InitDbInv, InitSvcTypes,
   InitModInv, InitImgInv, InitFunTypes DEF StationInit, StationInv

LEMMA NextKeepsStationInv == StationInv /\ [StationNext]_stationVars => StationInv'
<1>. SUFFICES ASSUME StationInv, [StationNext]_stationVars PROVE StationInv'
  OBVIOUS
<1>1. /\ UNCHANGED part
      /\ [CamNext]_camVars /\ [BoardNext]_boardVars /\ [DbNext]_dbVars /\ [SvcNext]_svcVars
      /\ [ModNext]_modVars /\ [ImgNext]_imgVars /\ [FunNext]_funVars
  BY DEF StationNext, stationVars
<1>. QED  BY <1>1, NextKeepsCamInv, NextKeepsCamOthers, NextKeepsPortInv, NextKeepsBoardOthers,
             NextKeepsDbInv, NextKeepsSvcTypes, NextKeepsModInv, NextKeepsImgInv,
             NextKeepsFunTypes DEF StationInv

(* Types, and what is said with them: a value that was read from a camera is a value
   of the device, a frame is what the device sent; the images in the queue have not
   been deleted; a table has no function twice; a PLC that goes by the protocol
   answers neither request of ModbusTcpClient with the function that was asked for;
   and the thread of ServiceMain lives in a process with its libraries only. *)
THEOREM StationTypesCorrect == StationSpec => []StationTypeOK
<1>1. StationInv => StationTypeOK
  BY CamTypes, BoardTypes DEF StationInv, StationTypeOK, DbInv, ModInv, ImgInv
<1>. QED  BY InitStationInv, NextKeepsStationInv, <1>1, PTL DEF StationSpec
=============================================================================
