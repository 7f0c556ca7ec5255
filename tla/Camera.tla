------------------------------- MODULE Camera -------------------------------
(***************************************************************************)
(* The camera library (MZ_Device): COperation, the engine behind it and    *)
(* the two makes of camera, CMvCamera ("hik") and IMvCamera ("dahua").     *)
(* The caller's thread makes one call at a time; a thread of the vendor's  *)
(* SDK reports that the link is lost or back and reconnects meanwhile.     *)
(* The SDK, the device and the network are external: what a call answers   *)
(* is the SDK's choice among what its state allows.                        *)
(* Assumed of the caller: one COperation at a time, of the make that was   *)
(* enumerated last, neither opened nor deleted while the SDK's thread      *)
(* reconnects. m_isOpen and m_isRealse, which only functions that nobody   *)
(* calls read, are left out.                                               *)
(***************************************************************************)
EXTENDS Integers, Sequences

CONSTANTS Handles,     \* handles the SDK gives out; a destroyed one may come again
          RawFrame,    \* bytes of the frame a device sends, three to a pixel
          BgrFrame     \* the same pixels, blue first

VARIABLES listed,      \* the make m_stDevList was filled with last
          make,        \* m_Devtype of the engine eng, NoEngine when eng is NULL
          engGrabbing, \* class_net_engine::m_bStartGrabbing
          cam,         \* fields of the camera object
          sdk,         \* handles that live, are open, grab, deliver frames
          up,          \* the device answers on the network
          notice,      \* what the SDK's thread is doing
          setting,     \* a parameter of the device, and its trigger selector
          file,        \* that parameter in a file of settings
          got,         \* what the caller last read of it
          mat          \* the frame the caller got last

camVars == <<listed, make, engGrabbing, cam, sdk, up, notice, setting, file, got, mat>>

NoEngine == "none"
Makes == {"hik", "dahua"}
NoHandle == "null"
Unread == 9
Freed == <<Unread>>    \* a frame whose buffer was given back
Values == {0, 1, 4}
Selectors == {"FrameStart", "FrameStop"}
Kinds == {"number", "text", "triggerMode", "triggerSource"}

ASSUME HandlesAssumption == NoHandle \notin Handles
(* RawFrame and BgrFrame show the same pixels *)
ASSUME FrameAssumption ==
    /\ RawFrame \in Seq(Nat) /\ BgrFrame \in Seq(Nat)
    /\ Len(RawFrame) = Len(BgrFrame) /\ Len(RawFrame) % 3 = 0
    /\ \A p \in 1 .. Len(RawFrame) \div 3 :
        /\ BgrFrame[3 * p - 2] = RawFrame[3 * p]
        /\ BgrFrame[3 * p - 1] = RawFrame[3 * p - 1]
        /\ BgrFrame[3 * p] = RawFrame[3 * p - 2]

NewSetting(kind) == [kind |-> kind, value |-> 0, selector |-> "FrameStart"]
NoCamera == [handle |-> NoHandle, info |-> FALSE, openDevice |-> FALSE, grabbing |-> FALSE]

CamInit ==
    /\ listed = NoEngine
    /\ make = NoEngine
    /\ engGrabbing = FALSE
    /\ cam = NoCamera
    /\ sdk = [live |-> {}, open |-> {}, grab |-> {}, feed |-> {}]
    /\ up = TRUE
    /\ notice = "idle"
    /\ setting = NewSetting("number") /\ file = 0
    /\ got = 0
    /\ mat = << >>

-----------------------------------------------------------------------------
(* The SDK (external) as the library uses it *)

Reached == cam.handle \in sdk.open /\ up     \* a call on m_hDevHandle succeeds
SdkOpened(h) == [sdk EXCEPT !.live = @ \cup {h}, !.open = @ \cup {h}]
SdkDestroyed(h) == [s \in DOMAIN sdk |-> sdk[s] \ {h}]

EndLink == up' = ~up /\ UNCHANGED <<listed, make, engGrabbing, cam, sdk, notice, setting, file, got, mat>>

-----------------------------------------------------------------------------
(* MsvEnumerateDevics keeps one list, of whichever make was asked for last *)
Enumerate ==
    /\ listed' \in Makes
    /\ UNCHANGED <<make, engGrabbing, cam, sdk, up, notice, setting, file, got, mat>>

(* class_net_engine, and the camera it makes *)
NewEngine(m) ==
    /\ make' = m
    /\ cam' = [NoCamera EXCEPT !.info = TRUE]
    /\ engGrabbing' = FALSE

(* ~class_net_engine: the camera destroys the handle it has *)
DeleteEngine ==
    /\ make' = NoEngine
    /\ cam' = NoCamera
    /\ sdk' = SdkDestroyed(cam.handle)
    /\ engGrabbing' = FALSE

(* The constructor finds the device by its IP, or leaves eng NULL *)
Create ==
    /\ listed # NoEngine /\ make = NoEngine
    /\ NewEngine(listed)
    /\ \E k \in Kinds : setting' = NewSetting(k)
    /\ got' = 0 /\ file' = 0
    /\ UNCHANGED <<listed, sdk, up, notice, mat>>

Delete ==
    /\ make # NoEngine /\ notice = "idle"
    /\ DeleteEngine
    /\ UNCHANGED <<listed, up, notice, setting, file, got, mat>>

(* Every other function of COperation asks eng first, and answers -1 without one *)
HasEngine == make # NoEngine

(* Slip: a camera that does not open keeps the handle it has created *)
OpenKeepsHandle ==
    IF make = "hik" /\ cam.info /\ cam.handle = NoHandle
    THEN \E h \in Handles \ sdk.live :
            /\ cam' = [cam EXCEPT !.handle = h, !.openDevice = up \/ @]
            /\ sdk' = IF up THEN SdkOpened(h) ELSE [sdk EXCEPT !.live = @ \cup {h}]
    ELSE UNCHANGED <<cam, sdk>>

(* CMvCamera::Open: a handle that does not open is destroyed *)
OpenHik ==
    IF make = "hik" /\ cam.info /\ cam.handle = NoHandle /\ up
    THEN \E h \in Handles \ sdk.live :
            /\ cam' = [cam EXCEPT !.handle = h, !.openDevice = TRUE]
            /\ sdk' = SdkOpened(h)
    ELSE UNCHANGED <<cam, sdk>>

OpenDahua ==
    IF make = "dahua" /\ cam.info /\ cam.handle = NoHandle /\ up
    THEN \E h \in Handles \ sdk.live :
            cam' = [cam EXCEPT !.handle = h] /\ sdk' = SdkOpened(h)
    ELSE UNCHANGED <<cam, sdk>>

(* Slip: closing clears the camera's flag, not the engine's *)
CloseClearsFlag ==
    /\ cam' = [cam EXCEPT !.handle = NoHandle, !.grabbing = FALSE]
    /\ sdk' = SdkDestroyed(cam.handle)

(* CMvCamera::Close sets m_bOpenDevice and leaves m_bStartGrabbing as it is *)
CloseHik ==
    /\ cam' = [cam EXCEPT !.handle = NoHandle, !.openDevice = @ \/ Reached]
    /\ sdk' = SdkDestroyed(cam.handle)

CloseDahua ==
    /\ cam' = [cam EXCEPT !.handle = NoHandle]
    /\ sdk' = SdkDestroyed(cam.handle)

OpenDevice ==
    /\ HasEngine /\ notice = "idle"
    /\ IF make = "hik" THEN OpenHik ELSE OpenDahua
    /\ UNCHANGED <<listed, make, engGrabbing, up, notice, setting, file, got, mat>>

CloseDevice ==
    /\ HasEngine
    /\ IF make = "hik" THEN CloseHik ELSE CloseDahua
    /\ UNCHANGED <<listed, make, engGrabbing, up, notice, setting, file, got, mat>>

-----------------------------------------------------------------------------
(* Grabbing: the engine and CMvCamera each have a flag. CMvCamera::StartGrabbing
   answers MV_OK at once while its own is set, and StopGrabbing answers false,
   which is MV_OK, while it is not. *)

StartHik ==
    IF ~cam.grabbing /\ Reached
    THEN sdk' = [sdk EXCEPT !.grab = @ \cup {cam.handle}] /\ cam' = [cam EXCEPT !.grabbing = TRUE]
    ELSE UNCHANGED <<cam, sdk>>
StartHikOk == cam.grabbing \/ Reached

StartFrame ==
    /\ HasEngine /\ ~engGrabbing
    /\ \/ /\ make = "hik"
          /\ StartHik
          /\ engGrabbing' = StartHikOk
       \/ /\ make = "dahua" /\ Reached /\ cam.handle \notin sdk.grab
          /\ sdk' = [sdk EXCEPT !.grab = @ \cup {cam.handle}]
          /\ engGrabbing' = TRUE /\ UNCHANGED cam
    /\ UNCHANGED <<listed, make, up, notice, setting, file, got, mat>>

StopHik(ok) ==
    IF cam.grabbing /\ ok
    THEN sdk' = [sdk EXCEPT !.grab = @ \ {cam.handle}] /\ cam' = [cam EXCEPT !.grabbing = FALSE]
    ELSE UNCHANGED <<cam, sdk>>

(* The SDK stops a grabbing handle, of a device it cannot reach perhaps *)
StopFrame ==
    /\ HasEngine /\ engGrabbing
    /\ \E ok \in {Reached, TRUE} :
        LET stops == ok /\ cam.handle \in sdk.grab
        IN  \/ /\ make = "hik"
               /\ StopHik(stops)
               /\ engGrabbing' = (cam.grabbing /\ ~stops)
            \/ /\ make = "dahua"
               /\ sdk' = [sdk EXCEPT !.grab = @ \ IF stops THEN {cam.handle} ELSE {}]
               /\ engGrabbing' = ~stops /\ UNCHANGED cam
    /\ UNCHANGED <<listed, make, up, notice, setting, file, got, mat>>

RegisterImageCallBack ==
    /\ HasEngine /\ Reached
    /\ sdk' = [sdk EXCEPT !.feed = @ \cup {cam.handle}]
    /\ UNCHANGED <<listed, make, engGrabbing, cam, up, notice, setting, file, got, mat>>

-----------------------------------------------------------------------------
(* Parameters, triggers and files of settings *)

(* CMvCamera hands every value to the SDK, with its key *)
HikParam(v) == Reached /\ setting' = [setting EXCEPT !.value = v]

(* IMvCamera sets the trigger mode by two names *)
DahuaTriggerMode(v) ==
    /\ Reached
    /\ setting' = [setting EXCEPT !.value = IF v = 0 THEN 0 ELSE 1,
                                   !.selector = IF v = 0 THEN "FrameStop" ELSE "FrameStart"]
(* and knows the names of five trigger sources *)
DahuaTriggerSource(v) == v \in {0, 1, 2, 3, 7} /\ HikParam(v)

DahuaParam(v) == Reached /\ setting' = [setting EXCEPT !.value = v]

SetParam ==
    /\ HasEngine /\ setting.kind \in {"number", "text"}
    /\ \E v \in Values : IF make = "hik" THEN HikParam(v) ELSE DahuaParam(v)
    /\ UNCHANGED <<listed, make, engGrabbing, cam, sdk, up, notice, file, got, mat>>

SetTrigger ==
    /\ HasEngine
    /\ \E v \in Values :
        CASE make = "hik" -> setting.kind \in {"triggerMode", "triggerSource"} /\ HikParam(v)
          [] setting.kind = "triggerMode" -> DahuaTriggerMode(v)
          [] setting.kind = "triggerSource" -> DahuaTriggerSource(v)
          [] OTHER -> FALSE
    /\ UNCHANGED <<listed, make, engGrabbing, cam, sdk, up, notice, file, got, mat>>

(* Slip: a value is copied to the caller whether it could be read or not *)
CopiedAnyhow == IF Reached THEN setting.value ELSE Unread
(* A number is copied when the call has succeeded, a text in any case *)
ReadValue ==
    IF Reached THEN setting.value ELSE IF setting.kind = "text" THEN Unread ELSE got

GetParam ==
    /\ HasEngine /\ setting.kind \in {"number", "text"}
    /\ got' = ReadValue
    /\ UNCHANGED <<listed, make, engGrabbing, cam, sdk, up, notice, setting, file, mat>>

SaveFeature ==
    /\ HasEngine /\ Reached
    /\ file' = setting.value
    /\ UNCHANGED <<listed, make, engGrabbing, cam, sdk, up, notice, setting, got, mat>>

LoadFeature ==
    /\ HasEngine /\ Reached
    /\ setting' = [setting EXCEPT !.value = file]
    /\ UNCHANGED <<listed, make, engGrabbing, cam, sdk, up, notice, file, got, mat>>

-----------------------------------------------------------------------------
(* Frames *)

(* The first and third byte of every pixel change places *)
RGB2BGR(bytes) ==
    [k \in DOMAIN bytes |->
        bytes[CASE k % 3 = 1 -> k + 2 [] k % 3 = 0 -> k - 2 [] OTHER -> k]]

Convert2Mat(format, bytes) ==
    CASE format = "Mono8" -> bytes
      [] format = "RGB8" -> RGB2BGR(bytes)
      [] OTHER -> << >>

Formats == {"Mono8", "RGB8", "Bayer"}

(* onGetFrame and ImageCallBackEx *)
DeliverFrame ==
    /\ HasEngine /\ Reached
    /\ cam.handle \in sdk.grab \cap sdk.feed
    /\ \E f \in Formats : mat' = Convert2Mat(f, RawFrame)
    /\ UNCHANGED <<listed, make, engGrabbing, cam, sdk, up, notice, setting, file, got>>

(* GetFrame gives the buffer back before it returns the Mat that lies in it, and
   converts what is in an unset IMV_Frame or MV_FRAME_OUT when no frame comes *)
GetFrame ==
    /\ HasEngine
    /\ \E f \in Formats :
        mat' = IF Convert2Mat(f, RawFrame) = << >> THEN << >> ELSE Freed
    /\ UNCHANGED <<listed, make, engGrabbing, cam, sdk, up, notice, setting, file, got>>

-----------------------------------------------------------------------------
(* ReconnectDevice: close, open until it works, start again *)

LostHik ==
    /\ make = "hik" /\ notice = "idle" /\ ~up
    /\ cam.handle \in sdk.open /\ cam.openDevice
    /\ CloseHik
    /\ notice' = "reopen"
    /\ UNCHANGED <<listed, make, engGrabbing, up, setting, file, got, mat>>

Reopen ==
    /\ notice = "reopen"
    /\ OpenHik
    /\ notice' = IF cam.handle = NoHandle /\ up THEN "restart" ELSE "reopen"
    /\ UNCHANGED <<listed, make, engGrabbing, up, setting, file, got, mat>>

Restart ==
    /\ notice = "restart"
    /\ IF cam.grabbing THEN StartHik ELSE UNCHANGED <<cam, sdk>>
    /\ notice' = "idle"
    /\ UNCHANGED <<listed, make, engGrabbing, up, setting, file, got, mat>>

deviceOffLine ==
    /\ ~up
    /\ cam' = [cam EXCEPT !.info = FALSE]
    /\ sdk' = [sdk EXCEPT !.grab = @ \ {cam.handle}]
    /\ UNCHANGED notice

(* It closes the camera and then opens the handle NULL, for ever *)
deviceOnLine ==
    /\ up
    /\ cam' = [cam EXCEPT !.info = FALSE, !.handle = NoHandle]
    /\ sdk' = SdkDestroyed(cam.handle)
    /\ notice' = "openNull"

(* The pointer m_devInfo is set to NULL and the SDK asked to fill it; what it
   answers to NULL is its own business, and an error ends the notification *)
onDeviceLinkNotify ==
    /\ make = "dahua" /\ notice = "idle" /\ cam.handle \in sdk.open
    /\ \/ cam' = [cam EXCEPT !.info = FALSE] /\ UNCHANGED <<sdk, notice>>
       \/ deviceOffLine
       \/ deviceOnLine
    /\ UNCHANGED <<listed, make, engGrabbing, up, setting, file, got, mat>>

Reconnect == LostHik \/ Reopen \/ Restart

CamNext ==
    \/ EndLink \/ Enumerate \/ Create \/ Delete
    \/ OpenDevice \/ CloseDevice \/ StartFrame \/ StopFrame \/ RegisterImageCallBack
    \/ SetParam \/ SetTrigger \/ GetParam \/ SaveFeature \/ LoadFeature
    \/ DeliverFrame \/ GetFrame
    \/ Reconnect \/ onDeviceLinkNotify

CamSpec == CamInit /\ [][CamNext]_camVars /\ WF_camVars(Reopen \/ Restart)

-----------------------------------------------------------------------------
(* Types; what the caller reads as a number is a value of the device, and a
   frame is what the device sent, with its bytes in the order of the format. *)
CamTypeOK ==
    /\ up \in BOOLEAN /\ engGrabbing \in BOOLEAN
    /\ listed \in Makes \cup {NoEngine} /\ make \in Makes \cup {NoEngine}
    /\ cam \in [handle : Handles \cup {NoHandle}, info : BOOLEAN,
                openDevice : BOOLEAN, grabbing : BOOLEAN]
    /\ sdk \in [live : SUBSET Handles, open : SUBSET Handles,
                grab : SUBSET Handles, feed : SUBSET Handles]
    /\ notice \in {"idle", "reopen", "restart", "openNull"}
    /\ setting \in [kind : Kinds, value : Values, selector : Selectors] /\ file \in Values
    /\ got \in Values \/ (setting.kind = "text" /\ got = Unread)
    /\ mat \in {<< >>, RawFrame, BgrFrame, Freed}

(* Every handle the SDK holds for the library is the one of the camera, and it
   is open: failed opens, reconnections and deletions leave none behind. *)
HandlesAccounted ==
    /\ sdk.live \subseteq {cam.handle}
    /\ sdk.open = sdk.live
    /\ cam.handle # NoHandle => cam.handle \in sdk.open

(* The engine and CMvCamera each keep a flag "grabbing", set and cleared by
   different functions; they agree, through lost links and reconnections. *)
FlagsAgree == make = "hik" => engGrabbing = cam.grabbing

(* Once the device answers, the loop of ReconnectDevice ends, unless the link
   is lost again. *)
Reconnects == notice = "reopen" ~> notice # "reopen" \/ ~up

(* "Start Grabbing" (MvCamera.cpp:154): a camera that was grabbing when its link
   was lost grabs again when ReconnectDevice ends. *)
GrabsAgain ==
    [][notice = "restart" /\ notice' = "idle" /\ cam.grabbing /\ up
        => cam'.handle \in sdk'.grab]_camVars
=============================================================================
