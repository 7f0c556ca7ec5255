------------------------------- MODULE IOBoard -------------------------------
(***************************************************************************)
(* The input and output boards (MZ_PCIControl): IOCommom, which keeps a    *)
(* list of open serial ports, a list of PCIe cards and the GPIO of the     *)
(* main board. COperation, CIOControlSDK and CPCIe1230 hand every call on. *)
(* The vendor's library is external: opening a port or a card may fail.    *)
(* Assumed of the caller: InitSDK once, before any other call.             *)
(***************************************************************************)
EXTENDS Integers, Sequences, FiniteSets, SequencesExt

CONSTANTS PortNames, PortHandles,  \* serial ports and handles to them
          CardNames, CardIds,      \* PCIe cards; an id is a number
          MaxTime,                 \* 30000 ms in the code
          WordSize,                \* 2^32: an int becomes an unsigned int
          Times,                   \* ints a caller passes as a time
          MaxCards                 \* bound: PCIe_OpenDevice calls that succeed

ASSUME BoardAssumption ==
    /\ MaxTime \in Nat /\ WordSize \in Nat /\ 2 * MaxTime < WordSize
    /\ Times \subseteq Int /\ \A t \in Times : 2 * t < WordSize /\ -WordSize <= 2 * t
    /\ CardIds \subseteq Nat /\ MaxCards \in Nat

VARIABLES ports,     \* m_ComDeviceListVec
          io,        \* handles that live and handles that are open in the library
          sent,      \* the setting the library or a card was last asked to make
          cards,     \* m_PCIeDeviceListVec
          cardId,    \* CPCIe1230::m_CardID
          pci,       \* ids of the cards that are open
          gpioType,  \* m_GPIO_Type
          boardDown  \* the process ended by an access outside the list

boardVars == <<ports, io, sent, cards, cardId, pci, gpioType, boardDown>>

GpioTypes == {"VC2000", "VT3000", "VC3000"}
Levels == {"high", "low"}

BoardInit ==
    /\ ports = << >>
    /\ io = [live |-> {}, open |-> {}]
    /\ sent = << >>
    /\ cards = << >> /\ cardId = -1 /\ pci = {}
    /\ gpioType = "unset"
    /\ boardDown = FALSE

-----------------------------------------------------------------------------
(* CIOControlSDK hands a setting on to its module, which hands it to the library *)
Handed(setting) == sent' = setting

(* Close and DestroyHandle of the library *)
HandleDestroyed(h) == io' = [s \in DOMAIN io |-> io[s] \ {h}]

-----------------------------------------------------------------------------
(* Serial ports *)

GetSerialComIndexByName(name) == SelectInSeq(ports, LAMBDA p : p.name = name)

(* A setting for a port is refused when it is not open *)
OnPort(name, setting) ==
    /\ GetSerialComIndexByName(name) # 0
    /\ Handed(setting)
    /\ UNCHANGED <<ports, io, cards, cardId, pci, gpioType, boardDown>>

(* Slip: a port that does not open keeps its handle *)
CloseOnly(h) == io' = [io EXCEPT !.live = @ \cup {h}]
(* Close and DestroyHandle of a port that does not open *)
DestroyUnopened(h) == UNCHANGED io

OpenSerial(name) ==
    /\ GetSerialComIndexByName(name) = 0
    /\ \E h \in PortHandles \ io.live :
        \/ /\ DestroyUnopened(h)
           /\ UNCHANGED ports
        \/ /\ io' = [live |-> io.live \cup {h}, open |-> io.open \cup {h}]
           /\ ports' = Append(ports, [name |-> name, handle |-> h])
    /\ UNCHANGED <<sent, cards, cardId, pci, gpioType, boardDown>>

CloseSerial(name) ==
    LET i == GetSerialComIndexByName(name)
    IN  /\ i # 0
        /\ HandleDestroyed(ports[i].handle)
        /\ ports' = RemoveAt(ports, i)
        /\ UNCHANGED <<sent, cards, cardId, pci, gpioType, boardDown>>

(* SaveParam and Reboot do nothing for a port that is open, and use the list at
   index -1 for one that is not: the library refuses what it finds there, or the
   process ends. *)
SaveOrReboot(name) ==
    /\ GetSerialComIndexByName(name) = 0
    /\ boardDown' = TRUE
    /\ UNCHANGED <<ports, io, sent, cards, cardId, pci, gpioType>>

Unsigned(t) == t % WordSize

(* What a caller passes as a type: MV_IO_PATTERN_SINGLE, MV_IO_PATTERN_PWM, or
   any other int *)
OutputTypes == {"single", "pwm", "other"}

(* Slip: times compared as the ints they came as *)
SignedCheckOutputParam(type, dur, period, width) ==
    CASE type = "single" -> dur <= MaxTime
      [] type = "pwm" ->
            /\ period <= MaxTime /\ width <= MaxTime /\ period # 0 /\ width # 0
            /\ ~(dur < period \/ dur < width \/ period < width)
            /\ Unsigned(dur) % Unsigned(period) = 0 \/ dur = MaxTime
      [] OTHER -> TRUE

(* A type it does not know is handed on unchecked: the second if has no else *)
CheckOutputParam(type, dur, period, width) ==
    LET d == Unsigned(dur)
        p == Unsigned(period)
        w == Unsigned(width)
    IN  CASE type = "single" -> d <= MaxTime
          [] type = "pwm" ->
                /\ p <= MaxTime /\ w <= MaxTime /\ p # 0 /\ w # 0
                /\ ~(d < p \/ d < w \/ p < w)
                /\ d % p = 0 \/ d = MaxTime
          [] OTHER -> TRUE

Outputs == {o \in OutputTypes \X Times \X Times \X Times :
                CheckOutputParam(o[1], o[2], o[3], o[4])}

IOBoard_SetOutput(name) == \E o \in Outputs : OnPort(name, o)

(* The int compared with 30000U is converted too, so a negative one is too long *)
SetLightParam(name) ==
    \E dur \in Times :
        OnPort(name, <<"light", IF Unsigned(dur) > MaxTime THEN MaxTime ELSE dur>>)

SetLightTrigger(name) == OnPort(name, <<"lightTrigger">>)
IOBoard_SetInput(name) == OnPort(name, <<"input">>)
IOBoard_SetOutputTrigger(name) == OnPort(name, <<"outputTrigger">>)
IOBoard_SetOutputEnable(name) == OnPort(name, <<"enable">>)
IOBoard_SetOutputDisable(name) == OnPort(name, <<"disable">>)

-----------------------------------------------------------------------------
(* PCIe cards *)

GetDeviceIDbyName(name) == SelectInSeq(cards, LAMBDA c : c.name = name) - 1

PCIe_OpenDevice(name, id) ==
    /\ Len(cards) < MaxCards
    /\ pci' = pci \cup {id}
    /\ cards' = Append(cards, [name |-> name, id |-> id])
    /\ UNCHANGED <<ports, io, sent, cardId, gpioType, boardDown>>

(* The place in the list is taken for the id of the card, and stays in the list *)
PCIe_CloseDevice(name) ==
    LET i == GetDeviceIDbyName(name)
    IN  /\ i # -1
        /\ cardId' = i
        /\ pci' = pci \ {i}
        /\ UNCHANGED <<ports, io, sent, cards, gpioType, boardDown>>

(* Writes go to m_CardID, whichever card was named, and a written bit is read *)
PCIe_WriteDeviceIO(name) ==
    /\ GetDeviceIDbyName(name) # -1
    /\ sent' = <<"card", cardId>>
    /\ UNCHANGED <<ports, io, cards, cardId, pci, gpioType, boardDown>>

-----------------------------------------------------------------------------
(* GPIO of the main board: the levels of a VT3000 are reversed, and until
   OpenGPIO is called m_GPIO_Type is whatever lay there *)

SetPnpEnable(type) == Handed(<<"pnp", type>>)

(* Only a VC2000 needs no driver; a VT3000 knows one mode *)
OpenGPIO(type) ==
    /\ gpioType' = type
    /\ CASE type = "VC2000" -> UNCHANGED sent
         [] type = "VT3000" -> SetPnpEnable("NPN")
         [] OTHER -> Handed(<<"driver">>)
    /\ UNCHANGED <<ports, io, cards, cardId, pci, boardDown>>

SelectPnp ==
    /\ \E type \in {"PNP", "NPN"} : SetPnpEnable(type)
    /\ UNCHANGED <<ports, io, cards, cardId, pci, gpioType, boardDown>>

Reversed(level) == CHOOSE l \in Levels : l # level

SetGPO(level) ==
    /\ \E type \in IF gpioType = "unset" THEN GpioTypes ELSE {gpioType} :
        Handed(<<"gpio", IF type = "VT3000" THEN Reversed(level) ELSE level>>)
    /\ UNCHANGED <<ports, io, cards, cardId, pci, gpioType, boardDown>>

OnSerial(name) ==
    \/ OpenSerial(name) \/ CloseSerial(name) \/ SaveOrReboot(name)
    \/ IOBoard_SetOutput(name) \/ SetLightParam(name) \/ SetLightTrigger(name)
    \/ IOBoard_SetInput(name) \/ IOBoard_SetOutputTrigger(name)
    \/ IOBoard_SetOutputEnable(name) \/ IOBoard_SetOutputDisable(name)

OnCard(name) ==
    \/ PCIe_CloseDevice(name) \/ PCIe_WriteDeviceIO(name)
    \/ \E id \in CardIds : PCIe_OpenDevice(name, id)

OnMainBoard ==
    \/ SelectPnp
    \/ \E type \in GpioTypes : OpenGPIO(type)
    \/ \E level \in Levels : SetGPO(level)

(* COperation hands on what a program calls *)
BoardNext ==
    /\ ~boardDown
    /\ \/ \E name \in PortNames : OnSerial(name)
       \/ \E name \in CardNames : OnCard(name)
       \/ OnMainBoard

BoardSpec == BoardInit /\ [][BoardNext]_boardVars

-----------------------------------------------------------------------------
BoardTypeOK ==
    /\ ports \in Seq([name : PortNames, handle : PortHandles])
    /\ io \in [live : SUBSET PortHandles, open : SUBSET PortHandles]
    /\ cards \in Seq([name : CardNames, id : CardIds]) /\ Len(cards) <= MaxCards
    /\ cardId \in {-1} \cup 0 .. Len(cards) - 1
    /\ pci \subseteq CardIds
    /\ gpioType \in GpioTypes \cup {"unset"}
    /\ sent = << >> \/ sent[1] \in
        {"light", "single", "pwm", "other", "lightTrigger", "input", "outputTrigger", "enable",
         "disable", "card", "pnp", "driver", "gpio"}
    /\ boardDown \in BOOLEAN

(* OpenSerial and CloseSerial keep the list of ports and the handles of the
   library in step: a handle lives and is open exactly when a port of the list
   has it, no two ports share one, and no name is open twice. *)
PortsAccounted ==
    /\ io.live = {ports[i].handle : i \in DOMAIN ports}
    /\ io.open = io.live
    /\ \A i, j \in DOMAIN ports :
        i # j => ports[i].name # ports[j].name /\ ports[i].handle # ports[j].handle

(* Whatever ints a caller passes as times, a light or a single pulse asked of a
   board lasts at most MaxTime, and pulses are no wider than their period. What
   is asked for under any other type of output is not checked by the code. *)
CheckedOutputPossible ==
    sent # << >> =>
        CASE sent[1] \in {"light", "single"} -> sent[2] \in 0 .. MaxTime
          [] sent[1] = "pwm" -> 1 <= sent[4] /\ sent[4] <= sent[3] /\ sent[3] <= MaxTime
          [] OTHER -> TRUE
=============================================================================
