------------------------------ MODULE MCStation ------------------------------
(***************************************************************************)
(* The components of the station that share no state with one another, in  *)
(* one run: a behaviour is one component's, chosen at the start, and the   *)
(* others rest in their initial states.                                    *)
(***************************************************************************)
EXTENDS Camera, IOBoard, Database, ServiceControl, ModbusClient, ImageQueue, FunctionList

VARIABLE part    \* the component this behaviour is about

stationVars ==
    <<part, camVars, boardVars, dbVars, svcVars, modVars, imgVars, funVars>>

Parts == {"camera", "board", "database", "service", "modbus", "images", "functions"}

StationInit ==
    /\ part \in Parts
    /\ CamInit /\ BoardInit /\ DbInit /\ SvcInit /\ ModInit /\ ImgInit /\ FunInit

StationNext ==
    /\ UNCHANGED part
    /\ \/ part = "camera" /\ CamNext
       \/ part # "camera" /\ UNCHANGED camVars
    /\ \/ part = "board" /\ BoardNext
       \/ part # "board" /\ UNCHANGED boardVars
    /\ \/ part = "database" /\ DbNext
       \/ part # "database" /\ UNCHANGED dbVars
    /\ \/ part = "service" /\ SvcNext
       \/ part # "service" /\ UNCHANGED svcVars
    /\ \/ part = "modbus" /\ ModNext
       \/ part # "modbus" /\ UNCHANGED modVars
    /\ \/ part = "images" /\ ImgNext
       \/ part # "images" /\ UNCHANGED imgVars
    /\ \/ part = "functions" /\ FunNext
       \/ part # "functions" /\ UNCHANGED funVars

StationSpec ==
    /\ StationInit /\ [][StationNext]_stationVars
    /\ WF_camVars(part = "camera" /\ (Reopen \/ Restart))
    /\ WF_svcVars(part = "service" /\ MainThread)
    /\ WF_svcVars(part = "service" /\ ServiceThread)

(* The types of every component *)
StationTypeOK ==
    /\ part \in Parts
    /\ CamTypeOK /\ BoardTypeOK /\ DbTypeOK /\ SvcTypeOK
    /\ ModTypeOK /\ ImgTypeOK /\ FunTypeOK

(* Frames of two pixels, functions named by numbers *)
Raw == <<1, 2, 3, 4, 5, 6>>
Bgr == <<3, 2, 1, 6, 5, 4>>
SmallTimes == {-2, 0, 1, 2, 3}
Function(name, n) == [name |-> name, nums |-> <<n, n + 1, 0, 1>>]
SmallFunctions ==
    {Function(10, 0), Function(10, 3), Function(11, 1), Function(12, 2), Function(13, 3)}
=============================================================================
