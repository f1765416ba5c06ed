-------------------------------- MODULE Parts -------------------------------
(***************************************************************************)
(* The smaller parts of the library: media conversion, frame decoding,     *)
(* request preparation, the Busy service, the remote client's ownership of *)
(* its stream, the delivery of MQTT messages and the firmware contract     *)
(* check.  They share no state with each other, so a behaviour is one of   *)
(* them at work.                                                           *)
(***************************************************************************)
EXTENDS Animation, FrameDecoding, ImageFitting, AudioConversion, RequestPreparation, BusyTimer,
        RemoteClient, PahoDelivery, ContractCheck

callVars == <<animationVars, frameVars, imageVars, audioVars, requestVars>>
vars == <<callVars, busyVars, clientVars, deliveryVars, contractVars>>

CallsIdle == AnimationIdle /\ FrameIdle /\ ImageIdle /\ AudioIdle /\ RequestIdle

Init ==
  \/ AnimationInit /\ FrameIdle /\ ImageIdle /\ AudioIdle /\ RequestIdle
       /\ BusyIdle /\ ClientIdle /\ DeliveryIdle /\ ContractIdle
  \/ AnimationIdle /\ FrameInit /\ ImageIdle /\ AudioIdle /\ RequestIdle
       /\ BusyIdle /\ ClientIdle /\ DeliveryIdle /\ ContractIdle
  \/ AnimationIdle /\ FrameIdle /\ ImageInit /\ AudioIdle /\ RequestIdle
       /\ BusyIdle /\ ClientIdle /\ DeliveryIdle /\ ContractIdle
  \/ AnimationIdle /\ FrameIdle /\ ImageIdle /\ AudioInit /\ RequestIdle
       /\ BusyIdle /\ ClientIdle /\ DeliveryIdle /\ ContractIdle
  \/ AnimationIdle /\ FrameIdle /\ ImageIdle /\ AudioIdle /\ RequestInit
       /\ BusyIdle /\ ClientIdle /\ DeliveryIdle /\ ContractIdle
  \/ CallsIdle /\ BusyInit /\ ClientIdle /\ DeliveryIdle /\ ContractIdle
  \/ CallsIdle /\ BusyIdle /\ ClientInit /\ DeliveryIdle /\ ContractIdle
  \/ CallsIdle /\ BusyIdle /\ ClientIdle /\ DeliveryInit /\ ContractIdle
  \/ CallsIdle /\ BusyIdle /\ ClientIdle /\ DeliveryIdle /\ ContractInit

CallNext ==
  \/ AnimationNext /\ UNCHANGED <<frameVars, imageVars, audioVars, requestVars>>
  \/ FrameNext /\ UNCHANGED <<animationVars, imageVars, audioVars, requestVars>>
  \/ ImageNext /\ UNCHANGED <<animationVars, frameVars, audioVars, requestVars>>
  \/ AudioNext /\ UNCHANGED <<animationVars, frameVars, imageVars, requestVars>>
  \/ RequestNext /\ UNCHANGED <<animationVars, frameVars, imageVars, audioVars>>
Next ==
  \/ CallNext /\ UNCHANGED <<busyVars, clientVars, deliveryVars, contractVars>>
  \/ BusyNext /\ UNCHANGED <<callVars, clientVars, deliveryVars, contractVars>>
  \/ ClientNext /\ UNCHANGED <<callVars, busyVars, deliveryVars, contractVars>>
  \/ DeliveryNext /\ UNCHANGED <<callVars, busyVars, clientVars, contractVars>>
  \/ ContractNext /\ UNCHANGED <<callVars, busyVars, clientVars, deliveryVars>>

Spec == Init /\ [][Next]_vars
=============================================================================
