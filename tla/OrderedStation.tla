--------------------------- MODULE OrderedStation ----------------------------
(***************************************************************************)
(* OrderedInterface in front of any driver that keeps the contract of      *)
(* NativeStation.                                                          *)
(***************************************************************************)
EXTENDS OrderedInterface, NativeStation

(* The adapter passes on what its driver answers and adds NotFound, the    *)
(* answer to a connection that is not prepared; no driver answers          *)
(* Cancelled, which only the adapter itself says.                          *)
ASSUME ErrorsAssumption ==
  NativeErrors \cup {"NotFound"} \subseteq AdapterErrors \ {"Cancelled"}

Init == AdapterInit /\ native = NewNative

Api ==
  \/ Begin(Attached)
  \/ Shutdown(NewNative)
  \/ \E enabled \in BOOLEAN : SetEnabled(enabled, Enables(native, enabled))
  \/ StartScan(Scans(native))
  \/ \E network \in Networks : Connect(network, Disconnects(native))
  \/ Disconnect(Disconnects(native))
  \/ CancelScan(StopsScan(native))
  \/ CancelConnect(Disconnects(native))

Station == Posts /\ UNCHANGED <<adapter, client, radio>>

Dispatch ==
  \/ Drain
  \/ DrainEvent(ContinuesConnect(native))
  \/ DrainOverflow
  \/ DrainEnds(Connects(native, adapter.config, adapter.credentials))
  \/ Deliver

Next == Api \/ Station \/ Dispatch

Spec == Init /\ [][Next]_vars

-----------------------------------------------------------------------------
(* Properties *)

(* The adapter, its queue, the client and the boundary keep their types    *)
(* and so does the driver, and the queue never grows beyond the array that *)
(* holds it, however many events are posted.                               *)
TypeOK == AdapterTypeOK /\ native \in Natives

(* The driver is never asked to connect without the credentials that came  *)
(* with the configuration.                                                 *)
AttemptHasCredentials == native.secret = native.ssid

=============================================================================
