-------------------------- MODULE InterfaceContract --------------------------
(***************************************************************************)
(* The contract of roo_wifi::Interface (hal/interface.h) as the controller *)
(* relies on it: one adapter seen from its boundary.  radio holds the      *)
(* commands the adapter has admitted and not completed, and the link and   *)
(* the enablement it last reported.                                        *)
(*                                                                         *)
(* A command that is admitted gets at most one deferred completion, a      *)
(* rejected one none; the link changes under the identity of the connect   *)
(* that established it.  The contract owes no answer at all: a controller  *)
(* must live with an adapter that stays silent.                            *)
(*                                                                         *)
(* Controller.tla runs against this contract, OrderedInterface.tla with a  *)
(* driver is shown to implement it.                                        *)
(***************************************************************************)
EXTENDS WifiTypes, Naturals

CONSTANT
  AdapterErrors        \* what the adapter may answer besides Ok

ASSUME AdapterErrorsAssumption == AdapterErrors \subseteq Status \ {"Ok"}

VARIABLE radio

NoLink == [id |-> 0, phase |-> "Idle"]

NoCommand == [id |-> 0, kind |-> "None", enabled |-> FALSE, cancel |-> FALSE]

NewRadio == [attached |-> FALSE, dead |-> FALSE, station |-> NoCommand,
             scan |-> NoCommand, link |-> NoLink, enabled |-> FALSE]

Commands == [id : Nat, kind : Transition \cup {"Scan"}, enabled : BOOLEAN,
             cancel : BOOLEAN]

Radios == [attached : BOOLEAN, dead : BOOLEAN, station : Commands,
           scan : Commands, link : [id : Nat, phase : LinkPhase],
           enabled : BOOLEAN]

(* What a command may be answered; a faulted adapter admits none. *)
Answers == IF radio.dead THEN {"NotStarted"} ELSE {"Ok"} \cup AdapterErrors

(* A link comes up only for an admitted connect, and neither starts nor    *)
(* gets an address while it is being torn down.                            *)
TearingDown == radio.station.kind = "Disconnect" \/ radio.station.cancel

NextPhase(phase) ==
  CASE phase = "Connecting"   -> {"Associated", "Idle"}
    [] phase = "Associated"   -> {"AddressReady", "Idle"}
    [] phase = "AddressReady" -> {"AddressReady", "Associated", "Idle"}
    [] phase = "Idle"         -> {"Idle"}

NextLinks ==
  {[radio.link EXCEPT !.phase = phase] :
     phase \in {p \in NextPhase(radio.link.phase) :
                  p = "AddressReady" => ~TearingDown}}
  \cup
  {link \in {[id |-> radio.station.id, phase |-> "Connecting"]} :
     /\ radio.link.phase = "Idle"
     /\ radio.station.kind = "Connect" /\ ~TearingDown}

(* The outcomes the contract allows for the admitted station command:      *)
(* success only once the physical state is reached and not of a cancelled  *)
(* command, no other outcome of a connect before its native teardown.      *)
StationResults ==
  LET cmd == radio.station
      reached == CASE cmd.kind = "Enable" -> radio.enabled = cmd.enabled
                   [] cmd.kind = "Connect" ->
                        radio.link = [id |-> cmd.id, phase |-> "AddressReady"]
                   [] cmd.kind = "Disconnect" -> radio.link.phase = "Idle"
                   [] OTHER -> FALSE
  IN  {st \in {"Ok", "Cancelled", "ConnectionFailed"} \cup AdapterErrors :
         /\ st = "Ok" => reached /\ ~cmd.cancel
         /\ st # "Ok" /\ cmd.kind = "Connect" => radio.link.phase = "Idle"
         /\ st = "Cancelled" => cmd.cancel
         /\ st = "ConnectionFailed" => \/ cmd.kind = "Connect"
                                       \/ st \in AdapterErrors}

(* A scan that was not cancelled is not reported as cancelled. *)
ScanResults ==
  {st \in {"Ok", "Cancelled", "ConnectionFailed"} \cup AdapterErrors :
     st = "Cancelled" => radio.scan.cancel}

(* How a faulted adapter settles a command. *)
FaultResult(cmd) == IF cmd.cancel THEN "Cancelled" ELSE "ConnectionFailed"

-----------------------------------------------------------------------------
(* The contract on its own, as a specification of the boundary *)

Idle == radio.station = NoCommand /\ radio.scan = NoCommand

Alive == radio.attached /\ ~radio.dead

Attaches == ~radio.attached /\ radio' = [radio EXCEPT !.attached = TRUE]

Detaches == radio' = NewRadio

(* Admission: one command at a time, with a nonzero identity, and a        *)
(* connect or scan only of an enabled radio.                               *)
AdmitsStation ==
  /\ Alive /\ Idle
  /\ radio'.station \in Commands
  /\ radio'.station.id # 0 /\ ~radio'.station.cancel
  /\ radio'.station.kind = "Connect" => radio.enabled
  /\ radio' = [radio EXCEPT !.station = radio'.station]

AdmitsScan ==
  /\ Alive /\ Idle /\ radio.enabled
  /\ radio'.scan \in Commands
  /\ radio'.scan.id # 0 /\ ~radio'.scan.cancel
  /\ radio' = [radio EXCEPT !.scan = radio'.scan]

(* Cancellation completes the original operation. *)
AdmitsCancel ==
  \/ /\ radio.station.kind = "Connect"
     /\ radio' = [radio EXCEPT !.station.cancel = TRUE]
  \/ /\ radio.scan.id # 0
     /\ radio' = [radio EXCEPT !.scan.cancel = TRUE]

ReportsLink ==
  Alive /\ \E link \in NextLinks : radio' = [radio EXCEPT !.link = link]

ReportsEnabled ==
  Alive /\ \E enabled \in BOOLEAN : radio' = [radio EXCEPT !.enabled = enabled]

CompletesStation ==
  /\ radio.attached /\ radio.station.id # 0
  /\ radio.dead \/ StationResults # {}
  /\ radio' = [radio EXCEPT !.station = NoCommand]

CompletesScan ==
  /\ radio.attached /\ radio.scan.id # 0
  /\ radio' = [radio EXCEPT !.scan = NoCommand]

Dies == Alive /\ radio' = [radio EXCEPT !.dead = TRUE]

ContractNext ==
  \/ Attaches \/ Detaches \/ AdmitsStation \/ AdmitsScan \/ AdmitsCancel
  \/ ReportsLink \/ ReportsEnabled \/ CompletesStation \/ CompletesScan
  \/ Dies

(* An adapter keeps the contract: it admits one command at a time and only *)
(* what it can start, reports the link under the identity of the connect   *)
(* it belongs to and in the order a link comes up, gives no address to a   *)
(* link being torn down, completes a command once and only in a state in   *)
(* which some outcome is allowed, and is silent once it has faulted.       *)
ContractSpec == radio = NewRadio /\ [][ContractNext]_radio

=============================================================================
