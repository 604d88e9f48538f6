------------------------------ MODULE ServerConfig -----------------------------
(***************************************************************************)
(* BuildServerConfigurationFromArgs (STUNsvc/server/main.cpp): from the    *)
(* options of the command line, or of an entry of the configuration file,  *)
(* to a server's configuration.                                            *)
(*                                                                         *)
(* Options are normalised (trimmed, in lower case).  Numbers stand for     *)
(* themselves; Empty is an option not given, NotANumber one that is not a  *)
(* number.  "bad" is a text the option does not allow.                     *)
(***************************************************************************)
EXTENDS Integers, FiniteSets

CONSTANTS
  Adapters,     \* the host's network adapters, each with an address of both families
  BestAdapter,  \* the one it picks: by primary or alternate, and by family
  Any           \* INADDR_ANY

ASSUME AdaptersAssumption == Adapters \cap {Any, "", "bad"} = {}
ASSUME BestAdapterAssumption ==
  Adapters # {} => BestAdapter \in [BOOLEAN \X {"4", "6"} -> Adapters]

Empty == -1
NotANumber == -2

Args == [mode : {"", "basic", "full", "bad"},
         family : {"", "4", "6", "bad"},
         protocol : {"", "udp", "tcp", "bad"},
         maxconn : Int, primaryport : Int, altport : Int,
         primaryinterface : Adapters \cup {"", "bad"},
         altinterface : Adapters \cup {"", "bad"},
         primaryadvertised : {"", "valid", "bad"},
         altadvertised : {"", "valid", "bad"},
         reuseaddr : BOOLEAN]

RolePP == 0
RolePA == 1
RoleAP == 2
RoleAA == 3

DEFAULT_STUN_PORT == 3478

(* StringHelper::ValidateNumberString(str, min, max, &number) *)
ValidNumber(str, min, max) == str \in min .. max

(* An option with a default, as a number. *)
Number(str, default) == IF str = Empty THEN default ELSE str

-----------------------------------------------------------------------------
Basic(args) == args.mode \in {"", "basic"}
Full(args) == args.mode = "full"
IsTCP(args) == args.protocol = "tcp"

Family(args) == IF args.family = "6" THEN "6" ELSE "4"

PrimaryPort(args) == Number(args.primaryport, DEFAULT_STUN_PORT)
AltPort(args) == Number(args.altport, DEFAULT_STUN_PORT + 1)

OptionsValid(args) ==
  /\ Basic(args) \/ Full(args)
  /\ args.family \in {"", "4", "6"}
  /\ args.protocol \in {"", "udp", "tcp"}

(* Without TCP the option is ignored. *)
MaxConnectionsValid(args) ==
  args.maxconn = Empty \/ ~IsTCP(args) \/ ValidNumber(args.maxconn, 1, 100000)

nMaxConnections(args) == IF IsTCP(args) THEN Number(args.maxconn, 0) ELSE 0

(* Mutant: the ports may be equal. *)
BuggyPortsValid(args) ==
  /\ ValidNumber(PrimaryPort(args), 1, 65535)
  /\ ValidNumber(AltPort(args), 1, 65535)

PortsValid(args) ==
  /\ ValidNumber(PrimaryPort(args), 1, 65535)
  /\ ValidNumber(AltPort(args), 1, 65535)
  /\ PrimaryPort(args) # AltPort(args)

(* (uint16_t)((int16_t)port) *)
Int16(n) == LET m == n % 65536 IN IF m < 32768 THEN m ELSE m - 65536
Port(n) == Int16(n) % 65536

-----------------------------------------------------------------------------
(* Addresses.                                                              *)

(* The address an interface option stands for; none if it fails.           *)
(* GetBestAddressForSocketBind does not look at the other option.          *)
ResolveAdapterName(fPrimary, family, name) ==
  IF name = "" THEN {BestAdapter[fPrimary, family]} ELSE {name} \cap Adapters

HasAtLeastTwoAdapters == Cardinality(Adapters) >= 2

(* Basic mode: one address; without an interface, all of them. *)
BasicAddresses(args) ==
  LET ips == IF args.primaryinterface = "" THEN {Any}
             ELSE {args.primaryinterface} \cap Adapters
  IN  {[r \in {RolePP} |-> <<ip, Port(PrimaryPort(args))>>] : ip \in ips}

(* The primary and the alternate address.  It fails if they are the same,  *)
(* also when one of them, or both, are the host's pick.                    *)
InterfacePairs(args) ==
  {p \in ResolveAdapterName(TRUE, Family(args), args.primaryinterface)
          \X ResolveAdapterName(FALSE, Family(args), args.altinterface) : p[1] # p[2]}

(* Full mode: two addresses by two ports. *)
FullAddresses(args) ==
  IF ~HasAtLeastTwoAdapters THEN {}
  ELSE {[r \in {RolePP, RolePA, RoleAP, RoleAA} |->
           << IF r \in {RolePP, RolePA} THEN p[1] ELSE p[2],
              Port(IF r \in {RolePP, RoleAP} THEN PrimaryPort(args) ELSE AltPort(args)) >>] :
          p \in InterfacePairs(args)}

Addresses(args) == IF Basic(args) THEN BasicAddresses(args) ELSE FullAddresses(args)

(* --altadvertised without full mode is an error only if config.fHasAA.    *)
AdvertisedValid(args, addr) ==
  /\ args.primaryadvertised # "bad"
  /\ args.altadvertised # "" =>
       /\ ~(~Full(args) /\ RoleAA \in DOMAIN addr)
       /\ args.altadvertised # "bad"

(* The configuration it returns, as a set of at most one: none if it fails. *)
(* family is that of every address of the configuration.                   *)
BuildServerConfigurationFromArgs(args) ==
  IF ~(OptionsValid(args) /\ MaxConnectionsValid(args) /\ PortsValid(args)) THEN {}
  ELSE {[fTCP |-> IsTCP(args), nMaxConnections |-> nMaxConnections(args),
         family |-> Family(args), addr |-> addr, fReuseAddr |-> args.reuseaddr] :
          addr \in {a \in Addresses(args) : AdvertisedValid(args, a)}}

(* CTCPStunThread::Init: what it makes of nMaxConnections, and refuses. *)
MaxConnections(config) == IF config.nMaxConnections > 0 THEN config.nMaxConnections ELSE 1000
InitAccepts(config) == MaxConnections(config) < 100000
=============================================================================
