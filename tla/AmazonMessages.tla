---------------------------- MODULE AmazonMessages ----------------------------
(***************************************************************************)
(* The messages between the UPS server and Amazon: the classes of          *)
(* ups_amazon.pb.h and ups_amazon.pb.cc.  For each, what its accessors give*)
(* out: a has-bit and a value of some kind for each of its fields; the field*)
(* each tag leads _InternalParse to; the numbers and fields that           *)
(* _InternalSerialize and ByteSizeLong go through, in their order, with the*)
(* has-bits they require.                                                  *)
(***************************************************************************)
EXTENDS MessageFields

AProduct == [id |-> "int64", description |-> "string", count |-> "int32"]
AProductReads == (8 :> "id") @@ (18 :> "description") @@ (24 :> "count")
AProductWrites == <<Required(1, "id"), Required(2, "description"), Required(3, "count")>>

UAinitWorld == [worldID |-> "int64"]
UAinitWorldReads == (8 :> "worldID")
UAinitWorldWrites == <<Required(1, "worldID")>>

AUconnectedWorld == [success |-> "bool"]
AUconnectedWorldReads == (8 :> "success")
AUconnectedWorldWrites == <<Required(1, "success")>>

AUbindUPS == [ownerID |-> "int32", upsID |-> "int32", seqNum |-> "int64"]
AUbindUPSReads == (8 :> "ownerID") @@ (16 :> "upsID") @@ (24 :> "seqNum")
AUbindUPSWrites == <<Required(1, "ownerID"), Required(2, "upsID"), Required(3, "seqNum")>>

UAbindUPSResponse == [status |-> "bool", ownerID |-> "int32", upsID |-> "int32",
    seqNum |-> "int64"]
UAbindUPSResponseReads == (8 :> "status") @@ (16 :> "ownerID") @@ (24 :> "upsID") @@
    (32 :> "seqNum")
UAbindUPSResponseWrites == <<Required(1, "status"), Required(2, "ownerID"), Required(3, "upsID"),
    Required(4, "seqNum")>>

AUreqPickup == [whID |-> "int32", destinationX |-> "int32", destinationY |-> "int32",
    shipID |-> "int64", upsID |-> "int32", products |-> "AProduct", seqNum |-> "int64"]
AUreqPickupReads == (8 :> "whID") @@ (16 :> "destinationX") @@ (24 :> "destinationY") @@
    (32 :> "shipID") @@ (40 :> "upsID") @@ (50 :> "products") @@ (56 :> "seqNum")
AUreqPickupWrites == <<Required(1, "whID"), Required(2, "destinationX"),
    Required(3, "destinationY"), Required(4, "shipID"), Optional(5, "upsID"),
    Repeated(6, "products"), Required(7, "seqNum")>>

UAtruckArrived == [whID |-> "int32", shipID |-> "int64", truckID |-> "int32", seqNum |-> "int64"]
UAtruckArrivedReads == (8 :> "whID") @@ (16 :> "shipID") @@ (24 :> "truckID") @@ (32 :> "seqNum")
UAtruckArrivedWrites == <<Required(1, "whID"), Required(2, "shipID"), Required(3, "truckID"),
    Required(4, "seqNum")>>

AUreqDelivery == [shipID |-> "int64", seqNum |-> "int64"]
AUreqDeliveryReads == (8 :> "shipID") @@ (16 :> "seqNum")
AUreqDeliveryWrites == <<Required(1, "shipID"), Required(2, "seqNum")>>

UAdelivered == [shipID |-> "int64", seqNum |-> "int64"]
UAdeliveredReads == (8 :> "shipID") @@ (16 :> "seqNum")
UAdeliveredWrites == <<Required(1, "shipID"), Required(2, "seqNum")>>

AUchangeDestn == [shipID |-> "int64", destinationX |-> "int32", destinationY |-> "int32",
    seqNum |-> "int64"]
AUchangeDestnReads == (8 :> "shipID") @@ (16 :> "destinationX") @@ (24 :> "destinationY") @@
    (32 :> "seqNum")
AUchangeDestnWrites == <<Required(1, "shipID"), Required(2, "destinationX"),
    Required(3, "destinationY"), Required(4, "seqNum")>>

UAchangeResp == [success |-> "bool", acks |-> "int64"]
UAchangeRespReads == (8 :> "success") @@ (16 :> "acks")
UAchangeRespWrites == <<Required(1, "success"), Required(2, "acks")>>

Err == [err |-> "string", originseqnum |-> "int64", seqnum |-> "int64"]
ErrReads == (10 :> "err") @@ (16 :> "originseqnum") @@ (24 :> "seqnum")
ErrWrites == <<Required(1, "err"), Required(2, "originseqnum"), Required(3, "seqnum")>>

UAcommands == [truckArr |-> "UAtruckArrived", delivered |-> "UAdelivered",
    changeResp |-> "UAchangeResp", bindUPSResponse |-> "UAbindUPSResponse", err |-> "Err",
    disconnect |-> "bool", acks |-> "int64"]
UAcommandsReads == (10 :> "truckArr") @@ (18 :> "delivered") @@ (26 :> "changeResp") @@
    (34 :> "bindUPSResponse") @@ (42 :> "err") @@ (48 :> "disconnect") @@ (56 :> "acks") @@
    (58 :> "acks")
UAcommandsWrites == <<Repeated(1, "truckArr"), Repeated(2, "delivered"),
    Repeated(3, "changeResp"), Repeated(4, "bindUPSResponse"), Repeated(5, "err"),
    Optional(6, "disconnect"), Repeated(7, "acks")>>

AUcommands == [pickup |-> "AUreqPickup", delivery |-> "AUreqDelivery",
    changeDest |-> "AUchangeDestn", bindUPS |-> "AUbindUPS", err |-> "Err", disconnect |-> "bool",
    acks |-> "int64"]
AUcommandsReads == (10 :> "pickup") @@ (18 :> "delivery") @@ (26 :> "changeDest") @@
    (34 :> "bindUPS") @@ (42 :> "err") @@ (48 :> "disconnect") @@ (56 :> "acks") @@ (58 :> "acks")
AUcommandsWrites == <<Repeated(1, "pickup"), Repeated(2, "delivery"), Repeated(3, "changeDest"),
    Repeated(4, "bindUPS"), Repeated(5, "err"), Optional(6, "disconnect"), Repeated(7, "acks")>>

AmazonKinds == [AProduct |-> AProduct, UAinitWorld |-> UAinitWorld,
    AUconnectedWorld |-> AUconnectedWorld, AUbindUPS |-> AUbindUPS,
    UAbindUPSResponse |-> UAbindUPSResponse, AUreqPickup |-> AUreqPickup,
    UAtruckArrived |-> UAtruckArrived, AUreqDelivery |-> AUreqDelivery,
    UAdelivered |-> UAdelivered, AUchangeDestn |-> AUchangeDestn, UAchangeResp |-> UAchangeResp,
    Err |-> Err, UAcommands |-> UAcommands, AUcommands |-> AUcommands]
AmazonReads == [AProduct |-> AProductReads, UAinitWorld |-> UAinitWorldReads,
    AUconnectedWorld |-> AUconnectedWorldReads, AUbindUPS |-> AUbindUPSReads,
    UAbindUPSResponse |-> UAbindUPSResponseReads, AUreqPickup |-> AUreqPickupReads,
    UAtruckArrived |-> UAtruckArrivedReads, AUreqDelivery |-> AUreqDeliveryReads,
    UAdelivered |-> UAdeliveredReads, AUchangeDestn |-> AUchangeDestnReads,
    UAchangeResp |-> UAchangeRespReads, Err |-> ErrReads, UAcommands |-> UAcommandsReads,
    AUcommands |-> AUcommandsReads]
AmazonWrites == [AProduct |-> AProductWrites, UAinitWorld |-> UAinitWorldWrites,
    AUconnectedWorld |-> AUconnectedWorldWrites, AUbindUPS |-> AUbindUPSWrites,
    UAbindUPSResponse |-> UAbindUPSResponseWrites, AUreqPickup |-> AUreqPickupWrites,
    UAtruckArrived |-> UAtruckArrivedWrites, AUreqDelivery |-> AUreqDeliveryWrites,
    UAdelivered |-> UAdeliveredWrites, AUchangeDestn |-> AUchangeDestnWrites,
    UAchangeResp |-> UAchangeRespWrites, Err |-> ErrWrites, UAcommands |-> UAcommandsWrites,
    AUcommands |-> AUcommandsWrites]
=============================================================================
