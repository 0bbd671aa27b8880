---------------------------- MODULE WorldMessages ----------------------------
(***************************************************************************)
(* The messages between the UPS server and the world: the classes of       *)
(* world_ups.pb.h and world_ups.pb.cc.  For each, what its accessors give  *)
(* out: a has-bit and a value of some kind for each of its fields; the field*)
(* each tag leads _InternalParse to; the numbers and fields that           *)
(* _InternalSerialize and ByteSizeLong go through, in their order, with the*)
(* has-bits they require.                                                  *)
(***************************************************************************)
EXTENDS MessageFields

UInitTruck == [id |-> "int32", x |-> "int32", y |-> "int32"]
UInitTruckReads == (8 :> "id") @@ (16 :> "x") @@ (24 :> "y")
UInitTruckWrites == <<Required(1, "id"), Required(2, "x"), Required(3, "y")>>

UConnect == [worldid |-> "int64", trucks |-> "UInitTruck", isAmazon |-> "bool"]
UConnectReads == (8 :> "worldid") @@ (18 :> "trucks") @@ (24 :> "isAmazon")
UConnectWrites == <<Optional(1, "worldid"), Repeated(2, "trucks"), Required(3, "isAmazon")>>

UConnected == [worldid |-> "int64", result |-> "string"]
UConnectedReads == (8 :> "worldid") @@ (18 :> "result")
UConnectedWrites == <<Required(1, "worldid"), Required(2, "result")>>

UGoPickup == [truckid |-> "int32", whid |-> "int32", seqnum |-> "int64"]
UGoPickupReads == (8 :> "truckid") @@ (16 :> "whid") @@ (24 :> "seqnum")
UGoPickupWrites == <<Required(1, "truckid"), Required(2, "whid"), Required(3, "seqnum")>>

UFinished == [truckid |-> "int32", x |-> "int32", y |-> "int32", status |-> "string",
    seqnum |-> "int64"]
UFinishedReads == (8 :> "truckid") @@ (16 :> "x") @@ (24 :> "y") @@ (34 :> "status") @@
    (40 :> "seqnum")
UFinishedWrites == <<Required(1, "truckid"), Required(2, "x"), Required(3, "y"),
    Required(4, "status"), Required(5, "seqnum")>>

UDeliveryMade == [truckid |-> "int32", packageid |-> "int64", seqnum |-> "int64"]
UDeliveryMadeReads == (8 :> "truckid") @@ (16 :> "packageid") @@ (24 :> "seqnum")
UDeliveryMadeWrites == <<Required(1, "truckid"), Required(2, "packageid"), Required(3, "seqnum")>>

UDeliveryLocation == [packageid |-> "int64", x |-> "int32", y |-> "int32"]
UDeliveryLocationReads == (8 :> "packageid") @@ (16 :> "x") @@ (24 :> "y")
UDeliveryLocationWrites == <<Required(1, "packageid"), Required(2, "x"), Required(3, "y")>>

UGoDeliver == [truckid |-> "int32", packages |-> "UDeliveryLocation", seqnum |-> "int64"]
UGoDeliverReads == (8 :> "truckid") @@ (18 :> "packages") @@ (24 :> "seqnum")
UGoDeliverWrites == <<Required(1, "truckid"), Repeated(2, "packages"), Required(3, "seqnum")>>

UErr == [err |-> "string", originseqnum |-> "int64", seqnum |-> "int64"]
UErrReads == (10 :> "err") @@ (16 :> "originseqnum") @@ (24 :> "seqnum")
UErrWrites == <<Required(1, "err"), Required(2, "originseqnum"), Required(3, "seqnum")>>

UQuery == [truckid |-> "int32", seqnum |-> "int64"]
UQueryReads == (8 :> "truckid") @@ (16 :> "seqnum")
UQueryWrites == <<Required(1, "truckid"), Required(2, "seqnum")>>

UTruck == [truckid |-> "int32", status |-> "string", x |-> "int32", y |-> "int32",
    seqnum |-> "int64"]
UTruckReads == (8 :> "truckid") @@ (18 :> "status") @@ (24 :> "x") @@ (32 :> "y") @@
    (40 :> "seqnum")
UTruckWrites == <<Required(1, "truckid"), Required(2, "status"), Required(3, "x"),
    Required(4, "y"), Required(5, "seqnum")>>

UCommands == [pickups |-> "UGoPickup", deliveries |-> "UGoDeliver", simspeed |-> "uint32",
    disconnect |-> "bool", queries |-> "UQuery", acks |-> "int64"]
UCommandsReads == (10 :> "pickups") @@ (18 :> "deliveries") @@ (24 :> "simspeed") @@
    (32 :> "disconnect") @@ (42 :> "queries") @@ (48 :> "acks") @@ (50 :> "acks")
UCommandsWrites == <<Repeated(1, "pickups"), Repeated(2, "deliveries"), Optional(3, "simspeed"),
    Optional(4, "disconnect"), Repeated(5, "queries"), Repeated(6, "acks")>>

UResponses == [completions |-> "UFinished", delivered |-> "UDeliveryMade", finished |-> "bool",
    acks |-> "int64", truckstatus |-> "UTruck", error |-> "UErr"]
UResponsesReads == (10 :> "completions") @@ (18 :> "delivered") @@ (24 :> "finished") @@
    (32 :> "acks") @@ (34 :> "acks") @@ (42 :> "truckstatus") @@ (50 :> "error")
UResponsesWrites == <<Repeated(1, "completions"), Repeated(2, "delivered"),
    Optional(3, "finished"), Repeated(4, "acks"), Repeated(5, "truckstatus"),
    Repeated(6, "error")>>

WorldKinds == [UInitTruck |-> UInitTruck, UConnect |-> UConnect, UConnected |-> UConnected,
    UGoPickup |-> UGoPickup, UFinished |-> UFinished, UDeliveryMade |-> UDeliveryMade,
    UDeliveryLocation |-> UDeliveryLocation, UGoDeliver |-> UGoDeliver, UErr |-> UErr,
    UQuery |-> UQuery, UTruck |-> UTruck, UCommands |-> UCommands, UResponses |-> UResponses]
WorldReads == [UInitTruck |-> UInitTruckReads, UConnect |-> UConnectReads,
    UConnected |-> UConnectedReads, UGoPickup |-> UGoPickupReads, UFinished |-> UFinishedReads,
    UDeliveryMade |-> UDeliveryMadeReads, UDeliveryLocation |-> UDeliveryLocationReads,
    UGoDeliver |-> UGoDeliverReads, UErr |-> UErrReads, UQuery |-> UQueryReads,
    UTruck |-> UTruckReads, UCommands |-> UCommandsReads, UResponses |-> UResponsesReads]
WorldWrites == [UInitTruck |-> UInitTruckWrites, UConnect |-> UConnectWrites,
    UConnected |-> UConnectedWrites, UGoPickup |-> UGoPickupWrites, UFinished |-> UFinishedWrites,
    UDeliveryMade |-> UDeliveryMadeWrites, UDeliveryLocation |-> UDeliveryLocationWrites,
    UGoDeliver |-> UGoDeliverWrites, UErr |-> UErrWrites, UQuery |-> UQueryWrites,
    UTruck |-> UTruckWrites, UCommands |-> UCommandsWrites, UResponses |-> UResponsesWrites]
=============================================================================
