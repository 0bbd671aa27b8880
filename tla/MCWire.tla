------------------------------- MODULE MCWire -------------------------------
(***************************************************************************)
(* The four links of the UPS server, with a few messages each: every class  *)
(* of both .proto files, negative numbers, sizes and numbers of one, two and *)
(* three bytes, a message within a message, an empty one and one that        *)
(* lacks a required field.                                                   *)
(***************************************************************************)
EXTENDS WireProperties

MCLinks ==
    { [greeting |-> "UConnect", frames |-> "UCommands", incoming |-> FALSE],
      [greeting |-> "UConnected", frames |-> "UResponses", incoming |-> TRUE],
      [greeting |-> "UAinitWorld", frames |-> "UAcommands", incoming |-> FALSE],
      [greeting |-> "AUconnectedWorld", frames |-> "AUcommands", incoming |-> TRUE] }

Idle == <<105, 100>>

MCGreetings ==
    [ UConnect |-> { [trucks |-> <<[id |-> 0, x |-> 1, y |-> 1], [id |-> 64, x |-> 129, y |-> 129]>>,
                      isAmazon |-> FALSE] },
      UConnected |-> { [worldid |-> 300, result |-> Welcome], [worldid |-> 7, result |-> <<101>>] },
      UAinitWorld |-> { [worldID |-> 20000] },
      AUconnectedWorld |-> { [success |-> TRUE], [success |-> FALSE],
                             [success |-> TRUE, unknown |-> <<16, 7>>] } ]

MCFrames ==
    [ UCommands |->
        { [pickups |-> <<[truckid |-> 3, whid |-> 1, seqnum |-> 130]>>, acks |-> <<1, 20000>>],
          [deliveries |-> <<[truckid |-> 3, seqnum |-> 5,
                             packages |-> <<[packageid |-> 9, x |-> -4, y |-> 200],
                                            [packageid |-> 10, x |-> 0, y |-> 0]>>]>>],
          [queries |-> <<[truckid |-> 0, seqnum |-> 1], [truckid |-> 1, seqnum |-> 2]>>,
           simspeed |-> 500, disconnect |-> TRUE],
          NoFields },
      UResponses |->
        { [completions |-> <<[truckid |-> 1, x |-> -1, y |-> 2, status |-> Idle, seqnum |-> 4]>>],
          [delivered |-> <<[truckid |-> 1, packageid |-> 8, seqnum |-> 5]>>, acks |-> <<6, 300>>],
          [error |-> <<[err |-> Idle, originseqnum |-> 2, seqnum |-> 9]>>, finished |-> TRUE],
          [truckstatus |-> <<[truckid |-> 1, status |-> <<>>, x |-> 0, y |-> 0]>>],
          NoFields },
      UAcommands |->
        { [truckArr |-> <<[whID |-> 1, shipID |-> 2, truckID |-> 3, seqNum |-> 4]>>,
           delivered |-> <<[shipID |-> 2, seqNum |-> 200]>>],
          [changeResp |-> <<[success |-> FALSE, acks |-> 3], [success |-> TRUE, acks |-> 4]>>],
          [bindUPSResponse |-> <<[status |-> TRUE, ownerID |-> -2, upsID |-> 3, seqNum |-> 6]>>,
           err |-> <<[err |-> <<>>, originseqnum |-> 1, seqnum |-> 2]>>],
          [acks |-> <<1, 2>>, disconnect |-> FALSE] },
      AUcommands |->
        { [pickup |-> <<[whID |-> 1, destinationX |-> -3, destinationY |-> 130, shipID |-> 1,
                         products |-> <<[id |-> 1, description |-> Idle, count |-> 2]>>,
                         seqNum |-> 1]>>],
          [delivery |-> <<[shipID |-> 1, seqNum |-> 3]>>, acks |-> <<2>>],
          [changeDest |-> <<[shipID |-> 1, destinationX |-> 2, destinationY |-> 0, seqNum |-> 5]>>,
           bindUPS |-> <<[ownerID |-> 1, upsID |-> 2, seqNum |-> 7]>>],
          [delivery |-> <<[shipID |-> 2]>>],
          NoFields } ]
=============================================================================
