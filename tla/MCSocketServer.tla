--------------------------- MODULE MCSocketServer ---------------------------
(* An instance of SocketServer: ana, who has two devices, asks a kennel about  *)
(* a puppy, and ben, who has none, asks ana about her cat.                     *)
EXTENDS SocketServer, TLC

CONSTANTS ana, ben, kennel, phone, tablet, shop, puppy, cat

MCIdentityOf == phone :> ana @@ tablet :> ana @@ shop :> kennel
MCCustomerOf == puppy :> ana @@ cat :> ben
MCSellerOf   == puppy :> kennel @@ cat :> ana
MCAsked      == {<<phone, puppy>>, <<shop, cat>>}
=============================================================================
