------------------------------ MODULE Vocabulary ------------------------------
(***************************************************************************)
(* The object and operation vocabulary of server/src/sync/vocabulary.rs,   *)
(* and the ordering key of server/src/sync/conflict.rs.                    *)
(*                                                                         *)
(* An operation is a record                                                *)
(*   dev   the device that created it (device_id)                          *)
(*   seq   its device sequence                                             *)
(*   lam   its Lamport timestamp                                           *)
(*   type, obj   the object it is about (object_type, object_id)           *)
(*   kind  its operation type                                              *)
(*   enc   its encryption version (0 is plaintext)                         *)
(*   fits  whether its payload passes the size, density and visit checks   *)
(* The operation id is not a field: a device issues one operation per      *)
(* device sequence, so the record itself is the identity.                  *)
(***************************************************************************)
EXTENDS Naturals

CONSTANTS
  Devices,   \* the devices of the one account that is modelled
  DevRank    \* the order of device ids (UUIDs) used to break Lamport ties

(***************************************************************************)
(* Operation types allowed for each known object type.                     *)
(***************************************************************************)
AllowedOperationTypes ==
  [ bookmark              |-> {"create", "update", "move", "delete", "restore"},
    bookmarkFolder        |-> {"create", "update", "move", "delete", "restore"},
    historyVisit          |-> {"visit", "bulkImport"},
    tab                   |-> {"create", "update", "close", "activate", "move"},
    window                |-> {"create", "update", "close"},
    tabGroup              |-> {"create", "update", "delete"},
    extensionMeta         |-> {"observe"},
    extensionStorageEntry |-> {"set", "delete"} ]

KnownObjectTypes == DOMAIN AllowedOperationTypes

IsTerminal(op) ==
  <<op.type, op.kind>> \in
    { <<"bookmark", "delete">>, <<"bookmarkFolder", "delete">>,
      <<"tab", "close">>, <<"window", "close">>, <<"tabGroup", "delete">>,
      <<"extensionStorageEntry", "delete">> }

IsRestore(op) ==
  op.type \in {"bookmark", "bookmarkFolder"} /\ op.kind = "restore"

IsOrigination(op) ==
  \/ op.kind = "create"
  \/ op.type = "historyVisit"
  \/ op.type = "extensionMeta" /\ op.kind = "observe"
  \/ op.type = "extensionStorageEntry" /\ op.kind = "set"

IsBulkHistoryImport(op) ==
  op.type = "historyVisit" /\ op.kind = "bulkImport"

\* The object an operation is about: ids are only unique within a type.
Key(op) == <<op.type, op.obj>>

(***************************************************************************)
(* OrderingKey's derived order: Lamport timestamp, then device id, then    *)
(* operation id (UUIDv7, which grows with a device's sequence).            *)
(***************************************************************************)
KeyLess(o1, o2) ==
  \/ o1.lam < o2.lam
  \/ o1.lam = o2.lam /\ DevRank[o1.dev] < DevRank[o2.dev]
  \/ o1.lam = o2.lam /\ o1.dev = o2.dev /\ o1.seq < o2.seq
===============================================================================
