------------------------------- MODULE Fields -------------------------------
(***************************************************************************)
(* Where the commands of a transaction are in the bytes of a block:        *)
(* getTxCmd, which remembers one range of bytes per transaction, and       *)
(* txCmdJson, which reads the commands back from such a range.             *)
(*                                                                         *)
(* A message is a sequence of cells: for each of its fields one cell with  *)
(* the number and the size, then the cells of its content; a name or the   *)
(* body of a command is one cell, a number none.  A view is a range of     *)
(* cells of the block.                                                     *)
(***************************************************************************)
EXTENDS WorldState

NoCommand == [type |-> "no command"]

Tag(field, size) == [field |-> field, size |-> size, cmd |-> NoCommand]
Leaf(cmd)        == [field |-> 0, size |-> 0, cmd |-> cmd]

View(at, size) == [at |-> at, size |-> size]
NoView == View(0, 0)
-----------------------------------------------------------------------------
(* Writing a block, as protobuf does: fields in the order of their numbers,*)
(* none for what is absent.                                                *)
Field(field, content) == <<Tag(field, Len(content))>> \o content

Name(field) == Field(field, <<Leaf(NoCommand)>>)

Each(values, Write(_)) ==
  FlattenSeq([i \in DOMAIN values |-> Write(values[i])])

SerializeTx(tx) ==
  LET commands == Each(tx.cmds, LAMBDA cmd : Field(1, <<Leaf(cmd)>>))
      creator  == IF tx.by = NoCreator THEN <<>> ELSE Name(2)
      reduced  == commands \o creator \o <<Tag(3, 0), Tag(4, 0)>>
  IN Field(1, Field(1, reduced)) \o Each(tx.signers, LAMBDA key : Name(2))

Serialize(txs) ==
  LET payload == Each(txs, LAMBDA tx : Field(1, SerializeTx(tx)))
                   \o <<Tag(2, 0), Tag(3, 0)>> \o Name(4)
  IN Field(1, Field(1, payload) \o Name(2))
-----------------------------------------------------------------------------
(* Pb::next succeeds: the view begins with this field and holds all of it. *)
Starts(bytes, view, field) ==
  /\ view.size > 0
  /\ bytes[view.at + 1].field = field
  /\ bytes[view.at + 1].size < view.size

Content(bytes, view) == View(view.at + 1, bytes[view.at + 1].size)

(* Pb::next with a view to fill: left as it is when the field is not there.*)
NextBytes(bytes, view, field, stale) ==
  IF Starts(bytes, view, field) THEN Content(bytes, view) ELSE stale

(* The contents that a loop over Pb::next goes through. *)
Repeated(bytes, view, field) ==
  LET end == view.at + view.size
      from[at \in view.at .. end] ==
        LET left == View(at, end - at)
        IN IF Starts(bytes, left, field)
           THEN <<Content(bytes, left)>> \o from[at + 1 + Content(bytes, left).size]
           ELSE <<>>
  IN from[view.at]

(* The first command, made longer by the size of each one that follows. *)
Joined(cmds) ==
  IF cmds = <<>>
  THEN NoView
  ELSE View(cmds[1].at, FoldLeft(LAMBDA size, cmd : size + cmd.size, 0, cmds))

(* The views of getTxCmd are declared once for all transactions. *)
CommandsOfNested(bytes, found, tx) ==
  LET payload == NextBytes(bytes, tx, 1, NoView)
      reduced == NextBytes(bytes, payload, 1, found.reduced)
  IN [reduced |-> reduced,
      ranges  |-> Append(found.ranges, Joined(Repeated(bytes, reduced, 1)))]

(* The reduced payload is looked for in the transaction, as the payload is,*)
(* and what is found is the payload; the "command" found in there is the   *)
(* reduced payload, with all the commands.                                 *)
CommandsOf(bytes, found, tx) ==
  LET reduced == NextBytes(bytes, tx, 1, found.reduced)
  IN [reduced |-> reduced,
      ranges  |-> Append(found.ranges, Joined(Repeated(bytes, reduced, 1)))]

GetTxCmd(bytes) ==
  LET block_v1 == NextBytes(bytes, View(0, Len(bytes)), 1, NoView)
      payload  == NextBytes(bytes, block_v1, 1, NoView)
      none     == [reduced |-> NoView, ranges |-> <<>>]
  IN FoldLeft(LAMBDA found, tx : CommandsOf(bytes, found, tx),
              none, Repeated(bytes, payload, 1)).ranges
-----------------------------------------------------------------------------
(* A JSON text is a sequence of commands and punctuation. *)
Punctuation(mark) == [type |-> mark]

ParseCommand(bytes, view) == bytes[view.at + 1].cmd

(* txCmdJson: a comma after each command, the last one taken off again. *)
TxCmdJson(bytes, range) ==
  LET Write(text, cmd) ==
        text \o <<ParseCommand(bytes, cmd), Punctuation(",")>>
      text == FoldLeft(Write, <<Punctuation("[")>>, Repeated(bytes, range, 1))
  IN Append(Front(text), Punctuation("]"))

(* The JSON array of these commands. *)
JsonArray(cmds) ==
  LET Mark(i) == Punctuation(IF i = Len(cmds) THEN "]" ELSE ",")
  IN <<Punctuation("[")>> \o FlattenSeq([i \in DOMAIN cmds |-> <<cmds[i], Mark(i)>>])
=============================================================================
