---------------------------- MODULE MCServerTick ----------------------------
(***************************************************************************)
(* A small game for TLC: units with a position, walls with a height, and   *)
(* actions that end in every way an action can.                            *)
(***************************************************************************)
EXTENDS ServerTick

\* Ints of four bits, bytes of two.
Ints == INSTANCE GameValues WITH Width <- 4, Precision <- 3, Steps <- 1, ByteWidth <- 2

\* The classes of the actions come after those of the objects.
MCNamesOf ==
  [c \in Class \cup {"move", "build"} |->
     CASE c = "unit" -> {"x"} [] c = "wall" -> {"h"}
       [] c = "move" -> {"to"} [] c = "build" -> {}]

MCNameOrder == <<"h", "x">>

MCValue == 0 .. 2

MCGetDelta(v, w) == Ints!DeltaInt(v, w)

MCInterp(v, d, t) == Ints!InterpInt(v, d, t)

MCCrc(values) == values

MCBytes(v) == Ints!BytesInt(v)

MCParse(bytes) == Ints!ParseInt(bytes)

MCCreated(c) == [n \in NamesOf[c] |-> 0]

\* No byte is greater than 127.
MCUtf8(bytes) == TRUE

MCActionObject(a) ==
  IF a \in {"spawn", "morph"} THEN [class |-> "build", values |-> [n \in {} |-> 0]]
  ELSE [class |-> "move", values |-> [n \in {"to"} |-> IF a = "push" THEN 1 ELSE 2]]

Unit(v) == [class |-> "unit", values |-> [n \in {"x"} |-> v]]

Wall == [class |-> "wall", values |-> [n \in {"h"} |-> 0]]

MCBaseObjects == [i \in {1} |-> Unit(0)]

\* Units move on, up to the edge.
MCUpdate(o) == IF o = Unit(1) THEN Unit(2) ELSE o

Put(world, i, o) == [j \in DOMAIN world \cup {i} |-> IF j = i THEN o ELSE world[j]]

\* "spawn" and "morph" need nothing, the others the object 1.
MCCheck(a, world) == a \in {"spawn", "morph"} \/ 1 \in DOMAIN world

Ending(objects, ends) == [objects |-> objects, ends |-> ends]

MCPerform(a, world) ==
  CASE a = "push"  -> {Ending(Put(world, 1, Unit(1)), "return")}
    [] a = "spawn" -> {Ending(Put(world, 2, Unit(0)), "return")}
    [] a = "kill"  -> {Ending([j \in DOMAIN world \ {1} |-> world[j]], "return")}
    [] a = "morph" -> {Ending(Put(world, 1, Wall), "return")}
    [] a = "fail"  -> {Ending(world, "caught"), Ending(Put(world, 1, Unit(0)), "caught")}
    [] a = "crash" -> {Ending(Put(world, 1, Unit(2)), "other")}
=============================================================================
