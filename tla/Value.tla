-------------------------------- MODULE Value --------------------------------
(***************************************************************************)
(* rc_server/CValue: a tagged union whose STRING member is an owning       *)
(* pointer.  CLuaCfg keeps its settings in maps of these, so they are      *)
(* built, copied, moved over, assigned other types and destroyed in every  *)
(* order the containers like.                                              *)
(*                                                                         *)
(* The memory is explicit: Ptr are the strings `new` can return, and an    *)
(* object's field is a number, a pointer or Null.  A real number is counted *)
(* in parts, Unit of them to 1, so that it can have a fraction; a text is a *)
(* member of Text with what the library's conversions make of it.          *)
(***************************************************************************)
EXTENDS Integers

CONSTANTS
  Obj,      \* the objects
  Ptr,      \* what new std::string can return
  Word,     \* 2^32: an int and an unsigned are numbers modulo Word
  Byte,     \* 2^8
  Free,     \* marks a string that is not allocated
  Number,   \* the numbers that are assigned, a real one in parts
  Unit,     \* how many parts make 1
  Epsilon,  \* FLT_EPSILON or DBL_EPSILON, in parts
  Text,     \* the texts that are assigned, and the empty one
  EmptyText,
  FalseText,   \* of these "0" and "false"
  Decimal   \* Decimal[s]: the number atoi and strtoul read at the start of s,
            \* 0 if there is none

Null == 0
Real == {"FLOAT", "DOUBLE"}
Numeric == {"BYTE", "INTEGER", "UNSIGNED", "BOOLEAN"} \cup Real
Type == Numeric \cup {"NONE", "STRING"}

ASSUME ValueAssumption ==
  /\ Byte \in Nat \ {0} /\ Word \in Nat \ {0}
  /\ Word % Byte = 0 /\ Word % 2 = 0 /\ 2 * Byte <= Word
  /\ Number \subseteq Int /\ Unit \in Nat \ {0} /\ Epsilon \in Nat
  /\ Decimal \in [Text -> -(Word \div 2) .. Word - 1]
  /\ EmptyText \in Text /\ FalseText \subseteq Text \ {EmptyText}
  /\ \A s \in FalseText \cup {EmptyText} : Decimal[s] = 0
  /\ Ptr \cap Int = {} /\ Free \notin Text

VARIABLES
  obj,   \* obj[x]: the type tag, "dead" outside its lifetime, and the union
  heap   \* heap[p]: the text of an allocated string, or Free

valueVars == <<obj, heap>>

Dead == [type |-> "dead", field |-> Null]

ValueInit ==
  /\ obj = [x \in Obj |-> Dead]
  /\ heap = [p \in Ptr |-> Free]

Live(x) == obj[x].type # "dead"

-----------------------------------------------------------------------------
(* The private functions, on a memory m = [obj, heap] *)

Memory == [obj |-> obj, heap |-> heap]

Write(m, x, t, f) == [m EXCEPT !.obj[x] = [type |-> t, field |-> f]]

\* new std::string: some free pointer, for an empty text.
new(m) == CHOOSE p \in Ptr : m.heap[p] = Free

\* CC_SAFE_DELETE of a STRING; a number is overwritten by 0.
clear(m, x) ==
  LET f == m.obj[x].field
      freed == IF m.obj[x].type = "STRING" /\ f # Null
                 THEN [m EXCEPT !.heap[f] = Free] ELSE m
  IN  Write(freed, x, "NONE", Null)

\* Mutant: the tag is set although the old string is not freed.
resetMutant(m, x, t) ==
  IF m.obj[x].type = t THEN m
  ELSE IF t = "STRING"
         THEN [Write(m, x, t, new(m)) EXCEPT !.heap[new(m)] = EmptyText]
         ELSE Write(m, x, t, Null)

reset(m, x, t) ==
  LET c == clear(m, x)
      p == new(c)
  IN  CASE m.obj[x].type = t -> m
        [] t = "STRING" /\ m.obj[x].type # t ->
             [Write(c, x, t, p) EXCEPT !.heap[p] = EmptyText]
        [] OTHER -> Write(c, x, t, Null)

-----------------------------------------------------------------------------
(* The public ones *)

Becomes(m) == obj' = m.obj /\ heap' = m.heap

\* What an assignment of v stores under a numeric type.
Stored(t, v) ==
  CASE t = "BYTE" -> v % Byte
    [] t = "INTEGER" -> ((v + Word \div 2) % Word) - Word \div 2
    [] t = "UNSIGNED" -> v % Word
    [] t = "BOOLEAN" -> IF v = 0 THEN 0 ELSE 1
    [] OTHER -> v

\* A constructor leaves the type NONE before it stores what it is given.
Born(x) == IF Live(x) THEN Memory ELSE Write(Memory, x, "NONE", Null)

SetNumber(x, t, v) == Becomes(Write(reset(Born(x), x, t), x, t, Stored(t, v)))

SetText(x, v) ==
  LET m == reset(Born(x), x, "STRING")
  IN  Becomes([m EXCEPT !.heap[m.obj[x].field] = v])

SetNone(x) == ~Live(x) /\ Becomes(Born(x))

\* Mutant: the pointer is copied like the other members of the union.
AssignMutant(x, y) ==
  /\ Live(y)
  /\ Becomes(IF x = y THEN Memory
             ELSE Write(clear(Born(x), x), x, obj[y].type, obj[y].field))

\* operator= (const CValue&), also with itself, and the copy constructor.
Assign(x, y) ==
  LET t == obj[y].type
      m == reset(Born(x), x, t)
  IN  /\ Live(y)
      /\ Becomes(IF x = y THEN Memory
                 ELSE IF t = "STRING"
                   THEN [m EXCEPT !.heap[m.obj[x].field] = m.heap[m.obj[y].field]]
                   ELSE Write(m, x, t, obj[y].field))

\* Mutant: memset of the source is lost, and with it the reset of its type.
MoveMutant(x, y) ==
  /\ Live(y)
  /\ Becomes(IF x = y THEN Memory
             ELSE Write(clear(Born(x), x), x, obj[y].type, obj[y].field))

\* operator= (CValue&&) and the move constructor: the pointer changes hands.
Move(x, y) ==
  /\ Live(y)
  /\ Becomes(IF x = y THEN Memory
             ELSE Write(Write(clear(Born(x), x), x, obj[y].type, obj[y].field),
                        y, "NONE", Null))

Destroy(x) == Live(x) /\ Becomes([clear(Memory, x) EXCEPT !.obj[x] = Dead])

ValueNext ==
  \E x \in Obj :
    \/ \E t \in Numeric, v \in Number : SetNumber(x, t, v)
    \/ \E v \in Text : SetText(x, v)
    \/ SetNone(x)
    \/ \E y \in Obj : Assign(x, y) \/ Move(x, y)
    \/ Destroy(x)

-----------------------------------------------------------------------------
(* Reading *)

\* What an object holds: a text, a number, or nothing.
Held(x) ==
  CASE obj[x].type = "STRING" -> heap[obj[x].field]
    [] obj[x].type = "NONE" -> Null
    [] OTHER -> obj[x].field

\* The conversion of a real number to an integer drops its fraction.
Whole(v) == IF v < 0 THEN -((-v) \div Unit) ELSE v \div Unit

\* The integer an object is read as, before it is cut to a width.
Num(x) ==
  CASE obj[x].type = "STRING" -> Decimal[Held(x)]
    [] obj[x].type \in Real -> Whole(Held(x))
    [] OTHER -> Held(x)

\* A conversion from a real number that the target cannot hold is undefined.
Fits(x, lo, hi) == obj[x].type \in Real => Num(x) \in lo .. hi

asByte(x) == IF Fits(x, 0, Byte - 1) THEN {Num(x) % Byte} ELSE 0 .. Byte - 1

\* Mutant: a byte is read as a signed char.
asIntMutant(x) ==
  LET h == IF obj[x].type = "BYTE" THEN Byte \div 2 ELSE Word \div 2
  IN  IF Fits(x, -h, h - 1) THEN {((Num(x) + h) % (2 * h)) - h} ELSE -h .. h - 1

asInt(x) ==
  LET h == Word \div 2
  IN  IF Fits(x, -h, h - 1) THEN {((Num(x) + h) % Word) - h} ELSE -h .. h - 1

asUnsignedInt(x) ==
  IF Fits(x, 0, Word - 1) THEN {Num(x) % Word} ELSE 0 .. Word - 1

\* A text is false if it is "0" or "false", whatever number it begins with; a
\* real number also if it has no whole part but a fraction is true.
asBool(x) ==
  IF obj[x].type = "STRING" THEN Held(x) \notin FalseText ELSE Held(x) # 0

Distance(v, w) == IF v < w THEN w - v ELSE v - w

\* operator==: the types must agree, strings are compared by their text, real
\* numbers up to an epsilon.
Equals(x, y) ==
  \/ x = y
  \/ /\ obj[x].type = obj[y].type
     /\ \/ obj[x].type = "NONE"
        \/ obj[x].type \in Real /\ Distance(Held(x), Held(y)) <= Epsilon
        \/ obj[x].type \notin Real /\ Held(x) = Held(y)

-----------------------------------------------------------------------------
(* Properties *)

\* Every allocated string has exactly one owner among the live objects, and no
\* object refers to a freed one: nothing leaks, nothing is freed twice.
OneOwner ==
  \A p \in Ptr :
    LET owners == {x \in Obj : obj[x].type = "STRING" /\ obj[x].field = p}
    IN  IF heap[p] = Free THEN owners = {} ELSE \E x \in Obj : owners = {x}

\* The readers of one object, after any operations.  asInt, asUnsignedInt and
\* asByte give one number cut to their widths, unless it is a real number that
\* a byte cannot hold.  What they read as something else than 0 asBool holds for
\* true; it holds for true and they read as 0 only a text, which may be a word or
\* empty, and a real number, which may be less than 1.  And what == takes for
\* equal reads the same, but for real numbers, which an epsilon may carry over
\* the next integer.
ReadsAgree ==
  \A x \in Obj : Live(x) =>
    /\ \A i \in asInt(x), u \in asUnsignedInt(x), b \in asByte(x) :
         Fits(x, 0, Byte - 1) =>
           /\ i % Word = u /\ u % Byte = b
           /\ u # 0 => asBool(x)
           /\ asBool(x) /\ u = 0 => obj[x].type \in Real \cup {"STRING"}
    /\ \A y \in Obj : Live(y) /\ Equals(x, y) =>
         obj[x].type \in Real \/ (asInt(x) = asInt(y) /\ (asBool(x) <=> asBool(y)))

\* Copies are independent of their originals, a moved-from value is empty, and
\* no operation on one object is seen in another.
C == INSTANCE Cells WITH
       Place <- Obj, Nothing <- <<"dead", Null>>, Empty <- <<"NONE", Null>>,
       Content <- (Numeric \X Int) \cup ({"STRING"} \X Text),
       cell <- [x \in Obj |-> <<obj[x].type, Held(x)>>]

ImplementsCells == C!Spec

=============================================================================
