---------------------------------- MODULE Bmc ----------------------------------
(*****************************************************************************)
(* The best master clock algorithm of bmc.c as constant operators: the data  *)
(* set comparison and the update s1() of the parent data set. The local data *)
(* set that copyD0() compares and m1() installs is the constant Own of Port. *)
(* An announce record stands for a MsgHeader and its MsgAnnounce, the same   *)
(* shape serves a slot of the foreign master table and the parent data set.  *)
(* memcmp() on identities and on single bytes is the order of the naturals.  *)
(*****************************************************************************)
EXTENDS Integers

UInteger8  == {n \in Nat : n < 256}
UInteger16 == {n \in Nat : n < 65536}

AnnounceRecord ==
    [ clockIdentity           : Nat,          \* sourcePortIdentity
      portNumber              : UInteger16,
      grandmasterIdentity     : Nat,
      grandmasterPriority1    : UInteger8,
      clockClass              : UInteger8,
      clockAccuracy           : UInteger8,
      offsetScaledLogVariance : UInteger16,
      grandmasterPriority2    : UInteger8,
      stepsRemoved            : UInteger16 ]

(* The sign memcmp() gives for two values. *)
memcmp(x, y) == IF x < y THEN -1 ELSE IF x > y THEN 1 ELSE 0

(* The first field that tells two data sets apart decides.                   *)
Lex(first, rest) == IF first # 0 THEN first ELSE rest

SamePort(a, b) ==
    /\ a.clockIdentity = b.clockIdentity
    /\ a.portNumber = b.portNumber

-------------------------------------------------------------------------------
(* Data sets of one grandmaster (part 2 of the comparison): the shorter path *)
(* wins, by more than one step outright, by one step unless its longer side  *)
(* was sent by the current parent; equal paths are ordered by the sender.    *)
(* Mutant: the parent is looked for on the side of A only.                   *)
SameGrandmasterOneSided(A, B, parent) ==
    LET steps == memcmp(A.stepsRemoved, B.stepsRemoved)
    IN  IF steps = 0 THEN memcmp(A.clockIdentity, B.clockIdentity)
        ELSE IF A.clockIdentity = parent THEN 0 ELSE steps

SameGrandmaster(A, B, parent) ==
    LET steps  == memcmp(A.stepsRemoved, B.stepsRemoved)
        longer == IF steps > 0 THEN A ELSE B
        far    == \/ A.stepsRemoved > B.stepsRemoved + 1
                  \/ B.stepsRemoved > A.stepsRemoved + 1
    IN  IF steps = 0 THEN memcmp(A.clockIdentity, B.clockIdentity)
        ELSE IF longer.clockIdentity = parent /\ ~far THEN 0
        ELSE steps

(* Mutants of the next definition: the priorities are subtracted into an     *)
(* Integer8 instead of compared; clockClass is forgotten.                    *)
OtherGrandmasterWraps(A, B) ==
    LET d == (A.grandmasterPriority1 - B.grandmasterPriority1 + 256) % 256
    IN  Lex(IF d >= 128 THEN d - 256 ELSE d,
            memcmp(A.grandmasterIdentity, B.grandmasterIdentity))
OtherGrandmasterNoClass(A, B) ==
    Lex(memcmp(A.grandmasterPriority1, B.grandmasterPriority1),
    Lex(memcmp(A.clockAccuracy, B.clockAccuracy),
    Lex(memcmp(A.grandmasterPriority2, B.grandmasterPriority2),
        memcmp(A.grandmasterIdentity, B.grandmasterIdentity))))

(* Data sets of two grandmasters, field by field. Two data sets that first   *)
(* differ in their variance are compared on clockClass, equal by then.       *)
OtherGrandmaster(A, B) ==
    Lex(memcmp(A.grandmasterPriority1, B.grandmasterPriority1),
    Lex(memcmp(A.clockClass, B.clockClass),
    Lex(memcmp(A.clockAccuracy, B.clockAccuracy),
        IF A.offsetScaledLogVariance # B.offsetScaledLogVariance
        THEN memcmp(A.clockClass, B.clockClass)
        ELSE Lex(memcmp(A.grandmasterPriority2, B.grandmasterPriority2),
                 memcmp(A.grandmasterIdentity, B.grandmasterIdentity)))))

(* Negative when A is the better data set; parent is the clock identity of   *)
(* the current parent port.                                                  *)
bmcDataSetComparison(A, B, parent) ==
    IF A.grandmasterIdentity = B.grandmasterIdentity
    THEN SameGrandmaster(A, B, parent)
    ELSE OtherGrandmaster(A, B)

-------------------------------------------------------------------------------
(* s1(): the announced data set becomes the parent data set, one step away.  *)
s1(m) == [m EXCEPT !.stepsRemoved = (m.stepsRemoved + 1) % 65536]

(* An ordinary clock announces itself, no step away.                         *)
OrdinaryClock(m) ==
    m.grandmasterIdentity = m.clockIdentity /\ m.stepsRemoved = 0
================================================================================
