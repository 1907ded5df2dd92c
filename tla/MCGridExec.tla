----------------------------- MODULE MCGridExec -----------------------------
EXTENDS GridExec

CONSTANTS MaxExtent, Dims

Vectors(dim, n) == [1..dim -> 1..n]
Props(extentMax, countMax) ==
  [gridBlockExtentMax |-> [d \in DOMAIN extentMax |-> 1000], gridBlockCountMax |-> 1000,
   blockThreadExtentMax |-> extentMax, blockThreadCountMax |-> countMax,
   threadElemExtentMax |-> [d \in DOMAIN extentMax |-> 1000], threadElemCountMax |-> 1000]

\* What getAccDevProps returns: one thread per block, or as many in every
\* dimension as in all, or fewer in some (a GPU, divided for but not run here).
Everywhere(dim, n) == [d \in 1..dim |-> n]
DevProps(acc, dim) ==
  IF acc \in SingleThreadBlocks THEN {Props(Everywhere(dim, 1), 1)}
  ELSE IF dim = 3 THEN {Props(Everywhere(3, n), n) : n \in {2, 8}}
  ELSE {Props(Everywhere(dim, n), n) : n \in {2, 3}}
       \cup {Props(v, 4) : v \in {v \in Vectors(dim, 4) : v[dim] > 2}}

InputsOf(acc, dim) ==
  [acc : {acc},
   gridElemExtent : Vectors(dim, IF dim = 3 THEN 3 ELSE MaxExtent),
   threadElemExtent : IF dim = 3 THEN {Everywhere(3, 1), <<1, 2, 2>>} ELSE Vectors(dim, 2),
   accDevProps : DevProps(acc, dim), requireDivide : BOOLEAN,
   restrictions : {Unrestricted, EqualExtent, CloseToEqualExtent}]

MCInputs == UNION {InputsOf(acc, dim) : acc \in Accs, dim \in Dims}
=============================================================================
