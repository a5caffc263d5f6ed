-------------------------- MODULE HostTools_proofs --------------------------
(***************************************************************************)
(* Proofs about the scripts, each on its own.  StorePrograms: whatever the widths of the   *)
(* immediates, the base and the image, the programs the script sends store every word at    *)
(* its address.  DramChunks: whatever the size of a chunk, the images and what earlier      *)
(* sessions left behind, the chunks arrive.  HexTools: the frames of the three senders       *)
(* are whole, whatever the file.  VmemImages: the memory is what the files say, and the     *)
(* preload file is read back as it, whatever the files.  FlashTools: the file without        *)
(* addresses keeps every place, and the flash holds the file.                             *)
(***************************************************************************)
EXTENDS VmemImages, StorePrograms, DramChunks, HexTools, FlashTools,
        SequenceTheorems, FiniteSetTheorems, WellFoundedInduction, TLAPS

(* Being a sequence, of whatever.                                             *)
IsSequence(t) == t \in Seq({t[k] : k \in DOMAIN t})

(* Division, as the provers need it.                                              *)

LEMMA DivMod ==
    ASSUME NEW x \in Nat, NEW d \in Nat \ {0}
    PROVE  /\ x \div d \in Nat /\ x % d \in 0 .. d - 1
           /\ x = d * (x \div d) + (x % d)
  BY SMT

LEMMA ModUnique ==
    ASSUME NEW a \in Int, NEW d \in Nat \ {0}, NEW q \in Int, NEW r \in 0 .. d - 1,
           a = q * d + r
    PROVE  a % d = r
  BY SMT

LEMMA ModShift ==
    ASSUME NEW a \in Nat, NEW d \in Nat \ {0}, NEW m \in Int
    PROVE  (a - m * d) % d = a % d
  <1> DEFINE q == a \div d
             r == a % d
  <1>1. q \in Nat /\ r \in 0 .. d - 1 /\ a = d * q + r
    BY DivMod
  <1> HIDE DEF q, r
  <1>2. /\ a - m * d \in Int /\ q - m \in Int
        /\ a - m * d = (q - m) * d + r
    BY <1>1, SMT
  <1>3. (a - m * d) % d = r
    BY <1>1, <1>2, ModUnique
  <1> QED BY <1>3 DEF r

LEMMA ModInjective ==
    ASSUME NEW a \in Nat, NEW b \in Nat, NEW d \in Nat \ {0},
           a - b < d, b - a < d, a % d = b % d
    PROVE  a = b
  <1> DEFINE p == a \div d
             q == b \div d
             r == a % d
  <1>1. p \in Nat /\ r \in 0 .. d - 1 /\ a = d * p + r
    BY DivMod
  <1>2. q \in Nat /\ b = d * q + r
    BY DivMod
  <1> HIDE DEF p, q, r
  <1>3. CASE p > q
    <2>1. PICK k \in Nat : p = q + 1 + k
      <3>1. p - q - 1 \in Nat /\ p = q + 1 + (p - q - 1)  BY <1>1, <1>2, <1>3, SMT
      <3> QED BY <3>1
    <2>2. a - b = d + d * k  BY <1>1, <1>2, <2>1, SMT
    <2>3. d * k >= 0  BY <2>1, SMT
    <2> QED BY <2>2, <2>3, SMT
  <1>4. CASE q > p
    <2>1. PICK k \in Nat : q = p + 1 + k
      <3>1. q - p - 1 \in Nat /\ q = p + 1 + (q - p - 1)  BY <1>1, <1>2, <1>4, SMT
      <3> QED BY <3>1
    <2>2. b - a = d + d * k  BY <1>1, <1>2, <2>1, SMT
    <2>3. d * k >= 0  BY <2>1, SMT
    <2> QED BY <2>2, <2>3, SMT
  <1> QED BY <1>1, <1>2, <1>3, <1>4, SMT

(* What the CPU makes of the two immediates of x is x again, in words of Width.       *)
LEMMA SplitIsExact ==
    ASSUME NEW x \in Nat
    PROVE  /\ Upper(x) \in 0 .. High - 1 /\ Lower(x) \in 0 .. Low - 1
           /\ (Upper(x) * Low + Signed(Lower(x))) % Width = x % Width
  <1>0. /\ Half \in Nat \ {0} /\ High \in Nat \ {0}
        /\ Low \in Nat \ {0} /\ Low = 2 * Half
    BY StoreAssumption, SMT DEF Low
  <1> DEFINE q == x \div Low
             r == x % Low
             c == IF r >= Half THEN 1 ELSE 0
             m == (q + c) \div High
             u == (q + c) % High
  <1>1. q \in Nat /\ r \in 0 .. Low - 1 /\ x = Low * q + r
    BY <1>0, DivMod
  <1>2. c \in Nat /\ q + c \in Nat /\ Signed(r) = r - c * Low
    <2> HIDE DEF q, r
    <2> QED BY <1>0, <1>1, SMT DEF Signed
  <1>3. m \in Nat /\ u \in 0 .. High - 1 /\ q + c = High * m + u
    BY <1>0, <1>2, DivMod
  <1>4. Upper(x) = u /\ Lower(x) = r
    BY DEF Upper, Lower
  <1> HIDE DEF q, r, c, m, u
  <1>5. Width \in Nat \ {0} /\ Width = Low * High
    BY <1>0, SMT DEF Width
  <1>6. u * Low + (r - c * Low) = x - m * Width
    <2>1. u = q + c - High * m
      BY <1>0, <1>1, <1>2, <1>3, SMT
    <2>2. u * Low = Low * q + c * Low - m * (Low * High)
      BY <1>0, <1>1, <1>2, <1>3, <2>1, SMT
    <2> QED BY <1>0, <1>1, <1>2, <1>3, <1>5, <2>2, SMT
  <1>7. (x - m * Width) % Width = x % Width
    BY <1>3, <1>5, ModShift, SMT
  <1> QED BY <1>1, <1>2, <1>3, <1>4, <1>6, <1>7

-----------------------------------------------------------------------------
LEMMA Sizes ==
    /\ Half \in Nat \ {0} /\ High \in Nat \ {0} /\ Lane \in Nat \ {0}
    /\ Low \in Nat \ {0} /\ Width \in Nat \ {0}
    /\ new_base_address \in Nat
  BY StoreAssumption, SMT DEF Low, Width

(* Where the parts of header and code lie in the program.                            *)
Joined(h, c, r) ==
    \A n \in 1 .. Len(h) + Len(c) : r[n] = IF n <= Len(h) THEN h[n] ELSE c[n - Len(h)]

LEMMA ConcatJoined ==
    ASSUME NEW S, NEW h \in Seq(S), NEW c \in Seq(S)
    PROVE  Joined(h, c, h \o c)
  BY ConcatProperties, Zenon DEF Joined

Parts(h, c, r) ==
    /\ r[33] = h[33]
    /\ r[65] = c[1] /\ r[66] = c[2] /\ r[67] = c[3]
    /\ r[68] = c[4] /\ r[69] = c[5] /\ r[70] = c[6]

LEMMA PartsAt ==
    ASSUME NEW h, NEW c, NEW r, Joined(h, c, r), Len(h) = 64, Len(c) = 6
    PROVE  Parts(h, c, r)
  BY SMT DEF Joined, Parts

(* The program of a word, v at a: the jump of the header leads to the six instructions.    *)
Laid(r, a, v) ==
    /\ r[33] = Jump(32)
    /\ r[65] = Lui(15, Upper(v)) /\ r[66] = Lui(14, Upper(a)) /\ r[67] = Addi(15, Lower(v))
    /\ r[68] = Sw(Lower(a) % Lane, Lower(a) \div Lane)
    /\ r[69] = Addi(10, 0) /\ r[70] = Return

LEMMA ProgramLayout ==
    ASSUME NEW o \in Nat, NEW v \in 0 .. Width - 1,
           NEW r, r = header_hex \o modify_hex(o, v)
    PROVE  Laid(r, new_base_address + o, v)
  <1> DEFINE code == modify_hex(o, v)
  <1>1. header_hex = [n \in 1 .. 64 |-> header_hex[n]]
    BY DEF header_hex, HeaderWords
  <1>2. /\ Len(code) = 6 /\ code[1] = Lui(15, Upper(v))
        /\ code[2] = Lui(14, Upper(new_base_address + o))
        /\ code[3] = Addi(15, Lower(v))
        /\ code[4] = Sw(Lower(new_base_address + o) % Lane, Lower(new_base_address + o) \div Lane)
        /\ code[5] = Addi(10, 0) /\ code[6] = Return
    BY DEF modify_hex
  <1>3. header_hex[33] = Jump(32)
    BY SMT DEF header_hex, HeaderWords
  <1> DEFINE S == {header_hex[n] : n \in 1 .. 64} \cup {code[n] : n \in 1 .. 6}
  <1>4. header_hex \in Seq(S) /\ Len(header_hex) = 64
    BY <1>1, SMT
  <1>5. code \in Seq(S)
    <2>1. code = << code[1], code[2], code[3], code[4], code[5], code[6] >>
      BY <1>2 DEF modify_hex
    <2>2. \A n \in 1 .. 6 : code[n] \in S
      OBVIOUS
    <2> HIDE DEF code, S
    <2>3. << code[1], code[2], code[3], code[4], code[5], code[6] >> \in Seq(S)
      BY <2>2, SMT
    <2> QED BY <2>1, <2>3
  <1> HIDE DEF code, S
  <1>6. r = header_hex \o code
    BY DEF code
  <1>7. Joined(header_hex, code, header_hex \o code)
    BY <1>4, <1>5, ConcatJoined
  <1>8. Joined(header_hex, code, r)
    BY <1>6, <1>7
  <1>9. Len(header_hex) = 64 /\ Len(code) = 6
    BY <1>2, <1>4
  <1>10. Parts(header_hex, code, r)
    BY ONLY <1>8, <1>9, PartsAt, Zenon
  <1> QED BY <1>2, <1>3, <1>10 DEF Parts, Laid

-----------------------------------------------------------------------------
(* The first n words of file f are in their places in c; while a program runs, its registers *)
(* hold what the instructions before pc have made of value and address.                  *)
WholeOf(f, n) == {k \in 0 .. n - 1 : f[k + 1] # Short}
Stored(f, c, n) ==
    4 * Len(f) <= Width =>
       /\ DOMAIN c = {Place(k) : k \in WholeOf(f, n)}
       /\ \A k \in WholeOf(f, n) : c[Place(k)] = f[k + 1]

StoreOffset == 4 * (index - 1)
Value == file[index]
StoreAddress == new_base_address + StoreOffset

Running ==
    /\ index \in 1 .. Len(file) /\ Value \in 0 .. Width - 1
    /\ ram = header_hex \o modify_hex(StoreOffset, Value)
    /\ pc \in {32} \cup 64 .. 69
    /\ (pc \in {65, 66} => x15 = Upper(Value) * Low)
    /\ (pc \in {66, 67} => x14 = Upper(StoreAddress) * Low)
    /\ (pc = 67 => x15 = Value)
    /\ (pc < 68 => Stored(file, cells, index - 1))
    /\ (pc >= 68 => Stored(file, cells, index))

StoreInv ==
    /\ sst \in {"idle", "send", "run"}
    /\ file \in Seq(0 .. Width - 1 \cup {Short}) /\ index \in 0 .. Len(file)
    /\ (sst = "idle" => index = 0 /\ DOMAIN cells = {})
    /\ (sst = "send" => Stored(file, cells, index))
    /\ (sst = "run" => Running)

-----------------------------------------------------------------------------
LEMMA Decode ==
    ASSUME Running
    PROVE  /\ Value \in 0 .. Width - 1 /\ StoreOffset \in Nat /\ StoreAddress \in Nat
           /\ (pc = 32 => Instruction = Jump(32))
           /\ (pc = 64 => Instruction = Lui(15, Upper(Value)))
           /\ (pc = 65 => Instruction = Lui(14, Upper(StoreAddress)))
           /\ (pc = 66 => Instruction = Addi(15, Lower(Value)))
           /\ (pc = 67 => Instruction = Sw(Lower(StoreAddress) % Lane, Lower(StoreAddress) \div Lane))
           /\ (pc = 68 => Instruction = Addi(10, 0))
           /\ (pc = 69 => Instruction = Return)
  <1>1. /\ index \in Nat /\ index >= 1 /\ Value \in 0 .. Width - 1
        /\ ram = header_hex \o modify_hex(StoreOffset, Value)
    <2>1. index \in 1 .. Len(file)
      BY DEF Running
    <2> QED BY <2>1 DEF Running
  <1>2. StoreOffset \in Nat /\ StoreAddress \in Nat
    BY <1>1, Sizes, SMT DEF StoreOffset, StoreAddress
  <1>3. Laid(ram, StoreAddress, Value)
    BY <1>1, <1>2, ProgramLayout DEF StoreAddress
  <1>4. /\ (pc = 32 => pc + 1 = 33) /\ (pc = 64 => pc + 1 = 65) /\ (pc = 65 => pc + 1 = 66)
        /\ (pc = 66 => pc + 1 = 67) /\ (pc = 67 => pc + 1 = 68) /\ (pc = 68 => pc + 1 = 69)
        /\ (pc = 69 => pc + 1 = 70)
    BY SMT
  <1>5. /\ (pc = 32 => Instruction = Jump(32))
        /\ (pc = 64 => Instruction = Lui(15, Upper(Value)))
        /\ (pc = 65 => Instruction = Lui(14, Upper(StoreAddress)))
        /\ (pc = 66 => Instruction = Addi(15, Lower(Value)))
    BY <1>3, <1>4, Zenon DEF Instruction, Laid
  <1>6. /\ (pc = 67 => Instruction = Sw(Lower(StoreAddress) % Lane, Lower(StoreAddress) \div Lane))
        /\ (pc = 68 => Instruction = Addi(10, 0))
        /\ (pc = 69 => Instruction = Return)
    BY <1>3, <1>4, Zenon DEF Instruction, Laid
  <1> QED BY <1>1, <1>2, <1>5, <1>6

(* Each instruction is of its own kind, so the step that is taken tells where the CPU is.  *)
LEMMA WhereIs ==
    ASSUME Running
    PROVE  /\ (Instruction.op = "jal" => pc = 32)
           /\ (Instruction.op = "lui" => pc \in {64, 65})
           /\ (Instruction.op = "addi" => pc \in {66, 68})
           /\ (Instruction.op = "sw" => pc = 67)
           /\ (Instruction.op = "ret" => pc = 69)
  <1>1. pc \in {32, 64, 65, 66, 67, 68, 69}
    BY SMT DEF Running
  <1> QED BY <1>1, Decode DEF Jump, Lui, Addi, Sw, Return

-----------------------------------------------------------------------------
LEMMA SmallMod ==
    ASSUME NEW x \in Nat, NEW d \in Nat \ {0}, x < d
    PROVE  x % d = x
  <1>1. x = 0 * d + x /\ x \in 0 .. d - 1
    BY SMT
  <1> QED BY <1>1, ModUnique

LEMMA LoadMakesValue ==
    ASSUME NEW v \in 0 .. Width - 1
    PROVE  (Upper(v) * Low + Signed(Lower(v))) % Width = v
  <1>1. v \in Nat /\ v < Width /\ Width \in Nat \ {0}
    BY Sizes, SMT
  <1> QED BY <1>1, SplitIsExact, SmallMod

LEMMA StoreMakesAddress ==
    ASSUME NEW a \in Nat
    PROVE  (Upper(a) * Low + Signed((Lower(a) \div Lane) * Lane + (Lower(a) % Lane))) % Width
              = a % Width
  <1>1. Lower(a) \in Nat /\ Lane \in Nat \ {0}
    BY SplitIsExact, Sizes, SMT
  <1> DEFINE l == Lower(a)
             q == l \div Lane
             r == l % Lane
  <1>2. q \in Nat /\ r \in 0 .. Lane - 1 /\ l = Lane * q + r
    BY <1>1, DivMod
  <1> HIDE DEF l, q, r
  <1>3. q * Lane + r = l
    BY <1>1, <1>2, SMT
  <1>4. (Lower(a) \div Lane) * Lane + (Lower(a) % Lane) = Lower(a)
    BY <1>3 DEF l, q, r
  <1> QED BY <1>4, SplitIsExact

LEMMA PlacesDiffer ==
    ASSUME NEW j \in Nat, NEW k \in Nat, NEW n \in Nat, j < n, k < n, 4 * n <= Width,
           Place(j) = Place(k)
    PROVE  j = k
  <1>1. /\ new_base_address + 4 * j \in Nat /\ new_base_address + 4 * k \in Nat
        /\ Width \in Nat \ {0}
        /\ (new_base_address + 4 * j) - (new_base_address + 4 * k) < Width
        /\ (new_base_address + 4 * k) - (new_base_address + 4 * j) < Width
    BY Sizes, SMT
  <1>2. new_base_address + 4 * j = new_base_address + 4 * k
    BY <1>1, ModInjective DEF Place
  <1> QED BY <1>2, Sizes, SMT

(* A word that is cut off leaves everything as it is, another one adds its cell.           *)
LEMMA SkipKeepsStored ==
    ASSUME NEW f, NEW c, NEW n \in Nat, f[n + 1] = Short, Stored(f, c, n)
    PROVE  Stored(f, c, n + 1)
  <1>1. WholeOf(f, n + 1) = WholeOf(f, n)
    BY SMT DEF WholeOf
  <1> QED BY <1>1 DEF Stored

LEMMA StoreKeepsStored ==
    ASSUME NEW f, Len(f) \in Nat, NEW c, NEW d, NEW n \in Nat, n < Len(f), f[n + 1] # Short,
           Stored(f, c, n),
           d = [b \in DOMAIN c \cup {Place(n)} |-> IF b = Place(n) THEN f[n + 1] ELSE c[b]]
    PROVE  Stored(f, d, n + 1)
  <1> SUFFICES ASSUME 4 * Len(f) <= Width
               PROVE  /\ DOMAIN d = {Place(k) : k \in WholeOf(f, n + 1)}
                      /\ \A k \in WholeOf(f, n + 1) : d[Place(k)] = f[k + 1]
    BY DEF Stored
  <1>1. WholeOf(f, n + 1) = WholeOf(f, n) \cup {n}
    BY SMT DEF WholeOf
  <1>2. /\ DOMAIN c = {Place(k) : k \in WholeOf(f, n)}
        /\ \A k \in WholeOf(f, n) : c[Place(k)] = f[k + 1]
    BY DEF Stored
  <1>3. DOMAIN d = {Place(k) : k \in WholeOf(f, n + 1)}
    <2>1. DOMAIN d = DOMAIN c \cup {Place(n)}
      OBVIOUS
    <2> QED BY <1>1, <1>2, <2>1
  <1>4. ASSUME NEW k \in WholeOf(f, n)
        PROVE  Place(k) # Place(n)
    <2>1. k \in Nat /\ k < Len(f) /\ k # n
      BY SMT DEF WholeOf
    <2> QED BY <2>1, PlacesDiffer
  <1>5. ASSUME NEW k \in WholeOf(f, n + 1)
        PROVE  d[Place(k)] = f[k + 1]
    <2>1. Place(k) \in DOMAIN c \cup {Place(n)}
      BY <1>1, <1>2
    <2>2. CASE k = n
      BY <2>1, <2>2
    <2>3. CASE k \in WholeOf(f, n)
      BY <1>2, <1>4, <2>1, <2>3
    <2> QED BY <1>1, <2>2, <2>3
  <1> QED BY <1>3, <1>5

-----------------------------------------------------------------------------
LEMMA StoreInvInit == StoreInit => StoreInv
  BY SMT DEF StoreInit, StoreInv

LEMMA StoreInvStart ==
    ASSUME StoreInv, StoreStart
    PROVE  StoreInv'
  <1>1. file' \in Seq(0 .. Width - 1 \cup {Short})
    BY StoreAssumption DEF StoreStart, Short
  <1>2. Stored(file', cells', index')
    <2>1. index' = 0 /\ DOMAIN cells' = {}
      BY DEF StoreInv, StoreStart
    <2>2. WholeOf(file', index') = {}
      BY <2>1, SMT DEF WholeOf
    <2> QED BY <2>1, <2>2 DEF Stored
  <1>3. index' = 0 /\ sst' = "send"
    BY DEF StoreInv, StoreStart
  <1>4. Len(file') \in Nat
    BY <1>1
  <1>5. index' \in 0 .. Len(file')
    BY <1>3, <1>4, SMT
  <1> QED BY <1>1, <1>2, <1>3, <1>5 DEF StoreInv

LEMMA StoreInvSend ==
    ASSUME StoreInv, SendWord
    PROVE  StoreInv'
  <1>1. /\ sst = "send" /\ index < Len(file) /\ index' = index + 1
        /\ file' = file /\ cells' = cells /\ Stored(file, cells, index)
        /\ file \in Seq(0 .. Width - 1 \cup {Short}) /\ index \in 0 .. Len(file)
    BY DEF StoreInv, SendWord
  <1>2. Len(file) \in Nat /\ index \in Nat /\ index + 1 \in 1 .. Len(file)
    BY <1>1, SMT
  <1>3. index' \in 0 .. Len(file')
    BY <1>1, <1>2, SMT
  <1>4. CASE file[index + 1] = Short
    <2>1. sst' = "send"
      BY <1>1, <1>4 DEF SendWord
    <2>2. Stored(file', cells', index')
      BY <1>1, <1>2, <1>4, SkipKeepsStored
    <2> QED BY <1>1, <1>3, <2>1, <2>2 DEF StoreInv
  <1>5. CASE file[index + 1] # Short
    <2>1. /\ ram' = header_hex \o modify_hex(4 * index, file[index + 1])
          /\ pc' = 32 /\ sst' = "run"
      BY <1>5 DEF SendWord, BootWord
    <2>2. index' - 1 = index
      BY <1>1, <1>2, SMT
    <2>3. Value' = file[index + 1] /\ StoreOffset' = 4 * index
      BY <1>1, <2>2 DEF Value, StoreOffset
    <2>4. file[index + 1] \in 0 .. Width - 1
      BY <1>1, <1>2, <1>5
    <2>5. Stored(file', cells', index' - 1)
      BY <1>1, <2>2
    <2>6. index' \in 1 .. Len(file')
      BY <1>1, <1>2
    <2>7. pc' < 68 /\ ~(pc' >= 68) /\ pc' \notin {65, 66} /\ pc' \notin {66, 67} /\ pc' # 67
          /\ pc' \in {32} \cup 64 .. 69
      BY <2>1, SMT
    <2>8. Running'
      BY <2>1, <2>3, <2>4, <2>5, <2>6, <2>7, Zenon DEF Running
    <2> QED BY <1>1, <1>3, <2>1, <2>8 DEF StoreInv
  <1> QED BY <1>4, <1>5

(* What an instruction that goes on in the program leaves as it is.                       *)
Going == /\ sst = "run" /\ sst' = "run" /\ file' = file /\ index' = index /\ ram' = ram

LEMMA GoingKeeps ==
    ASSUME StoreInv, Going, pc' \in {32} \cup 64 .. 69,
           pc' \in {65, 66} => x15' = Upper(Value) * Low,
           pc' \in {66, 67} => x14' = Upper(StoreAddress) * Low,
           pc' = 67 => x15' = Value,
           pc' < 68 => Stored(file, cells', index - 1),
           pc' >= 68 => Stored(file, cells', index)
    PROVE  StoreInv'
  <1>1. Running /\ sst' = "run"
    BY DEF StoreInv, Going
  <1>2. Value' = Value /\ StoreOffset' = StoreOffset /\ StoreAddress' = StoreAddress
    BY DEF Going, Value, StoreOffset, StoreAddress
  <1>3. /\ file' = file /\ index' = index /\ ram' = ram
    BY DEF Going
  <1>4. Running'
    BY <1>1, <1>2, <1>3, Zenon DEF Running
  <1> QED BY <1>1, <1>3, <1>4, Zenon DEF StoreInv

LEMMA StoreInvJal ==
    ASSUME StoreInv, Jal
    PROVE  StoreInv'
  <1>1. Running /\ Going /\ cells' = cells
    BY DEF StoreInv, Jal, Going
  <1>2. pc = 32 /\ Instruction = Jump(32)
    BY <1>1, WhereIs, Decode DEF Jal
  <1>3. pc' = 64
    BY <1>2 DEF Jal, Jump
  <1>4. Stored(file, cells', index - 1)
    BY <1>1, <1>2 DEF Running
  <1> QED BY <1>1, <1>3, <1>4, GoingKeeps

LEMMA StoreInvLoadUpper ==
    ASSUME StoreInv, LoadUpper
    PROVE  StoreInv'
  <1>1. Running /\ Going /\ cells' = cells /\ pc' = pc + 1
    BY DEF StoreInv, LoadUpper, Going
  <1>2. pc \in {64, 65}
    BY <1>1, WhereIs DEF LoadUpper
  <1>3. Stored(file, cells', index - 1)
    BY <1>1, <1>2 DEF Running
  <1>4. CASE pc = 64
    <2>1. pc' = 65
      BY <1>1, <1>4
    <2>2. x15' = Upper(Value) * Low
      BY <1>1, <1>4, Decode DEF LoadUpper, Lui
    <2> QED BY <1>1, <1>3, <2>1, <2>2, GoingKeeps
  <1>5. CASE pc = 65
    <2>1. pc' = 66
      BY <1>1, <1>5
    <2>2. x14' = Upper(StoreAddress) * Low /\ x15' = x15
      BY <1>1, <1>5, Decode DEF LoadUpper, Lui
    <2>3. x15' = Upper(Value) * Low
      BY <1>1, <1>5, <2>2 DEF Running
    <2> QED BY <1>1, <1>3, <2>1, <2>2, <2>3, GoingKeeps
  <1> QED BY <1>2, <1>4, <1>5

LEMMA StoreInvAddImmediate ==
    ASSUME StoreInv, AddImmediate
    PROVE  StoreInv'
  <1>1. Running /\ Going /\ cells' = cells /\ x14' = x14 /\ pc' = pc + 1
    BY DEF StoreInv, AddImmediate, Going
  <1>2. pc \in {66, 68}
    BY <1>1, WhereIs DEF AddImmediate
  <1>3. CASE pc = 66
    <2>1. pc' = 67
      BY <1>1, <1>3
    <2>2. Instruction = Addi(15, Lower(Value)) /\ Value \in 0 .. Width - 1
      BY <1>1, <1>3, Decode
    <2>3. x15' = (x15 + Signed(Lower(Value))) % Width
      BY <2>2 DEF AddImmediate, Addi
    <2>4. x15 = Upper(Value) * Low /\ x14' = Upper(StoreAddress) * Low
      BY <1>1, <1>3 DEF Running
    <2>5. x15' = Value
      BY <2>2, <2>3, <2>4, LoadMakesValue
    <2>6. Stored(file, cells', index - 1)
      BY <1>1, <1>3 DEF Running
    <2> QED BY <1>1, <2>1, <2>4, <2>5, <2>6, GoingKeeps
  <1>4. CASE pc = 68
    <2>1. pc' = 69
      BY <1>1, <1>4
    <2>2. Stored(file, cells', index)
      BY <1>1, <1>4 DEF Running
    <2> QED BY <1>1, <2>1, <2>2, GoingKeeps
  <1> QED BY <1>2, <1>3, <1>4

LEMMA StoreInvStore ==
    ASSUME StoreInv, Store
    PROVE  StoreInv'
  <1>1. Running /\ Going /\ pc' = pc + 1
    BY DEF StoreInv, Store, Going
  <1>2. pc = 67
    BY <1>1, WhereIs DEF Store
  <1>3. pc' = 68
    BY <1>1, <1>2
  <1>4. /\ Instruction = Sw(Lower(StoreAddress) % Lane, Lower(StoreAddress) \div Lane)
        /\ StoreAddress \in Nat /\ Value \in 0 .. Width - 1
    BY <1>1, <1>2, Decode
  <1>5. x15 = Value /\ x14 = Upper(StoreAddress) * Low /\ Stored(file, cells, index - 1)
    BY <1>1, <1>2 DEF Running
  <1> DEFINE a == (x14 + Signed(Instruction.top * Lane + Instruction.imm)) % Width
  <1>6. a = Place(index - 1)
    <2>1. Instruction.top = Lower(StoreAddress) \div Lane /\ Instruction.imm = Lower(StoreAddress) % Lane
      BY <1>4 DEF Sw
    <2>2. a = StoreAddress % Width
      BY <1>4, <1>5, <2>1, StoreMakesAddress
    <2> QED BY <2>2 DEF StoreAddress, StoreOffset, Place
  <1>7. cells' = [b \in DOMAIN cells \cup {a} |-> IF b = a THEN x15 ELSE cells[b]]
    BY DEF Store
  <1> HIDE DEF a
  <1> DEFINE n == index - 1
  <1>8. /\ n \in Nat /\ n < Len(file) /\ n + 1 = index /\ Len(file) \in Nat
    <2>1. index \in 1 .. Len(file) /\ Len(file) \in Nat
      BY <1>1 DEF Running, StoreInv
    <2> QED BY <2>1, SMT
  <1>9. file[n + 1] = x15 /\ file[n + 1] # Short
    <2>1. file[n + 1] = Value
      BY <1>8 DEF Value
    <2>2. Value # -1
      BY <1>4, Sizes, SMT
    <2> QED BY <1>5, <2>1, <2>2 DEF Short
  <1>10. /\ Stored(file, cells, n)
         /\ cells' = [b \in DOMAIN cells \cup {Place(n)} |->
                         IF b = Place(n) THEN file[n + 1] ELSE cells[b]]
    BY <1>5, <1>6, <1>7, <1>9
  <1> HIDE DEF n
  <1>11. Stored(file, cells', n + 1)
    BY <1>8, <1>9, <1>10, StoreKeepsStored
  <1>12. Stored(file, cells', index)
    BY <1>8, <1>11
  <1> QED BY <1>1, <1>3, <1>12, GoingKeeps

LEMMA StoreInvRet ==
    ASSUME StoreInv, Ret
    PROVE  StoreInv'
  <1>1. Running /\ cells' = cells /\ file' = file /\ index' = index /\ sst' = "send"
    BY DEF StoreInv, Ret
  <1>2. pc = 69
    BY <1>1, WhereIs DEF Ret
  <1>3. Stored(file', cells', index')
    BY <1>1, <1>2 DEF Running
  <1> QED BY <1>1, <1>3 DEF StoreInv

LEMMA StoreInvStep == StoreInv /\ [StoreNext]_storeVars => StoreInv'
  <1> SUFFICES ASSUME StoreInv, [StoreNext]_storeVars
               PROVE  StoreInv'
    OBVIOUS
  <1>1. CASE UNCHANGED storeVars
    <2>1. UNCHANGED <<sst, file, index, ram, pc, x14, x15, cells>>
      BY <1>1, Zenon DEF storeVars
    <2>2. Value' = Value /\ StoreOffset' = StoreOffset /\ StoreAddress' = StoreAddress
      BY <2>1 DEF Value, StoreOffset, StoreAddress
    <2>3. Running => Running'
      BY <2>1, <2>2 DEF Running
    <2> QED BY <2>1, <2>3 DEF StoreInv
  <1> QED BY <1>1, StoreInvStart, StoreInvSend, StoreInvLoadUpper, StoreInvAddImmediate,
             StoreInvStore, StoreInvJal, StoreInvRet DEF StoreNext

(* tools/dram_write_chunk_hexs.py stores every word of an image at its address, whatever     *)
(* the image, the base address and the widths of the immediates.                        *)
THEOREM StoredWords == StoreSpec => []EveryWordIsStored
  <1>1. StoreInv => EveryWordIsStored
    <2>1. StoreInv /\ sst = "send" => Stored(file, cells, index)
      BY DEF StoreInv
    <2>2. WholeOf(file, index) = Whole(index)
      BY DEF WholeOf, Whole
    <2> QED BY <2>1, <2>2 DEF Stored, EveryWordIsStored
  <1> QED BY <1>1, StoreInvInit, StoreInvStep, PTL DEF StoreSpec

-----------------------------------------------------------------------------
(* DramChunks                                                                *)

LEMMA SeqIsSequence ==
    ASSUME NEW T, NEW t \in Seq(T)
    PROVE  IsSequence(t)
  <1>1. Len(t) \in Nat /\ DOMAIN t = 1 .. Len(t) /\ t \in [1 .. Len(t) -> T]
    BY SMT
  <1>2. t \in [1 .. Len(t) -> {t[k] : k \in DOMAIN t}]
    BY <1>1
  <1> QED BY <1>1, <1>2, SeqDef DEF IsSequence

LEMMA EmptyIsSequence == IsSequence(<<>>)
  <1>1. <<>> \in Seq({})
    BY SMT
  <1> QED BY <1>1, SeqIsSequence

LEMMA AppendIsSequence ==
    ASSUME NEW t, IsSequence(t), NEW e
    PROVE  /\ IsSequence(Append(t, e)) /\ Len(t) \in Nat /\ Len(Append(t, e)) = Len(t) + 1
           /\ \A k \in 1 .. Len(t) : Append(t, e)[k] = t[k]
           /\ Append(t, e)[Len(t) + 1] = e
  <1> DEFINE T == {t[k] : k \in DOMAIN t} \cup {e}
  <1>1. t \in Seq(T) /\ e \in T
    <2>1. t \in Seq({t[k] : k \in DOMAIN t})
      BY DEF IsSequence
    <2>2. Len(t) \in Nat /\ t \in [1 .. Len(t) -> {t[k] : k \in DOMAIN t}]
      BY <2>1, SMT
    <2>3. t \in [1 .. Len(t) -> T]
      BY <2>2
    <2> QED BY <2>2, <2>3, SeqDef
  <1> HIDE DEF T
  <1>2. Append(t, e) \in Seq(T)
    BY <1>1, SMT
  <1>3. IsSequence(Append(t, e))
    BY <1>2, SeqIsSequence
  <1> QED BY <1>1, <1>3, AppendProperties

LEMMA SequencesEqual ==
    ASSUME NEW t, NEW u, IsSequence(t), IsSequence(u), Len(t) = Len(u),
           \A k \in 1 .. Len(t) : t[k] = u[k]
    PROVE  t = u
  <1>1. Len(t) \in Nat /\ DOMAIN t = 1 .. Len(t) /\ DOMAIN u = 1 .. Len(t)
    BY SMT DEF IsSequence
  <1>2. {t[k] : k \in DOMAIN t} = {u[k] : k \in DOMAIN u}
    BY <1>1
  <1> QED BY <1>2, SeqEqual DEF IsSequence

LEMMA ProductGrows ==
    ASSUME NEW a \in Int, NEW b \in Int, a <= b, NEW d \in Nat
    PROVE  a * d <= b * d
  <1>1. PICK c \in Nat : b = a + c
    <2>1. b - a \in Nat /\ b = a + (b - a)
      BY SMT
    <2> QED BY <2>1
  <1>2. b * d = a * d + c * d
    BY <1>1, SMT
  <1>3. c * d \in Nat /\ a * d \in Int
    BY <1>1, SMT
  <1> QED BY <1>2, <1>3, SMT

(* The image is cut where it should be: no chunk is missing, none is empty.            *)
LEMMA ChunksCover ==
    ASSUME IsSequence(words)
    PROVE  /\ num_chunks \in Nat /\ Len(words) \in Nat
           /\ Len(words) <= num_chunks * WORDS_PER_FILE
           /\ \A n \in Nat : n < num_chunks => n * WORDS_PER_FILE < Len(words)
  <1> DEFINE L == Len(words)
             D == WORDS_PER_FILE
             N == num_chunks
  <1>1. L \in Nat /\ D \in Nat \ {0}
    BY ChunkAssumption DEF IsSequence
  <1>2. PICK r \in 0 .. D - 1 : N \in Nat /\ L + D - 1 = D * N + r
    <2>1. L + D - 1 \in Nat
      BY <1>1, SMT
    <2> QED BY <1>1, <2>1, DivMod DEF num_chunks
  <1> HIDE DEF L, D, N
  <1>3. PICK p \in Nat : p = N * D /\ p = D * N
    BY <1>1, <1>2, SMT
  <1>4. L <= p /\ (N - 1) * D < L
    BY <1>1, <1>2, <1>3, SMT
  <1>5. ASSUME NEW n \in Nat, n < N
        PROVE  n * D < L
    <2>1. n * D <= (N - 1) * D /\ n * D \in Int /\ (N - 1) * D \in Int
      BY <1>1, <1>2, <1>5, ProductGrows, SMT
    <2> QED BY <1>1, <1>4, <2>1, SMT
  <1> QED BY <1>1, <1>2, <1>3, <1>4, <1>5 DEF L, D, N

(* A program that begins where chunk n does; its words come one after the other.       *)
BeginsAt(n, program) ==
    program.start = n * START_ADDRESS_STEP /\ DOMAIN program.data \subseteq Nat \ {0}

(* Chunk n begins at its place and holds the words of the image from there.           *)
LEMMA ChunkIsThere ==
    ASSUME IsSequence(words), NEW n \in Nat, n < num_chunks
    PROVE  /\ BeginsAt(n, Chunk(n))
           /\ \A k \in DOMAIN words :
                 InChunk(k, n) =>
                    /\ k - n * WORDS_PER_FILE \in DOMAIN Chunk(n).data
                    /\ Chunk(n).data[k - n * WORDS_PER_FILE] = words[k]
  <1> DEFINE L == Len(words)
             D == WORDS_PER_FILE
             from == n * D
             upto == IF from + D < L THEN from + D ELSE L
             data == SubSeq(words, from + 1, upto)
             T == {words[k] : k \in DOMAIN words}
  <1>1. L \in Nat /\ D \in Nat \ {0} /\ words \in Seq(T) /\ DOMAIN words = 1 .. L
    BY ChunkAssumption DEF IsSequence
  <1>2. from \in Nat /\ from < L /\ (n + 1) * D = from + D
    BY <1>1, ChunksCover, SMT
  <1>3. Chunk(n) = [start |-> n * START_ADDRESS_STEP,
                    data |-> IF n = num_chunks - 1 THEN Append(data, Terminator) ELSE data]
    BY Zenon DEF Chunk
  <1> HIDE DEF L, D, from, T
  <1>4. /\ upto \in Nat /\ from + 1 \in 1 .. upto /\ upto <= L /\ upto <= from + D
        /\ (upto = from + D \/ upto = L)
    BY <1>1, <1>2, SMT
  <1> HIDE DEF upto
  <1>5. /\ data \in Seq(T) /\ Len(data) = upto - from
        /\ \A j \in 1 .. Len(data) : data[j] = words[from + j]
    <2>1. Len(words) = L
      BY DEF L
    <2>2. \A i \in from + 1 .. upto : words[i] \in T
      <3>1. \A i \in from + 1 .. upto : i \in 1 .. L
        BY <1>1, <1>2, <1>4, SMT
      <3> QED BY <1>1, <3>1, ElementOfSeq, <2>1
    <2>3. /\ data \in Seq(T) /\ Len(data) = (IF from + 1 <= upto THEN upto - (from + 1) + 1 ELSE 0)
          /\ \A i \in 1 .. upto - (from + 1) + 1 : data[i] = words[from + 1 + i - 1]
      BY <1>1, <1>2, <1>4, <2>2, SubSeqProperties
    <2>4. Len(data) = upto - from /\ upto - (from + 1) + 1 = upto - from
      BY <1>2, <1>4, <2>3, SMT
    <2>5. ASSUME NEW j \in 1 .. Len(data)
          PROVE  data[j] = words[from + j]
      <3>1. from + 1 + j - 1 = from + j
        BY <1>2, <1>4, <2>4, SMT
      <3> QED BY <2>3, <2>4, <3>1
    <2> QED BY <2>3, <2>4, <2>5
  <1> HIDE DEF data
  <1>6. IsSequence(data) /\ DOMAIN data = 1 .. Len(data)
    BY <1>5, SeqIsSequence
  <1>7. /\ DOMAIN Append(data, Terminator) \subseteq Nat \ {0}
        /\ \A j \in 1 .. Len(data) :
              j \in DOMAIN Append(data, Terminator) /\ Append(data, Terminator)[j] = data[j]
    <2>1. /\ IsSequence(Append(data, Terminator)) /\ Len(data) \in Nat
          /\ Len(Append(data, Terminator)) = Len(data) + 1
          /\ \A j \in 1 .. Len(data) : Append(data, Terminator)[j] = data[j]
      BY <1>6, AppendIsSequence
    <2>2. DOMAIN Append(data, Terminator) = 1 .. Len(data) + 1
      BY <2>1 DEF IsSequence
    <2> QED BY <2>1, <2>2, SMT
  <1>8. /\ DOMAIN Chunk(n).data \subseteq Nat \ {0}
        /\ \A j \in 1 .. Len(data) : j \in DOMAIN Chunk(n).data /\ Chunk(n).data[j] = data[j]
    BY <1>3, <1>6, <1>7
  <1>9. BeginsAt(n, Chunk(n))
    BY <1>3, <1>8 DEF BeginsAt
  <1>10. ASSUME NEW k \in DOMAIN words, from < k, k <= from + D
         PROVE  k - from \in DOMAIN Chunk(n).data /\ Chunk(n).data[k - from] = words[k]
    <2>1. k \in Nat /\ k <= L
      BY <1>1
    <2>2. k - from \in 1 .. Len(data) /\ from + (k - from) = k
      BY <1>1, <1>2, <1>4, <1>5, <1>10, <2>1, SMT
    <2> QED BY <1>5, <1>8, <2>2
  <1> QED BY <1>2, <1>9, <1>10 DEF InChunk, from, D

(* Chunk n is in the DRAM.                                                     *)
InDram(n) ==
    \A k \in DOMAIN words : InChunk(k, n) =>
       Address(k) \in DOMAIN dram /\ dram[Address(k)] = words[k]

(* Where a phase of the script is, every chunk before chunkNo has got through it, and those   *)
(* that the loader took are in the DRAM.  The programs of an older, longer image that are     *)
(* still there begin behind the new one, so that it is enough to know where they begin.     *)
HexesMade(n) == \A m \in 0 .. n - 1 : m \in DOMAIN hexes => hexes[m] = Chunk(m)

ImageInv ==
    /\ cst \in {"idle", "generate", "compile", "send", "done"}
    /\ chunkNo \in Nat /\ IsSequence(words)
    /\ \A n \in DOMAIN hexes : n \in Nat /\ BeginsAt(n, hexes[n])
    /\ cst \in {"generate", "compile"} => chunkNo <= num_chunks
    /\ cst = "generate" => \A n \in 0 .. chunkNo - 1 : n \in DOMAIN temp /\ temp[n] = Chunk(n)
    /\ cst = "compile" =>
          /\ \A n \in 0 .. num_chunks - 1 : temp[n] = Chunk(n)
          /\ HexesMade(chunkNo)
    /\ cst = "send" => HexesMade(num_chunks)
    /\ cst \notin {"send", "done"} => loaded = {}
    /\ \A n \in loaded : n \in Nat /\ n < chunkNo /\ InDram(n)

(* The loop of main(): the words of the program are in the DRAM, and nothing below its     *)
(* start is touched.                                                        *)
LEMMA RunWrites ==
    ASSUME NEW program, NEW n \in Nat, BeginsAt(n, program), Runs(program)
    PROVE  /\ \A j \in DOMAIN program.data :
                 LET a == program.start + (j - 1) * WordSize
                 IN a \in DOMAIN dram' /\ dram'[a] = program.data[j]
           /\ \A a \in DOMAIN dram :
                 a \in Int /\ a < program.start => a \in DOMAIN dram' /\ dram'[a] = dram[a]
  <1> DEFINE target == {program.start + (j - 1) * WordSize : j \in DOMAIN program.data}
  <1>1. /\ program.start \in Nat /\ DOMAIN program.data \subseteq Nat \ {0}
    <2>1. START_ADDRESS_STEP \in Nat
      BY ChunkAssumption, SMT DEF START_ADDRESS_STEP, WordSize
    <2> QED BY <2>1, SMT DEF BeginsAt
  <1>2. dram' = [a \in DOMAIN dram \cup target |->
                   IF a \in target THEN program.data[((a - program.start) \div WordSize) + 1]
                   ELSE dram[a]]
    BY Zenon DEF Runs
  <1>3. ASSUME NEW j \in DOMAIN program.data
        PROVE  LET a == program.start + (j - 1) * WordSize
               IN a \in DOMAIN dram' /\ dram'[a] = program.data[j]
    <2> DEFINE a == program.start + (j - 1) * WordSize
    <2>1. a \in target
      OBVIOUS
    <2>2. ((a - program.start) \div WordSize) + 1 = j
      <3>1. PICK i \in Nat : j = i + 1
        <4>1. j - 1 \in Nat /\ j = (j - 1) + 1
          BY <1>1, SMT
        <4> QED BY <4>1
      <3>2. PICK start \in Nat : start = program.start
        BY <1>1
      <3>3. a - program.start = i * 4
        BY <3>1, <3>2, SMT DEF WordSize
      <3> QED BY <3>1, <3>3, SMT DEF WordSize
    <2> QED BY <1>2, <2>1, <2>2
  <1>4. ASSUME NEW a \in DOMAIN dram, a \in Int, a < program.start
        PROVE  a \in DOMAIN dram' /\ dram'[a] = dram[a]
    <2>1. a \notin target
      <3>1. \A j \in DOMAIN program.data : program.start + (j - 1) * WordSize >= program.start
        BY <1>1, SMT DEF WordSize
      <3> QED BY <1>1, <1>4, <3>1, SMT
    <2> QED BY <1>2, <2>1
  <1> QED BY <1>3, <1>4

(* The words of the chunks before n have their addresses before chunk n begins.          *)
LEMMA AddressesApart ==
    ASSUME NEW n \in Nat, NEW k \in Nat \ {0}
    PROVE  /\ Address(k) \in Nat /\ n * START_ADDRESS_STEP \in Nat
           /\ (k <= n * WORDS_PER_FILE => Address(k) < n * START_ADDRESS_STEP)
           /\ n * START_ADDRESS_STEP + (k - 1) * WordSize = Address(n * WORDS_PER_FILE + k)
  <1>1. WORDS_PER_FILE \in Nat
    BY ChunkAssumption
  <1>2. PICK p \in Nat : p = n * WORDS_PER_FILE
    BY <1>1, SMT
  <1>3. n * START_ADDRESS_STEP = p * 4
    BY <1>1, <1>2, SMT DEF START_ADDRESS_STEP, WordSize
  <1> QED BY <1>2, <1>3, SMT DEF Address, WordSize

-----------------------------------------------------------------------------
LEMMA ImageInvInit == ChunkInit => ImageInv
  <1> SUFFICES ASSUME ChunkInit PROVE ImageInv
    OBVIOUS
  <1>1. DOMAIN hexes = {} /\ loaded = {}
    BY DEF ChunkInit, None
  <1> QED BY <1>1, EmptyIsSequence DEF ChunkInit, ImageInv

LEMMA ImageInvStart ==
    ASSUME ImageInv, ChunkStart
    PROVE  ImageInv'
  <1>1. /\ cst' = "generate" /\ chunkNo' = 0 /\ loaded' = {}
        /\ words' \in DramImages
        /\ DOMAIN hexes' \subseteq DOMAIN hexes /\ \A n \in DOMAIN hexes' : hexes'[n] = hexes[n]
    BY DEF ChunkStart, None
  <1>2. IsSequence(words')
    BY <1>1, ChunkAssumption DEF IsSequence
  <1>3. num_chunks' \in Nat
    <2>1. Len(words') \in Nat
      BY <1>2 DEF IsSequence
    <2>2. PICK l \in Nat : l = Len(words')
      BY <2>1
    <2>3. l + WORDS_PER_FILE - 1 \in Nat /\ WORDS_PER_FILE \in Nat \ {0}
      BY ChunkAssumption, SMT
    <2> QED BY <2>2, <2>3, DivMod DEF num_chunks
  <1> QED BY <1>1, <1>2, <1>3 DEF ImageInv, BeginsAt

(* A step that keeps the image keeps its chunks.                                   *)
LEMMA ChunksStay ==
    ASSUME words' = words
    PROVE  num_chunks' = num_chunks /\ \A n : Chunk(n)' = Chunk(n)
  BY Zenon DEF num_chunks, Chunk

LEMMA ImageInvGenerate ==
    ASSUME ImageInv, GenerateFile
    PROVE  ImageInv'
  <1>1. /\ cst = "generate" /\ cst' = "generate" /\ chunkNo < num_chunks
        /\ chunkNo' = chunkNo + 1 /\ words' = words /\ hexes' = hexes
        /\ loaded' = loaded
        /\ temp' = [m \in DOMAIN temp \cup {chunkNo} |->
                      IF m = chunkNo THEN Chunk(chunkNo) ELSE temp[m]]
    BY DEF GenerateFile, Put, loaderSide
  <1>2. chunkNo \in Nat /\ num_chunks \in Nat /\ IsSequence(words)
    BY ChunksCover DEF ImageInv
  <1>3. num_chunks' = num_chunks /\ \A n : Chunk(n)' = Chunk(n)
    BY <1>1, ChunksStay
  <1>4. ASSUME NEW n \in 0 .. chunkNo
        PROVE  n \in DOMAIN temp' /\ temp'[n] = Chunk(n)'
    <2>1. CASE n = chunkNo
      BY <1>1, <1>3, <2>1
    <2>2. CASE n # chunkNo
      <3>1. n \in 0 .. chunkNo - 1
        BY <1>2, <2>2
      <3>2. n \in DOMAIN temp /\ temp[n] = Chunk(n)
        BY <1>1, <3>1 DEF ImageInv
      <3> QED BY <1>1, <1>3, <2>2, <3>2
    <2> QED BY <2>1, <2>2
  <1>5. chunkNo' \in Nat /\ chunkNo' <= num_chunks'
    BY <1>1, <1>2, <1>3
  <1>6. \A n \in 0 .. chunkNo' - 1 : n \in DOMAIN temp' /\ temp'[n] = Chunk(n)'
    <2>1. 0 .. chunkNo' - 1 = 0 .. chunkNo
      BY <1>1, <1>2
    <2> QED BY <1>4, <2>1
  <1>7. \A n \in DOMAIN hexes' : n \in Nat /\ BeginsAt(n, hexes[n])'
    BY <1>1 DEF ImageInv, BeginsAt
  <1>8. loaded' = {}
    BY <1>1 DEF ImageInv
  <1> QED BY <1>1, <1>2, <1>5, <1>6, <1>7, <1>8 DEF ImageInv, IsSequence

LEMMA ImageInvGenerated ==
    ASSUME ImageInv, AllGenerated
    PROVE  ImageInv'
  <1>1. /\ cst = "generate" /\ chunkNo = num_chunks /\ cst' = "compile" /\ chunkNo' = 0
        /\ UNCHANGED <<words, temp, hexes, loaded>>
    BY DEF AllGenerated, loaderSide
  <1>2. num_chunks \in Nat /\ IsSequence(words)
    BY ChunksCover DEF ImageInv
  <1>3. num_chunks' = num_chunks /\ \A n : Chunk(n)' = Chunk(n)
    BY <1>1, ChunksStay
  <1>4. \A n \in 0 .. num_chunks - 1 : temp'[n] = Chunk(n)'
    BY <1>1, <1>3 DEF ImageInv
  <1>5. HexesMade(chunkNo)'
    BY <1>1 DEF HexesMade
  <1>6. loaded' = {}
    BY <1>1 DEF ImageInv
  <1> QED BY <1>1, <1>2, <1>3, <1>4, <1>5, <1>6 DEF ImageInv, BeginsAt, IsSequence

LEMMA ImageInvCompile ==
    ASSUME ImageInv, CompileFile
    PROVE  ImageInv'
  <1>1. /\ cst = "compile" /\ cst' = "compile" /\ chunkNo < num_chunks
        /\ chunkNo' = chunkNo + 1 /\ words' = words /\ temp' = temp /\ loaded' = loaded
        /\ \/ hexes' = [m \in DOMAIN hexes \cup {chunkNo} |->
                          IF m = chunkNo THEN temp[chunkNo] ELSE hexes[m]]
           \/ hexes' = [n \in DOMAIN hexes \ {chunkNo} |-> hexes[n]]
    BY DEF CompileFile, Put, loaderSide
  <1>2. chunkNo \in Nat /\ num_chunks \in Nat /\ IsSequence(words)
    BY ChunksCover DEF ImageInv
  <1>3. num_chunks' = num_chunks /\ \A n : Chunk(n)' = Chunk(n)
    BY <1>1, ChunksStay
  <1>4. temp[chunkNo] = Chunk(chunkNo) /\ BeginsAt(chunkNo, Chunk(chunkNo))
    <2>1. chunkNo \in 0 .. num_chunks - 1
      BY <1>1, <1>2
    <2> QED BY <1>1, <1>2, <2>1, ChunkIsThere DEF ImageInv
  <1>5. \A n \in DOMAIN hexes' : \/ n = chunkNo /\ hexes'[n] = Chunk(chunkNo)
                                 \/ n # chunkNo /\ n \in DOMAIN hexes /\ hexes'[n] = hexes[n]
    BY <1>1, <1>4
  <1>6. \A n \in DOMAIN hexes' : n \in Nat /\ BeginsAt(n, hexes[n])'
    BY <1>2, <1>4, <1>5 DEF ImageInv, BeginsAt
  <1>7. HexesMade(chunkNo)'
    <2>1. ASSUME NEW n \in 0 .. chunkNo' - 1, n \in DOMAIN hexes'
          PROVE  hexes'[n] = Chunk(n)
      <3>1. CASE n = chunkNo
        BY <1>5, <2>1, <3>1
      <3>2. CASE n # chunkNo
        <4>1. n \in 0 .. chunkNo - 1
          BY <1>1, <1>2, <3>2
        <4> QED BY <1>1, <1>5, <2>1, <3>2, <4>1 DEF ImageInv, HexesMade
      <3> QED BY <3>1, <3>2
    <2> QED BY <1>3, <2>1 DEF HexesMade
  <1>8. chunkNo' \in Nat /\ chunkNo' <= num_chunks'
    BY <1>1, <1>2, <1>3
  <1>9. \A n \in 0 .. num_chunks' - 1 : temp'[n] = Chunk(n)'
    BY <1>1, <1>3 DEF ImageInv
  <1>10. loaded' = {}
    BY <1>1 DEF ImageInv
  <1> QED BY <1>1, <1>2, <1>6, <1>7, <1>8, <1>9, <1>10 DEF ImageInv, IsSequence

LEMMA ImageInvCompiled ==
    ASSUME ImageInv, AllCompiled
    PROVE  ImageInv'
  <1>1. /\ cst = "compile" /\ chunkNo = num_chunks /\ cst' = "send" /\ chunkNo' = 0
        /\ UNCHANGED <<words, temp, hexes, loaded>>
    BY DEF AllCompiled, loaderSide
  <1>2. num_chunks \in Nat /\ IsSequence(words)
    BY ChunksCover DEF ImageInv
  <1>3. num_chunks' = num_chunks /\ \A n : Chunk(n)' = Chunk(n)
    BY <1>1, ChunksStay
  <1>4. HexesMade(num_chunks)'
    BY <1>1, <1>3 DEF ImageInv, HexesMade
  <1>5. \A n \in DOMAIN hexes' : n \in Nat /\ BeginsAt(n, hexes[n])'
    BY <1>1 DEF ImageInv, BeginsAt
  <1>6. loaded' = {}
    BY <1>1 DEF ImageInv
  <1> QED BY <1>1, <1>2, <1>4, <1>5, <1>6 DEF ImageInv, IsSequence

(* A program that is taken writes its chunk of the image, or begins behind the image if it     *)
(* is left from an older one.  Neither touches what the programs before it have written.     *)
LEMMA TakenProgramWrites ==
    ASSUME ImageInv, cst = "send", chunkNo \in DOMAIN hexes, Runs(hexes[chunkNo]), words' = words
    PROVE  \A n \in loaded \cup {chunkNo} : InDram(n)'
  <1> DEFINE program == hexes[chunkNo]
             D == WORDS_PER_FILE
  <1>1. chunkNo \in Nat /\ IsSequence(words) /\ BeginsAt(chunkNo, program)
    BY DEF ImageInv
  <1>2. /\ num_chunks \in Nat /\ Len(words) \in Nat /\ Len(words) <= num_chunks * D
        /\ DOMAIN words \subseteq Nat \ {0} /\ D \in Nat \ {0}
        /\ \A k \in DOMAIN words : k <= Len(words)
    <2>1. num_chunks \in Nat /\ Len(words) \in Nat /\ Len(words) <= num_chunks * D
      BY <1>1, ChunksCover
    <2>2. DOMAIN words = 1 .. Len(words)
      BY <1>1 DEF IsSequence
    <2> QED BY <2>1, <2>2, ChunkAssumption
  <1>3. ASSUME NEW k \in DOMAIN words, InChunk(k, chunkNo)
        PROVE  Address(k) \in DOMAIN dram' /\ dram'[Address(k)] = words[k]
    <2>1. PICK p \in Nat : p = chunkNo * D
      BY <1>1, <1>2, SMT
    <2>2. p < k /\ k \in Nat /\ k <= num_chunks * D
      BY <1>2, <1>3, <2>1, SMT DEF InChunk
    <2>3. chunkNo < num_chunks
      <3>1. SUFFICES ASSUME num_chunks <= chunkNo PROVE FALSE
        BY <1>1, <1>2
      <3>2. num_chunks * D <= chunkNo * D
        BY <1>1, <1>2, <3>1, ProductGrows
      <3>3. num_chunks * D \in Nat
        BY <1>2, SMT
      <3> QED BY <2>1, <2>2, <3>2, <3>3, SMT
    <2>4. program = Chunk(chunkNo)
      <3>1. chunkNo \in 0 .. num_chunks - 1
        BY <1>1, <1>2, <2>3
      <3> QED BY <3>1 DEF ImageInv, HexesMade
    <2>5. /\ k - p \in DOMAIN program.data /\ program.data[k - p] = words[k]
          /\ k - p \in Nat \ {0}
      <3>1. k - p \in Nat \ {0}
        BY <2>1, <2>2
      <3> QED BY <1>1, <1>3, <2>1, <2>3, <2>4, <3>1, ChunkIsThere
    <2>6. program.start + ((k - p) - 1) * WordSize = Address(k)
      <3>1. program.start + ((k - p) - 1) * WordSize = Address(p + (k - p))
        BY <1>1, <2>1, <2>5, AddressesApart DEF BeginsAt
      <3>2. p + (k - p) = k
        BY <2>1, <2>2
      <3> QED BY <3>1, <3>2
    <2>7. /\ program.start + ((k - p) - 1) * WordSize \in DOMAIN dram'
          /\ dram'[program.start + ((k - p) - 1) * WordSize] = program.data[k - p]
      BY <1>1, <2>5, RunWrites
    <2> QED BY <2>5, <2>6, <2>7
  <1>4. ASSUME NEW n \in loaded, NEW k \in DOMAIN words, InChunk(k, n)
        PROVE  Address(k) \in DOMAIN dram' /\ dram'[Address(k)] = words[k]
    <2>1. n \in Nat /\ n < chunkNo /\ Address(k) \in DOMAIN dram /\ dram[Address(k)] = words[k]
      BY <1>4 DEF ImageInv, InDram
    <2>2. k \in Nat \ {0} /\ k <= chunkNo * D
      <3>1. (n + 1) * D <= chunkNo * D
        BY <1>1, <1>2, <2>1, ProductGrows
      <3>2. (n + 1) * D \in Nat /\ chunkNo * D \in Nat
        BY <1>1, <1>2, <2>1, SMT
      <3> QED BY <1>2, <1>4, <3>1, <3>2, SMT DEF InChunk
    <2>3. Address(k) \in Nat /\ Address(k) < program.start
      BY <1>1, <2>2, AddressesApart DEF BeginsAt
    <2>4. Address(k) \in DOMAIN dram' /\ dram'[Address(k)] = dram[Address(k)]
      BY <1>1, <2>1, <2>3, RunWrites
    <2> QED BY <2>1, <2>4
  <1> HIDE DEF program, D
  <1>5. ASSUME NEW n \in loaded \cup {chunkNo}
        PROVE  InDram(n)'
    <2>1. SUFFICES ASSUME NEW k \in DOMAIN words, InChunk(k, n)
                   PROVE  Address(k) \in DOMAIN dram' /\ dram'[Address(k)] = words[k]
      BY Zenon DEF InDram, InChunk, Address
    <2>2. CASE n = chunkNo
      BY <1>3, <2>1, <2>2, Zenon
    <2>3. CASE n \in loaded
      BY <1>4, <2>1, <2>3, Zenon
    <2> QED BY <2>2, <2>3
  <1> QED BY <1>5

LEMMA ImageInvSend ==
    ASSUME ImageInv, SendChunk
    PROVE  ImageInv'
  <1>1. /\ cst = "send" /\ cst' = "send" /\ chunkNo \in DOMAIN hexes
        /\ chunkNo' = chunkNo + 1 /\ UNCHANGED <<words, temp, hexes>>
        /\ \/ Runs(hexes[chunkNo]) /\ loaded' = loaded \cup {chunkNo}
           \/ dram' = dram /\ loaded' = loaded
    BY DEF SendChunk
  <1>2. chunkNo \in Nat /\ IsSequence(words)
    BY <1>1 DEF ImageInv
  <1>3. num_chunks' = num_chunks /\ \A n : Chunk(n)' = Chunk(n)
    BY <1>1, ChunksStay
  <1>4. HexesMade(num_chunks)'
    BY <1>1, <1>3 DEF ImageInv, HexesMade
  <1>5. \A n \in DOMAIN hexes' : n \in Nat /\ BeginsAt(n, hexes[n])'
    BY <1>1 DEF ImageInv, BeginsAt
  <1>6. ASSUME NEW n \in loaded'
        PROVE  n \in Nat /\ n < chunkNo' /\ InDram(n)'
    <2>1. \A m \in loaded : m \in Nat /\ m < chunkNo + 1 /\ InDram(m)
      BY <1>2 DEF ImageInv
    <2>2. CASE Runs(hexes[chunkNo]) /\ loaded' = loaded \cup {chunkNo}
      <3>1. \A m \in loaded \cup {chunkNo} : InDram(m)'
        BY <1>1, <2>2, TakenProgramWrites
      <3>2. CASE n = chunkNo
        BY <1>1, <1>2, <3>1, <3>2
      <3>3. CASE n \in loaded
        BY <1>1, <2>1, <3>1, <3>3
      <3> QED BY <2>2, <3>2, <3>3
    <2>3. CASE dram' = dram /\ loaded' = loaded
      <3>1. \A m : InDram(m) => InDram(m)'
        BY <1>1, <2>3 DEF InDram, InChunk, Address
      <3> QED BY <1>1, <2>1, <2>3, <3>1
    <2> QED BY <1>1, <2>2, <2>3
  <1> QED BY <1>1, <1>2, <1>4, <1>5, <1>6 DEF ImageInv, IsSequence

LEMMA ImageInvSent ==
    ASSUME ImageInv, NothingToSend
    PROVE  ImageInv'
  <1>1. /\ cst = "send" /\ cst' = "done"
        /\ UNCHANGED <<words, chunkNo, temp, hexes, dram, loaded>>
    BY DEF NothingToSend, loaderSide
  <1>2. \A n \in DOMAIN hexes' : n \in Nat /\ BeginsAt(n, hexes[n])'
    BY <1>1 DEF ImageInv, BeginsAt
  <1>3. \A n \in loaded' : n \in Nat /\ n < chunkNo' /\ InDram(n)'
    <2>1. \A m : InDram(m) => InDram(m)'
      BY <1>1 DEF InDram, InChunk, Address
    <2> QED BY <1>1, <2>1 DEF ImageInv
  <1> QED BY <1>1, <1>2, <1>3 DEF ImageInv, IsSequence

LEMMA ImageInvStep == ImageInv /\ [ChunkNext]_chunkVars => ImageInv'
  <1> SUFFICES ASSUME ImageInv, [ChunkNext]_chunkVars
               PROVE  ImageInv'
    OBVIOUS
  <1>1. CASE UNCHANGED chunkVars
    <2>1. UNCHANGED <<cst, words, chunkNo, temp, hexes, dram, loaded>>
      BY <1>1 DEF chunkVars
    <2>2. num_chunks' = num_chunks /\ \A n : Chunk(n)' = Chunk(n)
      BY <2>1, ChunksStay
    <2>3. \A n \in DOMAIN hexes' : n \in Nat /\ BeginsAt(n, hexes[n])'
      BY <2>1 DEF ImageInv, BeginsAt
    <2>4. /\ HexesMade(chunkNo) => HexesMade(chunkNo)'
          /\ HexesMade(num_chunks) => HexesMade(num_chunks)'
          /\ \A n : InDram(n) => InDram(n)'
      BY <2>1, <2>2 DEF HexesMade, InDram, InChunk, Address
    <2>5. /\ cst = "generate" => \A n \in 0 .. chunkNo' - 1 : n \in DOMAIN temp' /\ temp'[n] = Chunk(n)'
          /\ cst = "compile" => \A n \in 0 .. num_chunks' - 1 : temp'[n] = Chunk(n)'
      BY <2>1, <2>2 DEF ImageInv
    <2> QED BY <2>1, <2>2, <2>3, <2>4, <2>5 DEF ImageInv, IsSequence
  <1> QED BY <1>1, ImageInvStart, ImageInvGenerate, ImageInvGenerated, ImageInvCompile,
             ImageInvCompiled, ImageInvSend, ImageInvSent DEF ChunkNext

LEMMA ImageInvHolds == ImageInv => ImageInDram
  BY DEF ImageInv, ImageInDram, InDram

(* tools/generate_simple_dram_writes.py and tools/uart_send_by_chunks.py: every chunk whose     *)
(* program the loader takes is whole in the DRAM and stays there, whatever the size of a       *)
(* chunk, the images, the programs that are not taken and those that earlier sessions left     *)
(* behind.                                                                 *)
THEOREM ChunksArrive == ChunkSpec => []ImageInDram
  BY ImageInvInit, ImageInvStep, ImageInvHolds, PTL DEF ChunkSpec

-----------------------------------------------------------------------------
(* HexTools                                                                  *)

(* While a file without empty lines is sent, the stream is as much of it as has been sent,  *)
(* and the count that was announced is that of the lines, or one more.  Only a script that   *)
(* has no word yet falls over a line.                                         *)
SentSoFar == IsSequence(stream) /\ Len(stream) <= Len(hex)
             /\ \A k \in 1 .. Len(stream) : stream[k] = hex[k]

FrameInv ==
    /\ IsSequence(hex)
    /\ hst \in {"idle", "convert", "hex"} => stream = <<>> /\ sender = "none"
    /\ (hst = "failed" /\ sender # "none") => NoWordYet
    /\ (hst \in {"send", "done"} /\ format = 1 /\ NoLineEmpty) =>
          announced \in {Len(hex), Len(hex) + 1}
    /\ (hst = "send" /\ format = 1 /\ NoLineEmpty) => SentSoFar
    /\ (hst = "done" /\ format = 1 /\ NoLineEmpty) => stream = Append(hex, Done)

LEMMA NoLineEmptyStays == hex' = hex => NoLineEmpty' = NoLineEmpty
  BY Zenon DEF NoLineEmpty, FullLines

LEMMA FrameInvInit == HexInit => FrameInv
  BY EmptyIsSequence DEF HexInit, FrameInv

LEMMA FrameInvConvert ==
    ASSUME FrameInv, HexStart \/ TakeByte \/ EndOfBinary \/ WriteSlice
    PROVE  FrameInv'
  <1>1. hst \in {"idle", "convert"} /\ hst' \in {"convert", "hex", "failed"}
    BY DEF HexStart, TakeByte, EndOfBinary, WriteSlice
  <1>2. stream' = stream /\ sender' = sender /\ stream = <<>> /\ sender = "none"
    BY <1>1 DEF FrameInv, HexStart, TakeByte, EndOfBinary, WriteSlice, frameVars
  <1>3. \/ hex' = hex
        \/ hex' \in HandWritten
        \/ \E line : hex' = Append(hex, line)
    BY Zenon DEF HexStart, TakeByte, EndOfBinary, WriteSlice
  <1>4. IsSequence(hex)'
    BY <1>3, AppendIsSequence, HexAssumption DEF FrameInv, IsSequence
  <1> QED BY <1>1, <1>2, <1>4 DEF FrameInv

LEMMA FrameInvPick ==
    ASSUME FrameInv, PickSender \/ PickBinary
    PROVE  FrameInv'
  <1>1. hst = "hex" /\ hst' = "send" /\ hex' = hex /\ stream' = stream
    BY DEF PickSender, PickBinary, convertVars
  <1>2. NoLineEmpty' = NoLineEmpty
    BY <1>1, NoLineEmptyStays
  <1>3. stream = <<>> /\ IsSequence(hex)
    BY <1>1 DEF FrameInv
  <1>4. SentSoFar'
    <2>1. Len(hex) \in Nat /\ Len(<<>>) = 0
      BY <1>3, EmptySeq DEF IsSequence
    <2> QED BY <1>1, <1>3, <2>1, EmptyIsSequence DEF SentSoFar, IsSequence
  <1>5. (format' = 1 /\ NoLineEmpty) => announced' \in {Len(hex), Len(hex) + 1}
    <2>1. CASE PickSender
      <3>1. sender' \in Senders /\ announced' = LineCount
        BY <2>1 DEF PickSender
      <3> QED BY <3>1 DEF LineCount, Senders, NoLineEmpty
    <2>2. CASE PickBinary
      BY <2>2 DEF PickBinary
    <2> QED BY <2>1, <2>2
  <1> QED BY <1>1, <1>2, <1>3, <1>4, <1>5 DEF FrameInv, IsSequence

LEMMA FrameInvSend ==
    ASSUME FrameInv, FirstLineShort \/ SendLine \/ SendPadded \/ SendDone
    PROVE  FrameInv'
  <1>1. /\ hst = "send" /\ hst' \in {"send", "done", "failed"}
        /\ UNCHANGED <<hex, format, announced, sender>>
        /\ hst' = "failed" => NoWordYet
    BY DEF FirstLineShort, SendLine, SendPadded, SendDone, convertVars, frameVars
  <1>2. /\ NoLineEmpty' = NoLineEmpty /\ NoWordYet' = NoWordYet
        /\ IsSequence(hex) /\ Len(hex) \in Nat
    BY <1>1, NoLineEmptyStays DEF FrameInv, IsSequence, NoWordYet
  <1>3. ASSUME format = 1, NoLineEmpty
        PROVE  /\ hst' = "send" => SentSoFar'
               /\ hst' = "done" => stream' = Append(hex, Done)
    <2>1. /\ IsSequence(stream) /\ Len(stream) \in Nat /\ Len(stream) <= Len(hex)
          /\ \A k \in 1 .. Len(stream) : stream[k] = hex[k]
      BY <1>1, <1>3 DEF FrameInv, SentSoFar, IsSequence
    <2>2. CASE SendLine
      <3>1. /\ hst' = "send" /\ Len(stream) < Len(hex)
            /\ stream' = Append(stream, hex[Len(stream) + 1])
        BY <1>1, <1>3, <2>2 DEF SendLine, NoLineEmpty
      <3>3. /\ IsSequence(stream)' /\ Len(stream') = Len(stream) + 1
            /\ \A k \in 1 .. Len(stream) : stream'[k] = stream[k]
            /\ stream'[Len(stream) + 1] = hex[Len(stream) + 1]
        <4>1. /\ IsSequence(Append(stream, hex[Len(stream) + 1]))
              /\ stream' = Append(stream, hex[Len(stream) + 1])
          BY <2>1, <3>1, AppendIsSequence
        <4>2. IsSequence(stream)'
          BY <4>1 DEF IsSequence
        <4> QED BY <2>1, <4>1, <4>2, AppendIsSequence
      <3>4. \A k \in 1 .. Len(stream) + 1 : stream'[k] = hex[k]
        BY <2>1, <3>3
      <3> QED BY <1>1, <1>2, <2>1, <3>1, <3>3, <3>4 DEF SentSoFar
    <2>3. CASE SendPadded
      BY <1>3, <2>3 DEF SendPadded
    <2>4. CASE SendDone
      <3>1. hst' = "done" /\ stream' = Append(stream, Done) /\ Len(stream) = Len(hex)
        BY <1>3, <2>4 DEF SendDone, NoLineEmpty
      <3>2. stream = hex
        BY <1>2, <2>1, <3>1, SequencesEqual
      <3> QED BY <3>1, <3>2
    <2>5. CASE FirstLineShort
      BY <2>5 DEF FirstLineShort
    <2> QED BY <2>2, <2>3, <2>4, <2>5
  <1> QED BY <1>1, <1>2, <1>3 DEF FrameInv, IsSequence

LEMMA FrameInvStep == FrameInv /\ [HexNext]_hexVars => FrameInv'
  <1> SUFFICES ASSUME FrameInv, [HexNext]_hexVars
               PROVE  FrameInv'
    OBVIOUS
  <1>1. CASE UNCHANGED hexVars
    <2>1. /\ UNCHANGED <<hst, hex, format, announced, stream, sender>>
          /\ NoLineEmpty' = NoLineEmpty /\ NoWordYet' = NoWordYet
      BY <1>1, NoLineEmptyStays DEF hexVars, convertVars, frameVars, NoWordYet
    <2> QED BY <2>1 DEF FrameInv, SentSoFar, IsSequence
  <1> QED BY <1>1, FrameInvConvert, FrameInvPick, FrameInvSend DEF HexNext

LEMMA FrameInvHolds == FrameInv => FramesAreWhole
  <1> SUFFICES ASSUME FrameInv, sender # "none", hst \in {"done", "failed"}, format = 1,
                      NoLineEmpty, sender = "uart_send_data" => hex # <<>>
               PROVE  /\ announced <= Len(stream)
                      /\ SubSeq(stream, 1, announced) \in {hex, Append(hex, Done)}
    BY DEF FramesAreWhole
  <1> DEFINE whole == Append(hex, Done)
  <1>0. hst = "done"
    <2>1. SUFFICES ASSUME hst = "failed"
                   PROVE  FALSE
      OBVIOUS
    <2>2. hex # <<>> /\ hex[1] = <<>> /\ IsSequence(hex)
      BY <2>1 DEF FrameInv, NoWordYet
    <2>3. 1 \in DOMAIN hex
      <3>1. Len(hex) \in Nat /\ DOMAIN hex = 1 .. Len(hex)
        BY <2>2 DEF IsSequence
      <3>2. Len(hex) # 0
        BY <2>2, EmptyIsSequence, SequencesEqual, EmptySeq
      <3> QED BY <3>1, <3>2
    <2> QED BY <2>2, <2>3 DEF NoLineEmpty
  <1>1. IsSequence(hex) /\ announced \in {Len(hex), Len(hex) + 1} /\ stream = whole
    BY <1>0 DEF FrameInv
  <1>2. /\ IsSequence(whole) /\ Len(hex) \in Nat /\ Len(whole) = Len(hex) + 1
        /\ \A k \in 1 .. Len(hex) : whole[k] = hex[k]
    BY <1>1, AppendIsSequence
  <1> HIDE DEF whole
  <1>3. CASE announced = Len(hex)
    <2> DEFINE T == {whole[k] : k \in DOMAIN whole}
               part == SubSeq(whole, 1, Len(hex))
    <2>1. \A i \in 1 .. Len(hex) : whole[i] \in T
      BY <1>2 DEF IsSequence
    <2>2. /\ part \in Seq(T)
          /\ Len(part) = (IF 1 <= Len(hex) THEN Len(hex) - 1 + 1 ELSE 0)
          /\ \A i \in 1 .. Len(hex) - 1 + 1 : part[i] = whole[1 + i - 1]
      BY <1>2, <2>1, SubSeqProperties
    <2> HIDE DEF part
    <2>3. Len(part) = Len(hex) /\ \A i \in 1 .. Len(hex) : part[i] = hex[i]
      <3>1. Len(hex) - 1 + 1 = Len(hex) /\ \A i \in 1 .. Len(hex) : 1 + i - 1 = i
        BY <1>2
      <3> QED BY <1>2, <2>2, <3>1
    <2>4. part = hex
      BY <1>1, <2>2, <2>3, SeqIsSequence, SequencesEqual
    <2> QED BY <1>1, <1>2, <1>3, <2>4 DEF part
  <1>4. CASE announced = Len(hex) + 1
    <2>1. SubSeq(whole, 1, Len(whole)) = whole
      BY <1>2, SubSeqFull DEF IsSequence
    <2> QED BY <1>1, <1>2, <1>4, <2>1 DEF whole
  <1> QED BY <1>1, <1>3, <1>4

(* When one of the three scripts has ended, however it did, with a file of lines of which none is *)
(* empty, the words the loader counts are those of the file, in order, and after them at most     *)
(* the word done, and all of them have been sent.  Not for uart_send_data.py and an empty file.   *)
THEOREM WholeFrames == HexSpec => []FramesAreWhole
  BY FrameInvInit, FrameInvStep, FrameInvHolds, PTL DEF HexSpec

-----------------------------------------------------------------------------
(* Vmem: what the first p words of a file say                                  *)

Words == [kind : {"section", "byte"}, value : Int]

PlacedTo(f, p) == {j \in Placed(f) : j <= p}

MeaningTo(f, p) ==
    [a \in {AddressOf(f, j) : j \in PlacedTo(f, p)} |->
       f[Max({j \in PlacedTo(f, p) : AddressOf(f, j) = a})].value]

(* The bytes of the last section so far.                                          *)
Counted(f, p) == Cardinality({i \in SectionOf(f, p) + 1 .. p : IsByte(f[i])})

LEMMA MaxIs ==
    ASSUME NEW S \in SUBSET Int, NEW m \in S, \A y \in S : m >= y
    PROVE  Max(S) = m
  <1> DEFINE Greatest(x) == \A y \in S : x >= y
             c == CHOOSE x \in S : Greatest(x)
  <1>1. c \in S /\ Greatest(c)
    <2>1. Greatest(m)
      OBVIOUS
    <2> QED BY <2>1
  <1>2. c >= m /\ m >= c /\ c \in Int /\ m \in Int
    BY <1>1
  <1>3. c = m
    BY <1>2, SMT
  <1> QED BY <1>3 DEF Max

LEMMA SectionStep ==
    ASSUME NEW f \in Seq(Words), NEW p \in 0 .. Len(f) - 1
    PROVE  /\ SectionOf(f, p + 1) = IF IsSection(f[p + 1]) THEN p + 1 ELSE SectionOf(f, p)
           /\ SectionOf(f, 0) = 0
  <1> DEFINE S(n) == {0} \cup {i \in 1 .. n : IsSection(f[i])}
  <1>1. p \in Nat /\ SectionOf(f, p + 1) = Max(S(p + 1)) /\ SectionOf(f, p) = Max(S(p))
    BY DEF SectionOf
  <1>2. SectionOf(f, 0) = 0
    <2>1. S(0) \in SUBSET Int /\ 0 \in S(0) /\ \A y \in S(0) : 0 >= y
      BY SMT
    <2>2. Max(S(0)) = 0
      BY <2>1, MaxIs
    <2> QED BY <2>2 DEF SectionOf
  <1>3. CASE IsSection(f[p + 1])
    <2>1. /\ S(p + 1) \in SUBSET Int /\ p + 1 \in S(p + 1)
          /\ \A y \in S(p + 1) : p + 1 >= y
      BY <1>1, <1>3
    <2>2. Max(S(p + 1)) = p + 1
      BY <2>1, MaxIs
    <2> QED BY <1>1, <1>2, <1>3, <2>2
  <1>4. CASE ~IsSection(f[p + 1])
    <2>1. S(p + 1) = S(p)
      BY <1>1, <1>4
    <2> QED BY <1>1, <1>2, <1>4, <2>1
  <1> QED BY <1>3, <1>4

LEMMA AddressIs ==
    ASSUME NEW f, NEW j
    PROVE  AddressOf(f, j) = f[SectionOf(f, j)].value
             + Cardinality({i \in SectionOf(f, j) + 1 .. j - 1 : IsByte(f[i])})
  BY DEF AddressOf

LEMMA CountStep ==
    ASSUME NEW f \in Seq(Words), NEW p \in 0 .. Len(f) - 1, SectionOf(f, p) \in 0 .. p
    PROVE  /\ Counted(f, p) \in Nat
           /\ IsSection(f[p + 1]) => Counted(f, p + 1) = 0
           /\ ~IsSection(f[p + 1]) =>
                 /\ AddressOf(f, p + 1) = f[SectionOf(f, p)].value + Counted(f, p)
                 /\ Counted(f, p + 1) = Counted(f, p) + (IF IsByte(f[p + 1]) THEN 1 ELSE 0)
  <1> DEFINE sec == SectionOf(f, p)
             C(lo, hi) == {i \in lo .. hi : IsByte(f[i])}
  <1>1. p \in Nat /\ sec \in Nat /\ sec <= p
    OBVIOUS
  <1> HIDE DEF sec
  <1>2. IsFiniteSet(C(sec + 1, p)) /\ Cardinality(C(sec + 1, p)) \in Nat
    <2>1. IsFiniteSet(sec + 1 .. p)
      BY <1>1, FS_Interval
    <2>2. C(sec + 1, p) \in SUBSET (sec + 1 .. p)
      OBVIOUS
    <2> QED BY <2>1, <2>2, FS_Subset, FS_CardinalityType
  <1>3. Counted(f, p) = Cardinality(C(sec + 1, p))
    BY DEF Counted, sec
  <1>4. ASSUME IsSection(f[p + 1])
        PROVE  Counted(f, p + 1) = 0
    <2>1. SectionOf(f, p + 1) = p + 1
      BY <1>4, SectionStep
    <2>2. C(p + 1 + 1, p + 1) = {}
      BY <1>1
    <2> QED BY <2>1, <2>2, FS_EmptySet DEF Counted
  <1>5. ASSUME ~IsSection(f[p + 1])
        PROVE  /\ AddressOf(f, p + 1) = f[sec].value + Counted(f, p)
               /\ Counted(f, p + 1) = Counted(f, p) + (IF IsByte(f[p + 1]) THEN 1 ELSE 0)
    <2>1. SectionOf(f, p + 1) = sec
      BY <1>5, SectionStep DEF sec
    <2>2. PICK q \in Nat : q = p + 1
      BY <1>1
    <2>3. AddressOf(f, p + 1) = f[sec].value + Cardinality(C(sec + 1, p))
      <3>1. C(sec + 1, q - 1) = C(sec + 1, p)
        BY <1>1, <2>2
      <3>2. AddressOf(f, q) = f[sec].value + Cardinality(C(sec + 1, q - 1))
        BY <2>1, <2>2, AddressIs
      <3> QED BY <2>2, <3>1, <3>2
    <2>6. AddressOf(f, p + 1) = f[sec].value + Counted(f, p)
      BY <1>3, <2>3
    <2>7. Counted(f, p + 1) = Cardinality(C(sec + 1, p + 1))
      BY <2>1 DEF Counted
    <2>4. CASE IsByte(f[p + 1])
      <3>1. C(sec + 1, p + 1) = C(sec + 1, p) \cup {p + 1} /\ p + 1 \notin C(sec + 1, p)
        BY <1>1, <2>4
      <3>2. Cardinality(C(sec + 1, p + 1)) = Cardinality(C(sec + 1, p)) + 1
        BY <1>2, <3>1, FS_AddElement
      <3> QED BY <1>3, <2>6, <2>7, <2>4, <3>2
    <2>5. CASE ~IsByte(f[p + 1])
      <3>1. C(sec + 1, p + 1) = C(sec + 1, p)
        BY <1>1, <2>5
      <3>2. Counted(f, p + 1) = Counted(f, p) /\ Counted(f, p) \in Nat
        BY <1>2, <1>3, <2>7, <3>1
      <3>3. Counted(f, p + 1) = Counted(f, p) + 0
        BY <3>2, SMT
      <3> QED BY <2>5, <2>6, <3>3
    <2> QED BY <2>4, <2>5
  <1> QED BY <1>2, <1>3, <1>4, <1>5 DEF sec

LEMMA MeaningStart ==
    ASSUME NEW f \in Seq(Words)
    PROVE  /\ MeaningTo(f, 0) = NoImage /\ Counted(f, 0) = 0
           /\ MeaningTo(f, Len(f)) = Meaning(f)
  <1>1. DOMAIN f = 1 .. Len(f) /\ Len(f) \in Nat
    OBVIOUS
  <1>2. PlacedTo(f, 0) = {}
    BY <1>1 DEF PlacedTo, Placed
  <1>3. PlacedTo(f, Len(f)) = Placed(f)
    BY <1>1 DEF PlacedTo, Placed
  <1>4. MeaningTo(f, 0) = NoImage
    <2>1. DOMAIN MeaningTo(f, 0) = {}
      BY <1>2 DEF MeaningTo
    <2> QED BY <1>2, <2>1 DEF MeaningTo, NoImage
  <1>5. Counted(f, 0) = 0
    <2>1. {i \in SectionOf(f, 0) + 1 .. 0 : IsByte(f[i])} = {}
      <3>1. SectionOf(f, 0) = 0
        <4>1. {0} \cup {i \in 1 .. 0 : IsSection(f[i])} = {0}
          BY SMT
        <4>2. Max({0}) = 0
          <5>1. {0} \in SUBSET Int /\ 0 \in {0} /\ \A y \in {0} : 0 >= y
            BY SMT
          <5> QED BY <5>1, MaxIs
        <4> QED BY <4>1, <4>2 DEF SectionOf
      <3> QED BY <3>1, SMT
    <2> QED BY <2>1, FS_EmptySet DEF Counted
  <1> QED BY <1>3, <1>4, <1>5 DEF MeaningTo, Meaning

LEMMA MeaningStep ==
    ASSUME NEW f \in Seq(Words), NEW p \in 0 .. Len(f) - 1
    PROVE  MeaningTo(f, p + 1) =
             IF p + 1 \in Placed(f)
               THEN Over(MeaningTo(f, p), [a \in {AddressOf(f, p + 1)} |-> f[p + 1].value])
               ELSE MeaningTo(f, p)
  <1>1. p \in Nat /\ Placed(f) \subseteq Nat
    BY DEF Placed
  <1>2. CASE p + 1 \notin Placed(f)
    <2>1. PlacedTo(f, p + 1) = PlacedTo(f, p)
      BY <1>1, <1>2 DEF PlacedTo
    <2> QED BY <1>2, <2>1 DEF MeaningTo
  <1>3. CASE p + 1 \in Placed(f)
    <2> DEFINE b == AddressOf(f, p + 1)
               At(n, a) == {j \in PlacedTo(f, n) : AddressOf(f, j) = a}
               new == [a \in {b} |-> f[p + 1].value]
    <2>1. PlacedTo(f, p + 1) = PlacedTo(f, p) \cup {p + 1}
      BY <1>1, <1>3 DEF PlacedTo
    <2>2. {AddressOf(f, j) : j \in PlacedTo(f, p + 1)}
            = {AddressOf(f, j) : j \in PlacedTo(f, p)} \cup {b}
      BY <2>1
    <2>3. \A a : a # b => At(p + 1, a) = At(p, a)
      BY <2>1
    <2>4. Max(At(p + 1, b)) = p + 1
      <3>1. /\ At(p + 1, b) \in SUBSET Int /\ p + 1 \in At(p + 1, b)
            /\ \A y \in At(p + 1, b) : p + 1 >= y
        BY <1>1, <2>1 DEF PlacedTo
      <3> QED BY <3>1, MaxIs
    <2>5. /\ DOMAIN MeaningTo(f, p) = {AddressOf(f, j) : j \in PlacedTo(f, p)}
          /\ \A a \in DOMAIN MeaningTo(f, p) : MeaningTo(f, p)[a] = f[Max(At(p, a))].value
      BY DEF MeaningTo
    <2>6. MeaningTo(f, p + 1) = [a \in DOMAIN MeaningTo(f, p) \cup {b} |-> f[Max(At(p + 1, a))].value]
      BY <2>2, <2>5 DEF MeaningTo
    <2>7. \A a \in DOMAIN MeaningTo(f, p) \cup {b} :
             f[Max(At(p + 1, a))].value = IF a \in DOMAIN new THEN new[a] ELSE MeaningTo(f, p)[a]
      <3>1. \A a : a # b => f[Max(At(p + 1, a))].value = f[Max(At(p, a))].value
        BY <2>3
      <3> HIDE DEF At, b
      <3> QED BY <2>4, <2>5, <3>1
    <2> HIDE DEF At
    <2>8. MeaningTo(f, p + 1) = Over(MeaningTo(f, p), new)
      BY <2>6, <2>7 DEF Over
    <2> QED BY <1>3, <2>8
  <1> QED BY <1>2, <1>3

-----------------------------------------------------------------------------
One(a, v) == [b \in {a} |-> v]
IsImage(g) == g = [a \in DOMAIN g |-> g[a]]

LEMMA OverIsImage ==
    ASSUME NEW g, NEW h
    PROVE  IsImage(Over(g, h)) /\ DOMAIN Over(g, h) = DOMAIN g \cup DOMAIN h
  BY DEF Over, IsImage

LEMMA OverNothing ==
    ASSUME NEW g, IsImage(g)
    PROVE  Over(g, NoImage) = g /\ Over(NoImage, g) = g
  <1>1. DOMAIN NoImage = {}
    BY DEF NoImage
  <1> QED BY <1>1 DEF Over, IsImage

LEMMA OverAssociative ==
    ASSUME NEW g, NEW h, NEW k
    PROVE  Over(Over(g, h), k) = Over(g, Over(h, k))
  BY OverIsImage DEF Over

LEMMA MovedIsImage ==
    ASSUME NEW g, NEW by
    PROVE  IsImage(Moved(g, by)) /\ IsImage(NoImage) /\ Moved(NoImage, by) = NoImage
  BY DEF Moved, NoImage, IsImage

LEMMA MovedOver ==
    ASSUME NEW g, DOMAIN g \subseteq Int, NEW b \in Int, NEW v, NEW by \in Int
    PROVE  Moved(Over(g, One(b, v)), by) = Over(Moved(g, by), One(b + by, v))
  <1> DEFINE new == [a \in {b} |-> v]
             moved == [a \in {b + by} |-> v]
             D == {x + by : x \in DOMAIN g}
  <1>1. /\ DOMAIN Over(g, new) = DOMAIN g \cup {b}
        /\ \A a \in DOMAIN g \cup {b} : Over(g, new)[a] = IF a = b THEN v ELSE g[a]
    BY DEF Over
  <1>2. DOMAIN Moved(g, by) = D /\ \A a \in D : Moved(g, by)[a] = g[a - by]
    BY DEF Moved
  <1>3. {x + by : x \in DOMAIN Over(g, new)} = D \cup {b + by}
    BY <1>1
  <1>4. Moved(Over(g, new), by) = [a \in D \cup {b + by} |-> Over(g, new)[a - by]]
    BY <1>3 DEF Moved
  <1>5. \A a \in D \cup {b + by} :
           Over(g, new)[a - by] = IF a = b + by THEN v ELSE Moved(g, by)[a]
    <2>1. ASSUME NEW a \in D \cup {b + by}
          PROVE  Over(g, new)[a - by] = IF a = b + by THEN v ELSE Moved(g, by)[a]
      <3>1. PICK x \in DOMAIN g \cup {b} : a = x + by
        OBVIOUS
      <3>2. x \in Int /\ a - by = x
        BY <3>1
      <3>3. Over(g, new)[a - by] = IF x = b THEN v ELSE g[x]
        BY <1>1, <3>1, <3>2
      <3>4. x = b <=> a = b + by
        BY <3>1, <3>2
      <3>5. x # b => a \in D /\ Moved(g, by)[a] = g[x]
        BY <1>2, <3>1, <3>2
      <3> QED BY <3>3, <3>4, <3>5
    <2> QED BY <2>1
  <1>6. Over(Moved(g, by), moved)
          = [a \in D \cup {b + by} |-> IF a = b + by THEN v ELSE Moved(g, by)[a]]
    BY <1>2 DEF Over
  <1> HIDE DEF new, moved, D
  <1>7. Moved(Over(g, new), by) = Over(Moved(g, by), moved)
    BY <1>4, <1>5, <1>6
  <1> QED BY <1>7 DEF new, moved, One

-----------------------------------------------------------------------------
(* VmemImages                                                                *)

Current(f, p, by) ==
    IF SectionOf(f, p) = 0 \/ f[SectionOf(f, p)].value = Unreadable THEN {}
    ELSE {f[SectionOf(f, p)].value + by + Counted(f, p)}

(* The first p words of f are read, their addresses moved, into a memory that was base.      *)
Prefix(f, p, by, cur, mem, base) ==
    /\ p \in 0 .. Len(f) /\ SectionOf(f, p) \in 0 .. p
    /\ DOMAIN MeaningTo(f, p) \subseteq Int
    /\ cur = Current(f, p, by)
    /\ mem = Over(base, Moved(MeaningTo(f, p), by))

LEMMA PrefixStart ==
    ASSUME NEW f \in Seq(Words), NEW by \in Int, NEW base, IsImage(base)
    PROVE  Prefix(f, 0, by, {}, base, base)
  <1>1. MeaningTo(f, 0) = NoImage
    BY MeaningStart
  <1>2. SectionOf(f, 0) = 0
    <2>1. {0} \cup {i \in 1 .. 0 : IsSection(f[i])} = {0}
      BY SMT
    <2>2. {0} \in SUBSET Int /\ 0 \in {0} /\ \A y \in {0} : 0 >= y
      BY SMT
    <2>3. Max({0}) = 0
      BY <2>2, MaxIs
    <2> QED BY <2>1, <2>3 DEF SectionOf
  <1>3. DOMAIN NoImage = {} /\ Moved(NoImage, by) = NoImage
    BY MovedIsImage DEF NoImage
  <1>4. base = Over(base, Moved(NoImage, by))
    BY <1>3, OverNothing
  <1>5. Len(f) \in Nat
    OBVIOUS
  <1> QED BY <1>1, <1>2, <1>3, <1>4, <1>5 DEF Prefix, Current

LEMMA PrefixSection ==
    ASSUME NEW f \in Seq(Words), NEW p, NEW by \in Int, NEW cur, NEW mem, NEW base,
           Prefix(f, p, by, cur, mem, base), p < Len(f), IsSection(f[p + 1])
    PROVE  Prefix(f, p + 1, by,
                  IF f[p + 1].value # Unreadable THEN {f[p + 1].value + by} ELSE {}, mem, base)
  <1>1. p \in 0 .. Len(f) - 1 /\ p \in Nat /\ f[p + 1] \in Words /\ SectionOf(f, p) \in 0 .. p
    BY DEF Prefix
  <1>2. SectionOf(f, p + 1) = p + 1 /\ Counted(f, p + 1) = 0
    BY <1>1, SectionStep, CountStep
  <1>3. p + 1 \notin Placed(f)
    BY DEF Placed, IsByte, IsSection
  <1>4. MeaningTo(f, p + 1) = MeaningTo(f, p)
    BY <1>1, <1>3, MeaningStep
  <1>5. f[p + 1].value + by + 0 = f[p + 1].value + by /\ p + 1 # 0
    BY <1>1 DEF Words
  <1>6. Current(f, p + 1, by) = IF f[p + 1].value # Unreadable THEN {f[p + 1].value + by} ELSE {}
    BY <1>2, <1>5 DEF Current
  <1> QED BY <1>1, <1>2, <1>4, <1>6 DEF Prefix

LEMMA SumsAgree ==
    ASSUME NEW w \in Int, NEW by \in Int, NEW c \in Nat
    PROVE  w + by + c = w + c + by /\ w + by + c + 1 = w + by + (c + 1)
  BY SMT

LEMMA PrefixByte ==
    ASSUME NEW f \in Seq(Words), NEW p, NEW by \in Int, NEW cur, NEW mem, NEW base,
           Prefix(f, p, by, cur, mem, base), p < Len(f), ~IsSection(f[p + 1]),
           cur # {}, f[p + 1].value # Unreadable
    PROVE  Prefix(f, p + 1, by, {a + 1 : a \in cur},
                  Over(mem, [a \in cur |-> f[p + 1].value]), base)
  <1> DEFINE sec == SectionOf(f, p)
             v == f[p + 1].value
             b == f[sec].value + Counted(f, p)
  <1>1. p \in 0 .. Len(f) - 1 /\ p \in Nat /\ f[p + 1] \in Words /\ sec \in 0 .. p
    BY DEF Prefix
  <1>2. sec # 0 /\ f[sec].value # Unreadable /\ cur = {f[sec].value + by + Counted(f, p)}
    BY DEF Prefix, Current
  <1>3. IsByte(f[p + 1])
    BY <1>1 DEF IsByte, IsSection, Words
  <1>4. /\ SectionOf(f, p + 1) = sec /\ Counted(f, p) \in Nat
        /\ AddressOf(f, p + 1) = b /\ Counted(f, p + 1) = Counted(f, p) + 1
    BY <1>1, <1>3, SectionStep, CountStep
  <1>5. p + 1 \in Placed(f)
    <2>1. p + 1 \in DOMAIN f
      BY <1>1
    <2> QED BY <1>2, <1>3, <1>4, <2>1 DEF Placed
  <1>6. f[sec].value \in Int /\ b \in Int
    <2>1. sec \in 1 .. Len(f)
      BY <1>1, <1>2
    <2>2. f[sec] \in Words
      BY <2>1, ElementOfSeq
    <2>3. f[sec].value \in Int
      BY <2>2 DEF Words
    <2> QED BY <1>4, <2>3
  <1> HIDE DEF sec, v
  <1>7. cur = {b + by} /\ {a + 1 : a \in cur} = Current(f, p + 1, by)
    <2>1. PICK c \in Nat : c = Counted(f, p)
      BY <1>4
    <2>2. PICK w \in Int : w = f[sec].value
      BY <1>6
    <2>3. w + by + c = w + c + by /\ w + by + c + 1 = w + by + (c + 1)
      BY <2>1, <2>2, SumsAgree
    <2>4. cur = {w + by + c} /\ b = w + c /\ Counted(f, p + 1) = c + 1
      BY <1>2, <1>4, <2>1, <2>2
    <2>5. Current(f, p + 1, by) = {w + by + (c + 1)}
      BY <1>2, <1>4, <2>2, <2>4 DEF Current
    <2> HIDE DEF b
    <2> QED BY <2>3, <2>4, <2>5
  <1>0. PICK g : g = MeaningTo(f, p)
    OBVIOUS
  <1>8. MeaningTo(f, p + 1) = Over(MeaningTo(f, p), One(b, v))
    <2>1. MeaningTo(f, p + 1) = Over(MeaningTo(f, p), [a \in {b} |-> v])
      BY <1>1, <1>4, <1>5, MeaningStep DEF v
    <2> QED BY <2>1, Zenon DEF One
  <1> HIDE DEF b
  <1>9. DOMAIN MeaningTo(f, p) \subseteq Int /\ mem = Over(base, Moved(MeaningTo(f, p), by))
    BY DEF Prefix
  <1>10. Moved(MeaningTo(f, p + 1), by) = Over(Moved(MeaningTo(f, p), by), One(b + by, v))
    <2>1. Moved(Over(MeaningTo(f, p), One(b, v)), by)
            = Over(Moved(MeaningTo(f, p), by), One(b + by, v))
      <3>1. DOMAIN g \subseteq Int /\ b \in Int
        BY <1>6, <1>9, <1>0
      <3>2. Moved(Over(g, One(b, v)), by) = Over(Moved(g, by), One(b + by, v))
        BY <3>1, MovedOver
      <3> QED BY <1>0, <3>2
    <2> QED BY <1>8, <2>1
  <1>11. Over(mem, [a \in cur |-> v]) = Over(base, Moved(MeaningTo(f, p + 1), by))
    <2>1. [a \in cur |-> v] = One(b + by, v)
      BY <1>7 DEF One
    <2>2. Over(mem, One(b + by, v)) = Over(base, Over(Moved(MeaningTo(f, p), by), One(b + by, v)))
      BY <1>9, OverAssociative
    <2> QED BY <1>10, <2>1, <2>2
  <1>12. DOMAIN MeaningTo(f, p + 1) \subseteq Int
    <2>1. DOMAIN One(b, v) = {b}
      BY DEF One
    <2>2. DOMAIN MeaningTo(f, p + 1) = DOMAIN MeaningTo(f, p) \cup {b}
      <3>1. DOMAIN Over(g, One(b, v)) = DOMAIN g \cup {b}
        BY <2>1, OverIsImage
      <3> QED BY <1>8, <1>0, <3>1
    <2> QED BY <1>6, <1>9, <2>2
  <1>13. p + 1 \in 0 .. Len(f) /\ SectionOf(f, p + 1) \in 0 .. p + 1
    BY <1>1, <1>4
  <1> QED BY <1>7, <1>11, <1>12, <1>13 DEF Prefix, v

LEMMA PrefixJunk ==
    ASSUME NEW f \in Seq(Words), NEW p, NEW by \in Int, NEW cur, NEW mem, NEW base,
           Prefix(f, p, by, cur, mem, base), p < Len(f), ~IsSection(f[p + 1]),
           cur = {} \/ f[p + 1].value = Unreadable
    PROVE  Prefix(f, p + 1, by, cur, mem, base)
  <1> DEFINE sec == SectionOf(f, p)
  <1>1. p \in 0 .. Len(f) - 1 /\ p \in Nat /\ sec \in 0 .. p
    BY DEF Prefix
  <1>2. /\ SectionOf(f, p + 1) = sec /\ Counted(f, p) \in Nat
        /\ Counted(f, p + 1) = Counted(f, p) + (IF IsByte(f[p + 1]) THEN 1 ELSE 0)
    BY <1>1, SectionStep, CountStep
  <1>3. p + 1 \notin Placed(f)
    <2>1. cur = {} => sec = 0 \/ f[sec].value = Unreadable
      BY DEF Prefix, Current
    <2> QED BY <1>2, <2>1 DEF Placed, IsByte
  <1>4. MeaningTo(f, p + 1) = MeaningTo(f, p)
    BY <1>1, <1>3, MeaningStep
  <1>5. Current(f, p + 1, by) = Current(f, p, by)
    <2>1. CASE cur = {}
      BY <1>2, <2>1 DEF Prefix, Current
    <2>2. CASE f[p + 1].value = Unreadable
      <3>1. ~IsByte(f[p + 1])
        BY <2>2 DEF IsByte
      <3>2. Counted(f, p + 1) = Counted(f, p)
        BY <1>2, <3>1
      <3> QED BY <1>2, <3>2 DEF Current
    <2> QED BY <2>1, <2>2
  <1>6. p + 1 \in 0 .. Len(f) /\ SectionOf(f, p + 1) \in 0 .. p + 1
    BY <1>1, <1>2
  <1> QED BY <1>4, <1>5, <1>6 DEF Prefix

(* The files before the n-th, laid over each other.                               *)
Before(n) ==
    LET image(k) == IF k < n THEN Image(files[k]) ELSE NoImage
    IN Over(Over(image(1), image(2)), image(3))

Files == [offset : {"i", "i2", "i3"}, text : Texts \cup {Missing}]

Base == IF reader = Converter THEN Before(at) ELSE NoImage

FilesInv ==
    /\ st \in {"idle", "open", "read", "write", "done", "failed"} /\ reader \in Readers
    /\ files \in Seq(Files) /\ Len(files) <= 3
    /\ st = "idle" => at = 1 /\ memory = NoImage
    /\ st = "open" =>
          /\ Len(files) >= 1 /\ at \in 1 .. Len(files) + 1
          /\ IF reader = Converter THEN memory = Before(at)
             ELSE at > 1 => memory = Image(files[at - 1])
    /\ st = "read" =>
          /\ at \in 1 .. Len(files) /\ files[at].text \in Texts /\ pos \in Nat
          /\ Prefix(files[at].text, pos - 1, Offset(files[at].offset), current_address, memory, Base)
    /\ st \in {"write", "done"} => memory = Wanted

LEMMA TextIsWords == Texts \subseteq Seq(Words)
  BY ImageAssumption DEF Words

LEMMA OffsetIsInt ==
    ASSUME reader \in Readers, NEW o \in {"i", "i2", "i3"}
    PROVE  Offset(o) \in Int
  <1>1. BASE_ADDRESS \in Nat /\ KERNEL_OFFSET \in Nat /\ DTB_OFFSET \in Nat
    BY ImageAssumption
  <1>2. 0 \in Int /\ 0 - BASE_ADDRESS \in Int /\ KERNEL_OFFSET \in Int /\ DTB_OFFSET \in Int
    BY <1>1, SMT
  <1>3. CASE reader = "load_verilog_hex_file"
    BY <1>2, <1>3 DEF Offset
  <1>4. CASE reader = "load_dram_verilog_hex_file"
    BY <1>2, <1>4 DEF Offset
  <1>5. CASE reader = Converter
    BY <1>2, <1>5 DEF Offset, Converter
  <1> QED BY <1>3, <1>4, <1>5 DEF Readers

LEMMA BeforeIs ==
    /\ IsImage(Before(at)) /\ Before(1) = NoImage /\ Before(2) = Image(files[1])
    /\ Before(3) = Over(Image(files[1]), Image(files[2]))
    /\ Before(4) = Over(Over(Image(files[1]), Image(files[2])), Image(files[3]))
  <1> DEFINE i1 == Image(files[1])
             i2 == Image(files[2])
             i3 == Image(files[3])
             image(n, k) == IF k < n THEN Image(files[k]) ELSE NoImage
  <1>1. \A n : Before(n) = Over(Over(image(n, 1), image(n, 2)), image(n, 3))
    BY Zenon DEF Before
  <1>2. /\ image(1, 1) = NoImage /\ image(1, 2) = NoImage /\ image(1, 3) = NoImage
        /\ image(2, 1) = i1 /\ image(2, 2) = NoImage /\ image(2, 3) = NoImage
        /\ image(3, 1) = i1 /\ image(3, 2) = i2 /\ image(3, 3) = NoImage
        /\ image(4, 1) = i1 /\ image(4, 2) = i2 /\ image(4, 3) = i3
    BY SMT
  <1>3. IsImage(i1) /\ IsImage(NoImage) /\ IsImage(Over(i1, i2))
    BY MovedIsImage, OverIsImage DEF Image
  <1>4. IsImage(Before(at))
    BY <1>1, OverIsImage
  <1> HIDE DEF i1, i2, i3, image
  <1>5. Before(1) = NoImage
    BY <1>1, <1>2, <1>3, OverNothing
  <1>6. Before(2) = i1
    BY <1>1, <1>2, <1>3, OverNothing
  <1>7. Before(3) = Over(i1, i2)
    BY <1>1, <1>2, <1>3, OverNothing
  <1>8. Before(4) = Over(Over(i1, i2), i3)
    BY <1>1, <1>2
  <1> QED BY <1>4, <1>5, <1>6, <1>7, <1>8 DEF i1, i2, i3

LEMMA BeforeStep ==
    ASSUME NEW n \in 1 .. 3
    PROVE  Over(Before(n), Image(files[n])) = Before(n + 1)
  <1>1. IsImage(Image(files[n]))
    BY MovedIsImage DEF Image
  <1>2. CASE n = 1
    BY <1>1, <1>2, BeforeIs, OverNothing
  <1>3. CASE n = 2
    BY <1>3, BeforeIs
  <1>4. CASE n = 3
    BY <1>4, BeforeIs
  <1> QED BY <1>2, <1>3, <1>4

(* With all files read, the memory is what it should be.                            *)
LEMMA WantedIs ==
    ASSUME NEW n \in 1 .. 3, Len(files) = n
    PROVE  Wanted = IF reader = Converter THEN Before(n + 1) ELSE Image(files[n])
  <1> DEFINE image(k) == IF k <= n THEN Image(files[k]) ELSE NoImage
             upto(k) == IF k < n + 1 THEN Image(files[k]) ELSE NoImage
  <1>1. Wanted = IF reader = Converter THEN Over(Over(image(1), image(2)), image(3)) ELSE image(n)
    BY Zenon DEF Wanted
  <1>2. Before(n + 1) = Over(Over(upto(1), upto(2)), upto(3))
    BY Zenon DEF Before
  <1>3. image(1) = upto(1) /\ image(2) = upto(2) /\ image(3) = upto(3) /\ image(n) = Image(files[n])
    BY SMT
  <1> HIDE DEF image, upto
  <1> QED BY <1>1, <1>2, <1>3

-----------------------------------------------------------------------------
LEMMA FilesInvInit == Init => FilesInv
  <1> SUFFICES ASSUME Init PROVE FilesInv
    OBVIOUS
  <1>1. files \in Seq(Files) /\ Len(files) = 0
    BY EmptySeq DEF Init
  <1> QED BY <1>1, SMT DEF Init, FilesInv, Readers, Converter

LEMMA InputFilesAre ==
    ASSUME NEW i, NEW i2, NEW i3,
           {i, i2, i3} \subseteq {{}} \cup {{t} : t \in Texts \cup {Missing}}
    PROVE  InputFiles(i, i2, i3) \in Seq(Files) /\ Len(InputFiles(i, i2, i3)) <= 3
  <1> DEFINE given(offset_type, found) ==
                 IF found = {} THEN <<>>
                 ELSE <<[offset |-> offset_type, text |-> CHOOSE t \in found : TRUE]>>
  <1>1. ASSUME NEW o \in {"i", "i2", "i3"},
               NEW found \in {{}} \cup {{t} : t \in Texts \cup {Missing}}
        PROVE  given(o, found) \in Seq(Files) /\ Len(given(o, found)) \in 0 .. 1
    <2>1. CASE found = {}
      BY <2>1, EmptySeq
    <2>2. CASE found # {}
      <3>1. PICK t \in Texts \cup {Missing} : found = {t}
        BY <2>2
      <3>2. (CHOOSE u \in found : TRUE) = t
        BY <3>1
      <3>3. [offset |-> o, text |-> CHOOSE u \in found : TRUE] \in Files
        BY <3>2 DEF Files
      <3> QED BY <2>2, <3>3
    <2> QED BY <2>1, <2>2
  <1>2. InputFiles(i, i2, i3) = given("i", i) \o given("i2", i2) \o given("i3", i3)
    BY Zenon DEF InputFiles
  <1> HIDE DEF given
  <1>3. /\ given("i", i) \in Seq(Files) /\ Len(given("i", i)) \in 0 .. 1
        /\ given("i2", i2) \in Seq(Files) /\ Len(given("i2", i2)) \in 0 .. 1
        /\ given("i3", i3) \in Seq(Files) /\ Len(given("i3", i3)) \in 0 .. 1
    BY <1>1
  <1>4. /\ given("i", i) \o given("i2", i2) \in Seq(Files)
        /\ Len(given("i", i) \o given("i2", i2)) \in 0 .. 2
    BY <1>3, ConcatProperties
  <1> QED BY <1>2, <1>3, <1>4, ConcatProperties

LEMMA FilesInvStart ==
    ASSUME FilesInv, Start
    PROVE  FilesInv'
  <1>1. PICK i, i2, i3 \in {{}} \cup {{t} : t \in Texts \cup {Missing}} :
           files' = IF reader' = Converter THEN InputFiles(i, i2, i3) ELSE InputFiles(i, i2, {})
    BY DEF Start
  <1>2. files' \in Seq(Files) /\ Len(files') <= 3
    BY <1>1, InputFilesAre
  <1>3. /\ st = "idle" /\ reader' \in Readers /\ at' = at
        /\ st' = IF files' = <<>> THEN "failed" ELSE "open"
        /\ memory' = memory
    BY DEF Start
  <1>4. at' = 1
    BY <1>3 DEF FilesInv
  <1>5. st' = "open" => Len(files') >= 1
    BY <1>2, <1>3, EmptySeq
  <1>6. st' = "open" /\ reader' = Converter => memory' = Before(at)'
    <2>1. /\ (IF 1 < 1 THEN Image(files[1]) ELSE NoImage)' = NoImage
          /\ (IF 2 < 1 THEN Image(files[2]) ELSE NoImage)' = NoImage
          /\ (IF 3 < 1 THEN Image(files[3]) ELSE NoImage)' = NoImage
      BY SMT DEF NoImage
    <2>2. Before(1)' = Over(Over(NoImage, NoImage), NoImage)
      BY <2>1, Zenon DEF Before
    <2>3. Before(1)' = NoImage
      BY <2>2, MovedIsImage, OverNothing
    <2>4. Before(at)' = NoImage
      BY <1>4, <2>3, Zenon DEF Before
    <2> QED BY <1>3, <2>4 DEF FilesInv
  <1> QED BY <1>2, <1>3, <1>4, <1>5, <1>6 DEF FilesInv

(* A step that keeps the files keeps what they say.                                  *)
LEMMA FilesStay ==
    ASSUME files' = files, reader' = reader
    PROVE  /\ \A n : Image(files[n])' = Image(files[n])
           /\ \A n : Before(n)' = Before(n)
           /\ Wanted' = Wanted /\ \A o : Offset(o)' = Offset(o)
  <1>1. \A o : Offset(o)' = Offset(o)
    BY Zenon DEF Offset
  <1>2. \A n : Image(files[n])' = Image(files[n])
    BY <1>1, Zenon DEF Image
  <1>3. \A n : Before(n)' = Before(n)
    BY <1>2, Zenon DEF Before
  <1>4. Wanted' = Wanted
    BY <1>2, Zenon DEF Wanted
  <1> QED BY <1>1, <1>2, <1>3, <1>4

LEMMA FilesInvOpen ==
    ASSUME FilesInv, Open
    PROVE  FilesInv'
  <1>1. /\ st = "open" /\ at <= Len(files) /\ UNCHANGED <<reader, files, at>>
        /\ st' = IF files[at].text = Missing THEN "failed" ELSE "read"
        /\ pos' = 1 /\ current_address' = {}
        /\ memory' = IF reader = Converter THEN memory ELSE NoImage
    BY DEF Open
  <1>2. files \in Seq(Files) /\ at \in 1 .. Len(files) /\ reader \in Readers
    BY <1>1 DEF FilesInv
  <1>3. memory' = Base /\ IsImage(Base)
    BY <1>1, BeforeIs, MovedIsImage DEF FilesInv, Base
  <1>4. SUFFICES ASSUME files[at].text # Missing
                 PROVE  FilesInv'
    BY <1>1, <1>2 DEF FilesInv
  <1> DEFINE f == files[at].text
             by == Offset(files[at].offset)
  <1>5. f \in Texts /\ f \in Seq(Words) /\ by \in Int
    <2>1. files[at] \in Files
      BY <1>2, ElementOfSeq
    <2> QED BY <1>2, <1>4, <2>1, TextIsWords, OffsetIsInt DEF Files
  <1>6. Prefix(f, 0, by, {}, memory', Base)
    BY <1>3, <1>5, PrefixStart
  <1>7. Base' = Base /\ f' = f /\ by' = by
    BY <1>1, FilesStay DEF Base
  <1>8. pos' - 1 = 0 /\ pos' \in Nat
    BY <1>1
  <1> HIDE DEF f, by
  <1>9. Prefix(f', pos' - 1, by', current_address', memory', Base')
    BY <1>1, <1>6, <1>7, <1>8
  <1> QED BY <1>1, <1>2, <1>4, <1>5, <1>7, <1>8, <1>9 DEF FilesInv, f, by

(* While a file is read: a word more, the file and what was before as they were.           *)
LEMMA ReadingKeeps ==
    ASSUME FilesInv, st = "read", UNCHANGED <<reader, files, at>>, pos' = pos + 1,
           st' = "read",
           Prefix(files[at].text, pos, Offset(files[at].offset), current_address', memory', Base)
    PROVE  FilesInv'
  <1>1. /\ at \in 1 .. Len(files) /\ files[at].text \in Texts /\ pos \in Nat
        /\ files \in Seq(Files) /\ Len(files) <= 3 /\ reader \in Readers
    BY DEF FilesInv
  <1>2. Base' = Base /\ Offset(files[at].offset)' = Offset(files[at].offset)
    BY FilesStay DEF Base
  <1>3. pos' - 1 = pos /\ pos' \in Nat
    BY <1>1
  <1>4. Prefix(files'[at'].text, pos' - 1, Offset(files[at].offset)', current_address', memory', Base')
    BY <1>2, <1>3
  <1> QED BY <1>1, <1>3, <1>4 DEF FilesInv

LEMMA FilesInvRead ==
    ASSUME FilesInv, ReadSection \/ ReadByte
    PROVE  FilesInv'
  <1> DEFINE f == files[at].text
             by == Offset(files[at].offset)
             p == pos - 1
  <1>1. /\ st = "read" /\ pos <= Len(f) /\ pos' = pos + 1 /\ UNCHANGED <<reader, files, at>>
        /\ word = f[pos] /\ st' \in {"read", "failed"}
    BY DEF ReadSection, ReadByte, Reading, word
  <1>2. /\ at \in 1 .. Len(files) /\ f \in Texts /\ pos \in Nat /\ files \in Seq(Files)
        /\ reader \in Readers /\ Len(files) <= 3
        /\ Prefix(f, p, by, current_address, memory, Base)
    BY <1>1 DEF FilesInv
  <1>3. f \in Seq(Words) /\ by \in Int /\ p + 1 = pos /\ p < Len(f)
    <2>1. files[at] \in Files
      BY <1>2, ElementOfSeq
    <2>2. f \in Seq(Words) /\ by \in Int
      BY <1>2, <2>1, TextIsWords, OffsetIsInt DEF Files
    <2>3. Len(f) \in Nat
      BY <2>2, LenProperties
    <2> HIDE DEF f
    <2>4. p + 1 = pos /\ p < Len(f)
      BY <1>1, <1>2, <2>3
    <2> QED BY <2>2, <2>4
  <1> HIDE DEF f, by, p
  <1>4. SUFFICES ASSUME st' = "read"
                 PROVE  Prefix(f, p + 1, by, current_address', memory', Base)
    <2>1. CASE st' = "failed"
      BY <1>1, <1>2, <2>1 DEF FilesInv
    <2>2. CASE st' = "read"
      BY <1>1, <1>3, <1>4, <2>2, ReadingKeeps DEF f, by
    <2> QED BY <1>1, <2>1, <2>2
  <1>5. CASE ReadSection
    <2>1. /\ IsSection(f[p + 1]) /\ memory' = memory
          /\ current_address' = IF f[p + 1].value # Unreadable THEN {f[p + 1].value + by} ELSE {}
      BY <1>1, <1>3, <1>4, <1>5 DEF ReadSection, by
    <2> QED BY <1>2, <1>3, <2>1, PrefixSection
  <1>6. CASE ReadByte
    <2>1. ~IsSection(f[p + 1])
      BY <1>1, <1>3, <1>6 DEF ReadByte
    <2>2. CASE current_address # {} /\ f[p + 1].value # Unreadable
      <3>1. /\ memory' = Over(memory, [a \in current_address |-> f[p + 1].value])
            /\ current_address' = {a + 1 : a \in current_address}
        BY <1>1, <1>3, <1>6, <2>2 DEF ReadByte
      <3> QED BY <1>2, <1>3, <2>1, <2>2, <3>1, PrefixByte
    <2>3. CASE current_address = {} \/ f[p + 1].value = Unreadable
      <3>1. memory' = memory /\ current_address' = current_address
        BY <1>1, <1>3, <1>6, <2>3 DEF ReadByte
      <3> QED BY <1>2, <1>3, <2>1, <2>3, <3>1, PrefixJunk
    <2> QED BY <2>2, <2>3
  <1> QED BY <1>5, <1>6

LEMMA FilesInvNextFile ==
    ASSUME FilesInv, NextFile
    PROVE  FilesInv'
  <1> DEFINE f == files[at].text
             by == Offset(files[at].offset)
  <1>1. /\ st = "read" /\ pos > Len(f) /\ st' = "open" /\ at' = at + 1
        /\ UNCHANGED <<reader, files, memory>>
    BY DEF NextFile
  <1>2. /\ at \in 1 .. Len(files) /\ f \in Texts /\ pos \in Nat /\ files \in Seq(Files)
        /\ Len(files) <= 3 /\ reader \in Readers
        /\ Prefix(f, pos - 1, by, current_address, memory, Base)
    BY <1>1 DEF FilesInv
  <1>3. f \in Seq(Words) /\ Image(files[at]) = Moved(Meaning(f), by)
    BY <1>2, TextIsWords DEF Image
  <1>4. at \in 1 .. 3 /\ at' \in 1 .. Len(files) + 1 /\ at' > 1 /\ at' - 1 = at /\ Len(files) >= 1
    BY <1>1, <1>2
  <1> HIDE DEF f, by
  <1>5. pos - 1 = Len(f)
    <2>1. pos - 1 \in 0 .. Len(f) /\ Len(f) \in Nat
      BY <1>2, <1>3, LenProperties DEF Prefix
    <2> QED BY <1>1, <1>2, <2>1
  <1>6. memory = Over(Base, Image(files[at]))
    <2>1. MeaningTo(f, pos - 1) = Meaning(f)
      BY <1>3, <1>5, MeaningStart
    <2> QED BY <1>2, <1>3, <2>1 DEF Prefix
  <1>7. IsImage(Image(files[at]))
    BY MovedIsImage DEF Image
  <1>8. memory = IF reader = Converter THEN Before(at + 1) ELSE Image(files[at])
    BY <1>4, <1>6, <1>7, BeforeStep, OverNothing DEF Base
  <1>9. PICK m \in Nat, n \in Nat : n = at /\ m = at + 1
    BY <1>4
  <1>10. memory' = IF reader' = Converter THEN Before(at)' ELSE Image(files[at - 1])'
    <2>1. Before(m)' = Before(m) /\ Image(files[n])' = Image(files[n])
      BY <1>1, FilesStay
    <2>2. Before(at)' = Before(m)'
      <3>1. at' = m
        BY <1>1, <1>9
      <3> QED BY <3>1, Zenon DEF Before
    <2>3. Image(files[at - 1])' = Image(files[n])'
      <3>1. at' - 1 = n
        BY <1>4, <1>9
      <3> QED BY <3>1, Zenon DEF Image, Offset
    <2> QED BY <1>1, <1>8, <1>9, <2>1, <2>2, <2>3
  <1> QED BY <1>1, <1>2, <1>4, <1>10 DEF FilesInv

LEMMA FilesInvAllRead ==
    ASSUME FilesInv, AllRead
    PROVE  FilesInv'
  <1>1. /\ st = "open" /\ at > Len(files) /\ st' \in {"write", "done"}
        /\ UNCHANGED <<reader, files, at, memory>>
    BY DEF AllRead
  <1>2. /\ Len(files) \in 1 .. 3 /\ at = Len(files) + 1 /\ files \in Seq(Files) /\ reader \in Readers
    <2>1. /\ files \in Seq(Files) /\ reader \in Readers /\ Len(files) <= 3 /\ Len(files) >= 1
          /\ at \in 1 .. Len(files) + 1
      BY <1>1 DEF FilesInv
    <2>2. Len(files) \in Nat
      BY <2>1, LenProperties
    <2>3. PICK l \in Nat : l = Len(files)
      BY <2>2
    <2>4. l \in 1 .. 3 /\ at = l + 1
      BY <1>1, <2>1, <2>3
    <2> QED BY <2>1, <2>3, <2>4
  <1>3. PICK n \in 1 .. 3 : n = Len(files)
    BY <1>2
  <1>4. at = n + 1 /\ at - 1 = n /\ at > 1
    BY <1>2, <1>3
  <1>5. memory = IF reader = Converter THEN Before(n + 1) ELSE Image(files[n])
    BY <1>1, <1>4 DEF FilesInv
  <1>6. memory = Wanted
    BY <1>3, <1>5, WantedIs
  <1>7. Wanted' = Wanted
    BY <1>1, FilesStay
  <1> QED BY <1>1, <1>2, <1>6, <1>7 DEF FilesInv

LEMMA FilesInvWrite ==
    ASSUME FilesInv, WriteLine \/ Written
    PROVE  FilesInv'
  <1>1. st = "write" /\ st' \in {"write", "done"} /\ UNCHANGED <<reader, files, memory>>
    BY DEF WriteLine, Written
  <1>2. Wanted' = Wanted
    BY <1>1, FilesStay
  <1> QED BY <1>1, <1>2 DEF FilesInv

LEMMA FilesInvStep == FilesInv /\ [Next]_vars => FilesInv'
  <1> SUFFICES ASSUME FilesInv, [Next]_vars
               PROVE  FilesInv'
    OBVIOUS
  <1>1. CASE UNCHANGED vars
    <2>1. UNCHANGED <<st, reader, files, at, pos, memory, current_address>>
      BY <1>1 DEF vars
    <2>2. Before(at)' = Before(at) /\ Wanted' = Wanted /\ Base' = Base
      <3>1. Before(at)' = Before(at)
        <4>1. PICK n : n = at
          OBVIOUS
        <4>2. at' = n
          BY <2>1, <4>1
        <4>3. Before(at)' = Before(n)'
          BY <4>2, Zenon DEF Before
        <4>4. Before(n)' = Before(n)
          BY <2>1, FilesStay
        <4> QED BY <4>1, <4>3, <4>4
      <3>2. Base' = Base
        BY <2>1, <3>1 DEF Base
      <3> QED BY <2>1, <3>1, <3>2, FilesStay
    <2>3. /\ Offset(files[at].offset)' = Offset(files[at].offset)
          /\ Image(files[at - 1])' = Image(files[at - 1])
      BY <2>1, Zenon DEF Image, Offset
    <2> QED BY <2>1, <2>2, <2>3 DEF FilesInv
  <1> QED BY <1>1, FilesInvStart, FilesInvOpen, FilesInvRead, FilesInvNextFile, FilesInvAllRead,
             FilesInvWrite DEF Next, Step

(* tools/vmem_to_ddr3_init.py and the two readers of the benches put every byte of their files   *)
(* where its section says, whatever the files: unreadable words, bytes before the first section,   *)
(* sections that overlap or come twice, and up to three files laid over each other.            *)
THEOREM FilesAreRead == Spec => []MemoryIsWhatTheFilesSay
  <1>1. FilesInv => MemoryIsWhatTheFilesSay
    BY DEF FilesInv, MemoryIsWhatTheFilesSay
  <1> QED BY <1>1, FilesInvInit, FilesInvStep, PTL DEF Spec

-----------------------------------------------------------------------------
(* The preload file and the DRAM                                              *)

LEMMA DivUnique ==
    ASSUME NEW a \in Nat, NEW d \in Nat \ {0}, NEW q \in Nat, NEW r \in 0 .. d - 1,
           a = d * q + r
    PROVE  a \div d = q
  BY SMT

LEMMA DivDiv ==
    ASSUME NEW a \in Nat, NEW m \in Nat \ {0}, NEW n \in Nat \ {0}
    PROVE  a \div (m * n) = (a \div m) \div n
  <1> DEFINE x == a \div m
             r == a % m
             y == x \div n
             z == x % n
  <1>1. x \in Nat /\ r \in 0 .. m - 1 /\ a = m * x + r
    BY DivMod
  <1>2. y \in Nat /\ z \in 0 .. n - 1 /\ x = n * y + z
    BY <1>1, DivMod
  <1> HIDE DEF x, r, y, z
  <1>3. m * n \in Nat \ {0}
    BY SMT
  <1>4. m * z \in Nat /\ m * z <= m * n - m
    <2>1. z * m <= (n - 1) * m
      BY <1>2, ProductGrows
    <2> QED BY <1>2, <2>1, SMT
  <1>5. m * z + r \in 0 .. (m * n) - 1
    BY <1>1, <1>3, <1>4, SMT
  <1>6. a = (m * n) * y + (m * z + r)
    <2>1. m * x = m * (n * y) + m * z
      BY <1>2, SMT
    <2>2. m * (n * y) = (m * n) * y
      BY <1>2, SMT
    <2> QED BY <1>1, <1>2, <2>1, <2>2, SMT
  <1>7. a \div (m * n) = y
    BY <1>2, <1>3, <1>5, <1>6, DivUnique
  <1> QED BY <1>7 DEF y, x

LEMMA Small ==
    ASSUME NEW a \in Nat, NEW d \in Nat \ {0}, a < d
    PROVE  a \div d = 0 /\ a % d = a
  BY SMT

BankAddresses == 0 .. Line * RowLines * ChipRows - 1

LEMMA ImageSizes ==
    /\ Line \in Nat \ {0} /\ RowLines \in Nat \ {0} /\ ChipRows \in Nat \ {0}
    /\ CoreRows \in Nat \ {0} /\ Banks \in Nat \ {0} /\ ChipRows <= CoreRows
  BY ImageAssumption

(* In the first bank both splits of an address find the same cell, and a line has a cell     *)
(* of its own.                                                              *)
LEMMA CellsInBank ==
    ASSUME NEW a \in BankAddresses
    PROVE  LET cell == [bank |-> 0, row |-> (a \div Line) \div RowLines,
                        column |-> (a \div Line) % RowLines]
           IN CoreCell(a) = cell /\ PreloadCell(a) = cell
  <1> DEFINE y == RowBank(a)
  <1>1. a \in Nat /\ a < (Line * RowLines) * ChipRows /\ Line * RowLines \in Nat \ {0}
    BY ImageSizes, SMT DEF BankAddresses
  <1>2. y = (a \div Line) \div RowLines
    BY <1>1, ImageSizes, DivDiv DEF RowBank
  <1>3. y \in Nat /\ y < ChipRows
    <2> DEFINE d == Line * RowLines
               r == a % d
    <2>1. y \in Nat /\ r \in 0 .. d - 1 /\ a = d * y + r
      BY <1>1, DivMod DEF RowBank
    <2> HIDE DEF y, r, d
    <2>2. SUFFICES ASSUME ChipRows <= y PROVE FALSE
      BY <2>1, ImageSizes
    <2>3. d \in Nat \ {0} /\ a \in Nat /\ a < d * ChipRows
      BY <1>1 DEF d
    <2>4. ChipRows * d <= y * d
      BY <2>1, <2>2, <2>3, ImageSizes, ProductGrows
    <2>5. ChipRows * d = d * ChipRows /\ y * d = d * y /\ d * y \in Nat /\ d * ChipRows \in Nat
      BY <2>1, <2>3, ImageSizes, SMT
    <2> QED BY <2>1, <2>3, <2>4, <2>5, SMT
  <1> HIDE DEF y
  <1>4. /\ y \div ChipRows = 0 /\ y % ChipRows = y /\ y \div CoreRows = 0 /\ y % CoreRows = y
        /\ 0 % Banks = 0
    <2>1. y < CoreRows
      BY <1>3, ImageSizes
    <2> QED BY <1>3, <2>1, ImageSizes, Small
  <1>5. CoreCell(a) = [bank |-> (y \div CoreRows) % Banks, row |-> (y % CoreRows) % ChipRows,
                       column |-> (a \div Line) % RowLines]
    BY DEF CoreCell, Column, y
  <1>6. PreloadCell(a) = [bank |-> (y \div ChipRows) % Banks, row |-> y % ChipRows,
                          column |-> (a \div Line) % RowLines]
    BY DEF PreloadCell, Column, y
  <1> QED BY <1>2, <1>4, <1>5, <1>6

LEMMA SameCell ==
    ASSUME NEW a \in BankAddresses, NEW q \in Nat, q * Line \in BankAddresses
    PROVE  CoreCell(a) = PreloadCell(q * Line) <=> q = a \div Line
  <1> DEFINE p == a \div Line
  <1>1. Line \in Nat \ {0} /\ RowLines \in Nat \ {0} /\ a \in Nat
    BY ImageSizes DEF BankAddresses
  <1>2. p \in Nat
    BY <1>1, DivMod
  <1>3. (q * Line) \div Line = q
    <2>1. q * Line = Line * q + 0 /\ q * Line \in Nat
      BY <1>1, SMT
    <2> QED BY <1>1, <2>1, DivUnique
  <1>4. /\ CoreCell(a) = [bank |-> 0, row |-> p \div RowLines, column |-> p % RowLines]
        /\ PreloadCell(q * Line) = [bank |-> 0, row |-> q \div RowLines, column |-> q % RowLines]
    BY <1>3, CellsInBank
  <1> HIDE DEF p
  <1>5. ASSUME p \div RowLines = q \div RowLines, p % RowLines = q % RowLines
        PROVE  p = q
    <2>1. /\ p = RowLines * (p \div RowLines) + (p % RowLines)
          /\ q = RowLines * (q \div RowLines) + (q % RowLines)
      BY <1>1, <1>2, DivMod
    <2> QED BY <1>5, <2>1
  <1>6. CoreCell(a) = PreloadCell(q * Line) => p = q
    <2>1. SUFFICES ASSUME CoreCell(a) = PreloadCell(q * Line) PROVE p = q
      OBVIOUS
    <2>2. CoreCell(a).row = PreloadCell(q * Line).row
          /\ CoreCell(a).column = PreloadCell(q * Line).column
      BY <2>1
    <2>3. p \div RowLines = q \div RowLines /\ p % RowLines = q % RowLines
      BY <1>4, <2>2
    <2> QED BY <1>5, <2>3
  <1>7. p = q => CoreCell(a) = PreloadCell(q * Line)
    BY <1>4
  <1> QED BY <1>6, <1>7 DEF p

(* A set of addresses of the bank has a lowest one and a highest one.                    *)
LEMMA Lowest ==
    ASSUME NEW D, D \subseteq Nat, D # {}
    PROVE  Min(D) \in D /\ \A x \in D : Min(D) <= x
  <1>1. \E x \in D : \A y \in D : ~ (<<y, x>> \in OpToRel(<, Nat))
    BY WFMin, NatLessThanWellFounded
  <1>2. PICK x \in D : \A y \in D : x <= y
    <2>1. PICK x \in D : \A y \in D : ~ (<<y, x>> \in OpToRel(<, Nat))
      BY <1>1
    <2>2. \A y \in D : ~ (y < x)
      BY <2>1 DEF OpToRel
    <2> QED BY <2>2
  <1> DEFINE least(z) == \A y \in D : z <= y
  <1>3. Min(D) = CHOOSE z \in D : least(z)
    BY Zenon DEF Min
  <1>4. (CHOOSE z \in D : least(z)) \in D /\ least(CHOOSE z \in D : least(z))
    BY <1>2
  <1> QED BY <1>3, <1>4

LEMMA Highest ==
    ASSUME NEW n \in Nat, NEW D, D \subseteq 0 .. n, D # {}
    PROVE  Max(D) \in D /\ \A x \in D : x <= Max(D)
  <1> DEFINE E == {n - x : x \in D}
  <1>1. E \subseteq Nat /\ E # {}
    <2>1. \A x \in D : n - x \in Nat
      BY SMT
    <2> QED BY <2>1
  <1>2. Min(E) \in E /\ \A y \in E : Min(E) <= y
    BY <1>1, Lowest
  <1>3. PICK m \in D : Min(E) = n - m
    BY <1>2
  <1>4. \A x \in D : m >= x
    <2>1. ASSUME NEW x \in D PROVE m >= x
      <3>1. n - m <= n - x
        BY <1>2, <1>3
      <3>2. m \in Int /\ x \in Int
        OBVIOUS
      <3> QED BY <3>1, <3>2, SMT
    <2> QED BY <2>1
  <1>5. D \in SUBSET Int
    OBVIOUS
  <1>6. Max(D) = m
    BY <1>4, <1>5, MaxIs
  <1> QED BY <1>4, <1>5, <1>6

(* Line q of the memory: its bytes, zero where there is none.                        *)
Touched(q) == \E i \in 0 .. Line - 1 : q * Line + i \in DOMAIN memory
LineOf(q) ==
    [addr |-> q * Line,
     data |-> [i \in 0 .. Line - 1 |->
                 IF q * Line + i \in DOMAIN memory THEN memory[q * Line + i] ELSE 0]]
HasLine(q) == \E n \in DOMAIN lines : lines[n].addr = q * Line

(* Every line that is written is one of the memory, once; those before next are written.      *)
LinesRight ==
    /\ IsSequence(lines)
    /\ \A n \in DOMAIN lines : \E q \in Nat : Touched(q) /\ lines[n] = LineOf(q)
    /\ \A m, n \in DOMAIN lines : lines[m].addr = lines[n].addr => m = n

LinesTo(next_line) ==
    /\ \A q \in Nat : Touched(q) /\ q < next_line => HasLine(q)
    /\ \A n \in DOMAIN lines : lines[n].addr < next_line * Line

LinesInv ==
    /\ st \in {"idle", "open", "read", "failed"} => lines = <<>>
    /\ st = "write" => reader = Converter
    /\ (st \in {"write", "done"} /\ reader = Converter /\ DOMAIN memory \subseteq BankAddresses) =>
          /\ LinesRight
          /\ st = "write" => \E n \in Nat : addr = n * Line /\ LinesTo(n)
          /\ st = "done" => \A q \in Nat : Touched(q) => HasLine(q)

(* The bytes of a line lie between its address and the next.                            *)
LEMMA LineBounds ==
    ASSUME NEW q \in Nat, NEW n \in Nat
    PROVE  /\ q * Line \in Nat /\ (q + 1) * Line = q * Line + Line
           /\ (q < n => q * Line + Line <= n * Line)
           /\ (q < n <=> q * Line < n * Line)
           /\ \A i \in 0 .. Line - 1 : q * Line + i \in Nat
  <1>1. Line \in Nat \ {0}
    BY ImageSizes
  <1>2. PICK x \in Nat : x = q * Line
    BY <1>1, SMT
  <1>3. PICK y \in Nat : y = n * Line
    BY <1>1, SMT
  <1>4. (q + 1) * Line = x + Line
    BY <1>1, <1>2, SMT
  <1>5. q < n => x + Line <= y
    BY <1>1, <1>3, <1>4, ProductGrows
  <1>6. n <= q => y <= x
    BY <1>1, <1>2, <1>3, ProductGrows
  <1>7. q < n <=> x < y
    BY <1>1, <1>5, <1>6
  <1> QED BY <1>1, <1>2, <1>3, <1>4, <1>5, <1>7

-----------------------------------------------------------------------------
LEMMA LinesInvInit == Init => LinesInv
  BY DEF Init, LinesInv

LEMMA LinesInvBefore ==
    ASSUME LinesInv, Start \/ Open \/ ReadSection \/ ReadByte \/ NextFile
    PROVE  LinesInv'
  <1>1. /\ st \in {"idle", "open", "read"} /\ lines' = lines
        /\ st' \in {"open", "read", "failed"} \cup {st}
    BY DEF Start, Open, ReadSection, ReadByte, NextFile, Reading
  <1> QED BY <1>1 DEF LinesInv

LEMMA LinesInvAllRead ==
    ASSUME FilesInv, LinesInv, AllRead
    PROVE  LinesInv'
  <1>1. /\ st = "open" /\ st' \in {"write", "done"} /\ lines = <<>>
        /\ UNCHANGED <<reader, memory, lines>>
        /\ st' = "write" => /\ reader = Converter /\ memory # NoImage
                            /\ addr' = (Min(DOMAIN memory) \div Line) * Line
        /\ st' = "done" => ~ (reader = Converter /\ memory # NoImage)
    BY DEF AllRead, LinesInv
  <1>2. DOMAIN lines = {} /\ LinesRight'
    <2>1. DOMAIN lines = {}
      BY <1>1
    <2> QED BY <1>1, <2>1, EmptyIsSequence DEF LinesRight, IsSequence
  <1>3. ASSUME reader = Converter, DOMAIN memory \subseteq BankAddresses, st' = "write"
        PROVE  \E n \in Nat : addr' = n * Line /\ LinesTo(n)'
    <2> DEFINE lowest == Min(DOMAIN memory)
               n == lowest \div Line
    <2>1. DOMAIN memory # {}
      <3>1. IsImage(memory)
        BY <1>1, <1>3, BeforeIs DEF FilesInv
      <3> QED BY <1>1, <1>3, <3>1 DEF IsImage, NoImage
    <2>2. lowest \in Nat /\ \A x \in DOMAIN memory : lowest <= x
      <3>1. DOMAIN memory \subseteq Nat
        BY <1>3 DEF BankAddresses
      <3> QED BY <2>1, <3>1, Lowest
    <2> HIDE DEF lowest
    <2>3. n \in Nat /\ n * Line <= lowest
      <3>1. n \in Nat /\ lowest % Line \in 0 .. Line - 1 /\ lowest = Line * n + (lowest % Line)
        BY <2>2, ImageSizes, DivMod
      <3> HIDE DEF n
      <3>2. Line * n = n * Line /\ n * Line \in Nat
        BY <3>1, ImageSizes, SMT
      <3> QED BY <2>2, <3>1, <3>2, ImageSizes, SMT
    <2>4. addr' = n * Line
      BY <1>1, <1>3 DEF lowest
    <2>5. PICK m \in Nat : m = n
      BY <2>3
    <2> HIDE DEF n
    <2>6. m * Line <= lowest /\ addr' = m * Line
      BY <2>3, <2>4, <2>5
    <2>7. ASSUME NEW q \in Nat, Touched(q)', q < m
          PROVE  FALSE
      <3>1. PICK i \in 0 .. Line - 1 : q * Line + i \in DOMAIN memory
        BY <1>1, <2>7 DEF Touched
      <3>2. q * Line \in Nat /\ q * Line + Line <= m * Line /\ m * Line \in Nat
        BY <2>7, LineBounds
      <3>3. lowest <= q * Line + i
        BY <2>2, <3>1
      <3>4. PICK x \in Nat : x = q * Line
        BY <3>2
      <3>5. PICK y \in Nat : y = m * Line
        BY <3>2
      <3> QED BY <2>2, <2>6, <3>2, <3>3, <3>4, <3>5, ImageSizes, SMT
    <2>8. \A q \in Nat : Touched(q)' /\ q < m => HasLine(q)'
      BY <2>7
    <2>9. \A k \in DOMAIN lines' : lines'[k].addr < m * Line
      BY <1>1, <1>2
    <2>10. LinesTo(m)'
      BY <2>8, <2>9 DEF LinesTo
    <2> QED BY <2>6, <2>10
  <1>4. ASSUME reader = Converter, st' = "done", NEW q \in Nat
        PROVE  ~ Touched(q)'
    <2>1. DOMAIN memory' = {}
      BY <1>1, <1>4 DEF NoImage
    <2> QED BY <2>1 DEF Touched
  <1> QED BY <1>1, <1>2, <1>3, <1>4 DEF LinesInv

LEMMA LinesInvWriteLine ==
    ASSUME LinesInv, WriteLine
    PROVE  LinesInv'
  <1>1. /\ st = "write" /\ st' = "write" /\ reader = Converter
        /\ lines' = IF LineBytes \cap DOMAIN memory = {} THEN lines
                    ELSE Append(lines, [addr |-> addr, data |-> LineData])
        /\ addr' = addr + Line /\ UNCHANGED <<reader, memory>>
    BY DEF WriteLine, LinesInv
  <1>2. SUFFICES ASSUME DOMAIN memory \subseteq BankAddresses
                 PROVE  LinesRight' /\ \E n \in Nat : addr' = n * Line /\ LinesTo(n)'
    BY <1>1 DEF LinesInv
  <1>3. PICK n \in Nat : addr = n * Line /\ LinesTo(n)
    BY <1>1, <1>2 DEF LinesInv
  <1>4. LinesRight
    BY <1>1, <1>2 DEF LinesInv
  <1>5. \A q : Touched(q)' = Touched(q) /\ LineOf(q)' = LineOf(q)
    BY <1>1 DEF Touched, LineOf
  <1>6. /\ Touched(n) <=> LineBytes \cap DOMAIN memory # {}
        /\ [addr |-> addr, data |-> LineData] = LineOf(n)
    <2>1. PICK x \in Nat : x = n * Line
      BY LineBounds
    <2>2. Line \in Nat \ {0}
      BY ImageSizes
    <2>3. Touched(n) <=> LineBytes \cap DOMAIN memory # {}
      <3>1. LineBytes = x .. x + Line - 1
        BY <1>3, <2>1 DEF LineBytes
      <3>2. ASSUME Touched(n) PROVE LineBytes \cap DOMAIN memory # {}
        <4>1. PICK i \in 0 .. Line - 1 : x + i \in DOMAIN memory
          BY <2>1, <3>2 DEF Touched
        <4>2. x + i \in x .. x + Line - 1
          BY <2>2
        <4> QED BY <3>1, <4>1, <4>2
      <3>3. ASSUME LineBytes \cap DOMAIN memory # {} PROVE Touched(n)
        <4>1. PICK b \in x .. x + Line - 1 : b \in DOMAIN memory
          BY <3>1, <3>3
        <4>2. b - x \in 0 .. Line - 1 /\ x + (b - x) = b
          BY <2>2
        <4> QED BY <2>1, <4>1, <4>2 DEF Touched
      <3> QED BY <3>2, <3>3
    <2>4. [addr |-> addr, data |-> LineData] = LineOf(n)
      BY <1>3 DEF LineData, LineOf
    <2> QED BY <2>3, <2>4
  <1>7. addr' = (n + 1) * Line /\ n + 1 \in Nat /\ n * Line < (n + 1) * Line
    BY <1>1, <1>3, LineBounds
  <1>8. CASE ~ Touched(n)
    <2>1. lines' = lines
      BY <1>1, <1>6, <1>8
    <2>2. LinesRight'
      BY <1>4, <1>5, <2>1 DEF LinesRight, IsSequence
    <2>3. \A q \in Nat : Touched(q)' /\ q < n + 1 => HasLine(q)'
      <3>1. ASSUME NEW q \in Nat, Touched(q)', q < n + 1
            PROVE  HasLine(q)'
        <4>1. q < n
          BY <1>5, <1>8, <3>1
        <4>2. HasLine(q)
          BY <1>3, <1>5, <3>1, <4>1 DEF LinesTo
        <4> QED BY <2>1, <4>2 DEF HasLine
      <3> QED BY <3>1
    <2>4. \A m \in DOMAIN lines' : lines'[m].addr < (n + 1) * Line
      <3>1. \A m \in DOMAIN lines : /\ lines[m].addr < n * Line
                                    /\ \E q \in Nat : lines[m].addr = q * Line
        BY <1>3, <1>4 DEF LinesTo, LinesRight, LineOf
      <3> QED BY <2>1, <3>1, <1>7, LineBounds
    <2> QED BY <1>7, <2>2, <2>3, <2>4 DEF LinesTo
  <1>9. CASE Touched(n)
    <2> DEFINE len == Len(lines)
               line == LineOf(n)
    <2>1. lines' = Append(lines, line)
      BY <1>1, <1>6, <1>9
    <2>2. IsSequence(lines) /\ DOMAIN lines = 1 .. len /\ len \in Nat
      BY <1>4 DEF LinesRight, IsSequence
    <2>3. /\ IsSequence(lines') /\ DOMAIN lines' = 1 .. len + 1
          /\ \A k \in 1 .. len : lines'[k] = lines[k]
          /\ lines'[len + 1] = line
      <3>1. /\ IsSequence(Append(lines, line)) /\ Len(Append(lines, line)) = len + 1
            /\ \A k \in 1 .. len : Append(lines, line)[k] = lines[k]
            /\ Append(lines, line)[len + 1] = line
        BY <2>2, AppendIsSequence
      <3>2. DOMAIN Append(lines, line) = 1 .. len + 1
        BY <3>1 DEF IsSequence
      <3> HIDE DEF line, len
      <3> QED BY <2>1, <3>1, <3>2
    <2>4. line.addr = n * Line
      BY DEF LineOf
    <2> HIDE DEF line, len
    <2>5. \A k \in 1 .. len : /\ lines[k].addr < n * Line
                              /\ \E q \in Nat : Touched(q) /\ lines[k] = LineOf(q)
                                                /\ lines[k].addr = q * Line
      <3>1. \A q : LineOf(q).addr = q * Line
        BY DEF LineOf
      <3> QED BY <1>3, <1>4, <2>2, <3>1 DEF LinesTo, LinesRight
    <2>6. \A k \in DOMAIN lines' : \E q \in Nat : Touched(q)' /\ lines'[k] = LineOf(q)'
      <3>1. ASSUME NEW k \in 1 .. len + 1
            PROVE  \E q \in Nat : Touched(q)' /\ lines'[k] = LineOf(q)'
        <4>1. CASE k = len + 1
          BY <1>5, <1>9, <2>3, <4>1 DEF line
        <4>2. CASE k # len + 1
          <5>1. k \in 1 .. len
            BY <2>2, <4>2
          <5> QED BY <1>5, <2>3, <2>5, <5>1
        <4> QED BY <4>1, <4>2
      <3> QED BY <2>3, <3>1
    <2>7. \A k, m \in DOMAIN lines' : lines'[k].addr = lines'[m].addr => k = m
      <3>1. ASSUME NEW k \in 1 .. len + 1, NEW m \in 1 .. len + 1, lines'[k].addr = lines'[m].addr
            PROVE  k = m
        <4>1. /\ k \in 1 .. len \/ k = len + 1
              /\ m \in 1 .. len \/ m = len + 1
          BY <2>2
        <4>2. \A j \in 1 .. len : lines'[j].addr # lines'[len + 1].addr
          <5>1. SUFFICES ASSUME NEW j \in 1 .. len PROVE lines'[j].addr # lines'[len + 1].addr
            OBVIOUS
          <5>2. PICK q \in Nat : lines[j].addr = q * Line /\ q * Line < n * Line
            BY <2>5
          <5>3. q * Line \in Nat /\ n * Line \in Nat
            BY LineBounds
          <5>4. q * Line # n * Line
            BY <5>2, <5>3
          <5> QED BY <2>3, <2>4, <5>2, <5>4
        <4>3. k \in 1 .. len /\ m \in 1 .. len => k = m
          BY <1>4, <2>2, <2>3, <3>1 DEF LinesRight
        <4> QED BY <3>1, <4>1, <4>2, <4>3
      <3> QED BY <2>3, <3>1
    <2>8. LinesRight'
      BY <2>3, <2>6, <2>7 DEF LinesRight, IsSequence
    <2>9. \A q \in Nat : Touched(q)' /\ q < n + 1 => HasLine(q)'
      <3>1. ASSUME NEW q \in Nat, Touched(q)', q < n + 1
            PROVE  HasLine(q)'
        <4>1. CASE q = n
          <5>1. len + 1 \in DOMAIN lines' /\ lines'[len + 1].addr = q * Line
            BY <2>2, <2>3, <2>4, <4>1
          <5> QED BY <5>1 DEF HasLine
        <4>2. CASE q # n
          <5>1. HasLine(q)
            BY <1>3, <1>5, <3>1, <4>2 DEF LinesTo
          <5>2. PICK k \in 1 .. len : lines[k].addr = q * Line
            BY <2>2, <5>1 DEF HasLine
          <5>3. k \in DOMAIN lines' /\ lines'[k].addr = q * Line
            BY <2>2, <2>3, <5>2
          <5> QED BY <5>3 DEF HasLine
        <4> QED BY <4>1, <4>2
      <3> QED BY <3>1
    <2>10. \A k \in DOMAIN lines' : lines'[k].addr < (n + 1) * Line
      <3>1. ASSUME NEW k \in 1 .. len + 1
            PROVE  lines'[k].addr < (n + 1) * Line
        <4>1. CASE k = len + 1
          BY <1>7, <2>3, <2>4, <4>1
        <4>2. CASE k # len + 1
          <5>1. k \in 1 .. len
            BY <2>2, <4>2
          <5>2. PICK q \in Nat : lines[k].addr = q * Line /\ q * Line < n * Line
            BY <2>5, <5>1
          <5>3. q < n /\ q < n + 1
            BY <5>2, LineBounds
          <5>4. q * Line < (n + 1) * Line
            BY <1>7, <5>3, LineBounds
          <5> QED BY <2>3, <5>1, <5>2, <5>4
        <4> QED BY <4>1, <4>2
      <3> QED BY <2>3, <3>1
    <2> QED BY <1>7, <2>8, <2>9, <2>10 DEF LinesTo
  <1> QED BY <1>8, <1>9

LEMMA LinesInvWritten ==
    ASSUME LinesInv, Written
    PROVE  LinesInv'
  <1>1. /\ st = "write" /\ st' = "done" /\ reader = Converter
        /\ addr >= Max(DOMAIN memory) + Line /\ UNCHANGED <<reader, memory, lines>>
    BY DEF Written, LinesInv
  <1>2. SUFFICES ASSUME DOMAIN memory \subseteq BankAddresses
                 PROVE  LinesRight' /\ \A q \in Nat : Touched(q)' => HasLine(q)'
    BY <1>1 DEF LinesInv
  <1>3. PICK n \in Nat : addr = n * Line /\ LinesTo(n)
    BY <1>1, <1>2 DEF LinesInv
  <1>4. LinesRight
    BY <1>1, <1>2 DEF LinesInv
  <1>5. \A q : Touched(q)' = Touched(q) /\ LineOf(q)' = LineOf(q) /\ HasLine(q)' = HasLine(q)
    BY <1>1 DEF Touched, LineOf, HasLine
  <1>6. LinesRight'
    BY <1>1, <1>4, <1>5 DEF LinesRight, IsSequence
  <1>7. ASSUME NEW q \in Nat, Touched(q)
        PROVE  HasLine(q)
    <2>1. PICK i \in 0 .. Line - 1 : q * Line + i \in DOMAIN memory
      BY <1>7 DEF Touched
    <2>2. PICK top \in Nat : DOMAIN memory \subseteq 0 .. top
      <3>1. Line * RowLines * ChipRows \in Nat \ {0}
        BY ImageSizes, SMT
      <3> QED BY <1>2, <3>1 DEF BankAddresses
    <2>3. PICK m \in Nat : m = Max(DOMAIN memory)
      BY <2>1, <2>2, Highest
    <2>4. q * Line + i <= m
      BY <2>1, <2>2, <2>3, Highest
    <2>5. PICK x \in Nat : x = q * Line
      BY LineBounds
    <2>6. PICK y \in Nat : y = n * Line
      BY LineBounds
    <2>7. x < y
      <3>1. y >= m + Line
        BY <1>1, <1>3, <2>3, <2>6
      <3>2. x + i <= m /\ i \in Nat /\ Line \in Nat \ {0}
        BY <2>4, <2>5, ImageSizes
      <3> QED BY <3>1, <3>2
    <2>8. q < n
      BY <2>5, <2>6, <2>7, LineBounds
    <2> QED BY <1>3, <1>7, <2>8 DEF LinesTo
  <1> QED BY <1>5, <1>6, <1>7

LEMMA LinesInvStep == FilesInv /\ LinesInv /\ [Next]_vars => LinesInv'
  <1> SUFFICES ASSUME FilesInv, LinesInv, [Next]_vars
               PROVE  LinesInv'
    OBVIOUS
  <1>1. CASE UNCHANGED vars
    <2>1. UNCHANGED <<st, reader, memory, addr, lines>>
      BY <1>1 DEF vars
    <2>2. \A q : Touched(q)' = Touched(q) /\ LineOf(q)' = LineOf(q) /\ HasLine(q)' = HasLine(q)
      BY <2>1 DEF Touched, LineOf, HasLine
    <2>3. /\ LinesRight' = LinesRight
          /\ \A n : LinesTo(n)' = LinesTo(n)
      BY <2>1, <2>2 DEF LinesRight, LinesTo, IsSequence
    <2> QED BY <2>1, <2>2, <2>3 DEF LinesInv
  <1> QED BY <1>1, LinesInvBefore, LinesInvAllRead, LinesInvWriteLine, LinesInvWritten DEF Next, Step

LEMMA LinesInvHolds == FilesInv /\ LinesInv => PreloadIsReadBack
  <1> SUFFICES ASSUME FilesInv, LinesInv, st = "done", reader = Converter,
                      DOMAIN Wanted \subseteq BankAddresses, NEW a \in BankAddresses
               PROVE  ReadOfCore(a) = IF a \in DOMAIN Wanted THEN Wanted[a] ELSE 0
    BY DEF PreloadIsReadBack, BankAddresses
  <1>1. memory = Wanted
    BY DEF FilesInv
  <1>2. LinesRight /\ \A q \in Nat : Touched(q) => HasLine(q)
    BY <1>1 DEF LinesInv
  <1> DEFINE rest == a % Line
             c == CoreCell(a)
             hits == {n \in DOMAIN lines : PreloadCell(lines[n].addr) = c}
  <1>3. PICK p \in Nat : /\ p = a \div Line /\ a = p * Line + rest /\ rest \in 0 .. Line - 1
    <2>1. a \in Nat /\ Line \in Nat \ {0}
      BY ImageSizes DEF BankAddresses
    <2>2. PICK q \in Nat : q = a \div Line
      BY <2>1, DivMod
    <2>3. rest \in 0 .. Line - 1 /\ a = Line * q + rest
      BY <2>1, <2>2, DivMod
    <2>4. Line * q = q * Line
      BY <2>1, <2>2, SMT
    <2> QED BY <2>2, <2>3, <2>4
  <1> HIDE DEF rest
  <1>4. ASSUME NEW q \in Nat, Touched(q)
        PROVE  q * Line \in BankAddresses
    <2>1. PICK i \in 0 .. Line - 1 : q * Line + i \in BankAddresses
      BY <1>1, <1>4 DEF Touched
    <2>2. PICK x \in Nat : x = q * Line
      BY LineBounds
    <2>3. PICK size \in Nat : size = Line * RowLines * ChipRows
      BY ImageSizes, SMT
    <2> QED BY <2>1, <2>2, <2>3, ImageSizes DEF BankAddresses
  <1>5. \A n \in DOMAIN lines : \E q \in Nat :
           /\ lines[n] = LineOf(q) /\ lines[n].addr = q * Line
           /\ PreloadCell(lines[n].addr) = c <=> q = p
    <2>1. SUFFICES ASSUME NEW n \in DOMAIN lines
                   PROVE  \E q \in Nat : /\ lines[n] = LineOf(q) /\ lines[n].addr = q * Line
                                         /\ PreloadCell(lines[n].addr) = c <=> q = p
      OBVIOUS
    <2>2. PICK q \in Nat : Touched(q) /\ lines[n] = LineOf(q)
      BY <1>2 DEF LinesRight
    <2>3. lines[n].addr = q * Line
      BY <2>2 DEF LineOf
    <2>4. CoreCell(a) = PreloadCell(q * Line) <=> q = a \div Line
      BY <1>4, <2>2, SameCell
    <2> QED BY <1>3, <2>2, <2>3, <2>4
  <1>6. ReadOfCore(a) = (IF hits = {} THEN [i \in 0 .. Line - 1 |-> 0]
                         ELSE lines[Max(hits)].data)[rest]
    BY DEF ReadOfCore, Cell, rest
  <1> HIDE DEF c
  <1>7. CASE Touched(p)
    <2>1. PICK n \in DOMAIN lines : lines[n].addr = p * Line
      BY <1>2, <1>7 DEF HasLine
    <2>2. \A q \in Nat : q * Line = p * Line => q = p
      <3>1. SUFFICES ASSUME NEW q \in Nat, q * Line = p * Line PROVE q = p
        OBVIOUS
      <3>2. /\ q * Line \in Nat /\ p * Line \in Nat
            /\ q < p <=> q * Line < p * Line
            /\ p < q <=> p * Line < q * Line
        BY LineBounds
      <3> QED BY <3>1, <3>2
    <2>3. lines[n] = LineOf(p) /\ n \in hits
      BY <1>5, <2>1, <2>2
    <2>4. hits = {n}
      <3>1. ASSUME NEW k \in hits PROVE k = n
        <4>1. lines[k].addr = p * Line
          BY <1>5, <3>1
        <4> QED BY <1>2, <2>1, <4>1 DEF LinesRight
      <3> QED BY <2>3, <3>1
    <2>5. Max({n}) = n
      <3>1. n \in Int
        BY <1>2 DEF LinesRight, IsSequence
      <3> QED BY <3>1, MaxIs
    <2>6. ReadOfCore(a) = LineOf(p).data[rest]
      BY <1>6, <2>3, <2>4, <2>5
    <2>7. LineOf(p).data[rest] = IF a \in DOMAIN memory THEN memory[a] ELSE 0
      BY <1>3 DEF LineOf
    <2> QED BY <1>1, <2>6, <2>7
  <1>8. CASE ~ Touched(p)
    <2>1. hits = {}
      <3>1. ASSUME NEW k \in hits PROVE FALSE
        <4>1. lines[k].addr = p * Line /\ k \in DOMAIN lines
          BY <1>5, <3>1
        <4>2. PICK q \in Nat : Touched(q) /\ lines[k] = LineOf(q)
          BY <1>2, <4>1 DEF LinesRight
        <4>3. q * Line = p * Line
          BY <4>1, <4>2 DEF LineOf
        <4> QED BY <1>8, <4>2, <4>3 DEF Touched
      <3> QED BY <3>1
    <2>2. ReadOfCore(a) = 0
      BY <1>3, <1>6, <2>1
    <2>3. a \notin DOMAIN memory
      BY <1>3, <1>8 DEF Touched
    <2> QED BY <1>1, <2>2, <2>3
  <1> QED BY <1>7, <1>8

(* What tools/vmem_to_ddr3_init.py writes into the preload file is what the core then reads     *)
(* from the DRAM at every address of the first bank: the lines it leaves out are zero, no line     *)
(* is lost or put over another, and the 14 row bits of the model of the chip and the 15 of      *)
(* ddr3_core.v find the same cell, whatever the files, the length of a line and the geometry.     *)
THEOREM PreloadArrives == Spec => []PreloadIsReadBack
  <1>1. Init => FilesInv /\ LinesInv
    BY FilesInvInit, LinesInvInit
  <1>2. (FilesInv /\ LinesInv) /\ [Next]_vars => (FilesInv /\ LinesInv)'
    BY FilesInvStep, LinesInvStep
  <1> QED BY <1>1, <1>2, LinesInvHolds, PTL DEF Spec

-----------------------------------------------------------------------------
(* FlashTools: the file without addresses                                      *)

(* The section of a word is the last that begins before it, or none.                  *)
LEMMA SectionIs ==
    ASSUME NEW f \in Seq(Words), NEW p \in 0 .. Len(f)
    PROVE  /\ SectionOf(f, p) \in 0 .. p
           /\ SectionOf(f, p) # 0 => IsSection(f[SectionOf(f, p)])
           /\ \A i \in 1 .. p : IsSection(f[i]) => i <= SectionOf(f, p)
  <1> DEFINE D == {0} \cup {i \in 1 .. p : IsSection(f[i])}
  <1>1. p \in Nat /\ D \subseteq 0 .. p /\ D # {}
    OBVIOUS
  <1>2. Max(D) \in D /\ \A x \in D : x <= Max(D)
    BY <1>1, Highest
  <1>3. SectionOf(f, p) = Max(D)
    BY DEF SectionOf
  <1> QED BY <1>1, <1>2, <1>3

LEMMA KindsOfWords ==
    ASSUME NEW f \in Seq(Words), NEW j \in 1 .. Len(f)
    PROVE  /\ f[j] \in Words /\ f[j].value \in Int
           /\ ~IsSection(f[j]) /\ f[j].value # Unreadable <=> IsByte(f[j])
  <1>1. f[j] \in Words
    BY ElementOfSeq
  <1> QED BY <1>1 DEF Words, IsSection, IsByte

(* Where the next byte of a file belongs after p words.                              *)
Top(f, p) == f[SectionOf(f, p)].value + Counted(f, p)

LEMMA EndIs ==
    ASSUME NEW f \in Seq(Words), NEW p \in 1 .. Len(f), p = Len(f) \/ IsSection(f[p + 1]),
           SectionOf(f, p) # 0
    PROVE  End(f, SectionOf(f, p)) = Top(f, p) /\ SectionOf(f, p) \in Sections(f)
  <1>1. PICK m \in 1 .. p : m = SectionOf(f, p)
    BY SectionIs
  <1>2. /\ IsSection(f[m]) /\ p \in Nat /\ Len(f) \in Nat /\ p <= Len(f)
        /\ \A i \in 1 .. p : IsSection(f[i]) => i <= m
    BY <1>1, SectionIs
  <1>3. \A j \in 1 .. Len(f) : (IsByte(f[j]) /\ SectionOf(f, j) = m) <=> (j \in m + 1 .. p /\ IsByte(f[j]))
    <2>1. SUFFICES ASSUME NEW j \in 1 .. Len(f), IsByte(f[j])
                   PROVE  SectionOf(f, j) = m <=> j \in m + 1 .. p
      OBVIOUS
    <2>2. j # m /\ j # p + 1
      <3>1. ~IsSection(f[j])
        BY KindsOfWords, <2>1
      <3> QED BY <1>2, <3>1
    <2>3. PICK k \in 0 .. j : k = SectionOf(f, j)
      BY SectionIs
    <2>4. /\ k # 0 => IsSection(f[k])
          /\ \A i \in 1 .. j : IsSection(f[i]) => i <= k
      BY <2>3, SectionIs
    <2>5. ASSUME k = m PROVE j \in m + 1 .. p
      <3>1. m <= j
        BY <2>5
      <3>2. ~ (p + 1 <= j)
        <4>1. SUFFICES ASSUME p + 1 <= j PROVE FALSE
          OBVIOUS
        <4>2. IsSection(f[p + 1]) /\ p + 1 \in 1 .. j
          BY <1>2, <4>1
        <4> QED BY <2>4, <2>5, <4>2
      <3> QED BY <1>2, <2>2, <3>1, <3>2
    <2>6. ASSUME j \in m + 1 .. p PROVE k = m
      <3>1. m <= k
        BY <1>2, <2>4, <2>6
      <3>2. k <= m
        BY <1>2, <2>4, <2>6, <3>1
      <3> QED BY <3>1, <3>2
    <2> QED BY <2>3, <2>5, <2>6
  <1>4. {j \in DOMAIN f : IsByte(f[j]) /\ SectionOf(f, j) = m} = {j \in m + 1 .. p : IsByte(f[j])}
    <2>1. DOMAIN f = 1 .. Len(f) /\ m + 1 .. p \subseteq 1 .. Len(f)
      BY <1>2
    <2> QED BY <1>3, <2>1
  <1>5. End(f, m) = f[m].value + Cardinality({j \in m + 1 .. p : IsByte(f[j])})
    BY <1>4 DEF End
  <1> QED BY <1>1, <1>2, <1>5 DEF Top, Counted, Sections

(* The bytes g, from the first section of f on, are what p words of f say, zeros between.       *)
Filled(f, p, g) ==
    /\ g \in Seq(Words) /\ Len(g) = Top(f, p) - f[1].value
    /\ \A k \in 1 .. Len(g) : IsByte(g[k])
    /\ \A k \in 1 .. Len(g) : LET a == f[1].value + (k - 1) IN
          g[k].value = IF a \in DOMAIN MeaningTo(f, p) THEN MeaningTo(f, p)[a] ELSE 0
    /\ DOMAIN MeaningTo(f, p) \subseteq f[1].value .. Top(f, p) - 1

(* The state of clear_adresses_for_qspi_boot.py after p words.                           *)
Cleared(f, p, prev, len, g) ==
    /\ p \in 0 .. Len(f)
    /\ p = 0 => g = <<>> /\ prev = {}
    /\ p # 0 => /\ SectionOf(f, p) # 0 /\ prev = {f[SectionOf(f, p)].value}
                /\ len = Counted(f, p) /\ Filled(f, p, g)

LEMMA ZerosAre ==
    ASSUME NEW n \in Nat
    PROVE  /\ Zeros(n) \in Seq(Words) /\ Len(Zeros(n)) = n
           /\ \A k \in 1 .. n : Zeros(n)[k].value = 0 /\ IsByte(Zeros(n)[k])
  <1>1. Byte(0) \in Words /\ Byte(0).value = 0 /\ IsByte(Byte(0))
    BY DEF Byte, Words, IsByte, Unreadable
  <1> HIDE DEF Byte
  <1> QED BY <1>1 DEF Zeros

LEMMA FirstSection ==
    ASSUME NEW f \in Seq(Words), 1 <= Len(f), WellFormed(f)
    PROVE  /\ IsSection(f[1]) /\ SectionOf(f, 1) = 1 /\ Counted(f, 1) = 0 /\ f[1].value \in Int
           /\ MeaningTo(f, 1) = NoImage /\ Top(f, 1) = f[1].value
  <1>1. 0 \in 0 .. Len(f) - 1 /\ 0 + 1 = 1 /\ 1 \in 1 .. Len(f)
    OBVIOUS
  <1>2. IsSection(f[1])
    <2>1. f # <<>>
      BY <1>1
    <2> QED BY <2>1 DEF WellFormed
  <1>3. SectionOf(f, 1) = 1 /\ SectionOf(f, 0) = 0
    BY <1>1, <1>2, SectionStep
  <1>4. Counted(f, 1) = 0
    BY <1>1, <1>2, <1>3, CountStep
  <1>5. 1 \notin Placed(f)
    BY <1>1, <1>2, KindsOfWords DEF Placed
  <1>6. MeaningTo(f, 1) = NoImage
    BY <1>1, <1>5, MeaningStep, MeaningStart
  <1>7. f[1].value \in Int
    BY <1>1, KindsOfWords
  <1> QED BY <1>2, <1>3, <1>4, <1>6, <1>7 DEF Top

LEMMA ClearedFirst ==
    ASSUME NEW f \in Seq(Words), 1 <= Len(f), WellFormed(f)
    PROVE  Cleared(f, 1, {f[1].value}, 0, <<>>)
  <1>1. <<>> \in Seq(Words) /\ Len(<<>>) = 0
    BY EmptySeq
  <1>2. DOMAIN NoImage = {}
    BY DEF NoImage
  <1>3. Filled(f, 1, <<>>)
    BY <1>1, <1>2, FirstSection DEF Filled
  <1>4. 1 \in 0 .. Len(f)
    OBVIOUS
  <1> QED BY <1>3, <1>4, FirstSection DEF Cleared

LEMMA TopIs ==
    ASSUME NEW f \in Seq(Words), NEW p \in 1 .. Len(f), SectionOf(f, p) # 0
    PROVE  Top(f, p) \in Int /\ Counted(f, p) \in Nat /\ SectionOf(f, p) \in 1 .. p
  <1>1. PICK m \in 1 .. p : m = SectionOf(f, p)
    BY SectionIs
  <1>2. f[m].value \in Int
    BY KindsOfWords
  <1>3. Counted(f, p) \in Nat
    <2>1. IsFiniteSet(m + 1 .. p)
      BY FS_Interval
    <2>2. {i \in m + 1 .. p : IsByte(f[i])} \in SUBSET (m + 1 .. p)
      OBVIOUS
    <2> QED BY <1>1, <2>1, <2>2, FS_Subset, FS_CardinalityType DEF Counted
  <1> QED BY <1>1, <1>2, <1>3 DEF Top

LEMMA ClearedSection ==
    ASSUME NEW f \in Seq(Words), WellFormed(f), Ordered(f), NEW p \in 1 .. Len(f) - 1,
           IsSection(f[p + 1]), SectionOf(f, p) # 0, NEW g, Filled(f, p, g)
    PROVE  /\ f[p + 1].value - Top(f, p) \in Nat
           /\ Cleared(f, p + 1, {f[p + 1].value}, 0, g \o Zeros(f[p + 1].value - Top(f, p)))
  <1>1. /\ p \in 0 .. Len(f) - 1 /\ p \in 1 .. Len(f) /\ p + 1 \in 1 .. Len(f)
        /\ p + 1 # 0 /\ p + 1 \in 0 .. Len(f)
    OBVIOUS
  <1>2. /\ SectionOf(f, p + 1) = p + 1 /\ Counted(f, p + 1) = 0
        /\ f[p + 1].value \in Int
    BY <1>1, SectionIs, SectionStep, CountStep, KindsOfWords
  <1>3. PICK v \in Int : v = f[p + 1].value
    BY <1>2
  <1>4. PICK top \in Int : top = Top(f, p)
    BY <1>1, TopIs
  <1>5. PICK first \in Int : first = f[1].value
    <2>1. 1 \in 1 .. Len(f)
      BY <1>1
    <2> QED BY <2>1, KindsOfWords
  <1>6. top <= v
    <2>1. End(f, SectionOf(f, p)) = top /\ SectionOf(f, p) \in Sections(f)
      BY <1>4, EndIs
    <2>2. p + 1 \in Sections(f) /\ SectionOf(f, p) < p + 1
      BY <1>1, TopIs DEF Sections
    <2> QED BY <1>3, <2>1, <2>2 DEF Ordered
  <1>7. PICK n \in Nat : n = v - top
    BY <1>6
  <1>8. Top(f, p + 1) = v
    BY <1>2, <1>3 DEF Top
  <1>9. MeaningTo(f, p + 1) = MeaningTo(f, p)
    <2>1. p + 1 \notin Placed(f)
      BY <1>1, KindsOfWords DEF Placed
    <2> QED BY <1>1, <2>1, MeaningStep
  <1> DEFINE h == g \o Zeros(n)
             M == MeaningTo(f, p)
  <1>10. /\ g \in Seq(Words) /\ Len(g) = top - first
         /\ \A k \in 1 .. Len(g) : IsByte(g[k])
         /\ \A k \in 1 .. Len(g) : g[k].value = IF first + (k - 1) \in DOMAIN M
                                                  THEN M[first + (k - 1)] ELSE 0
         /\ DOMAIN M \subseteq first .. top - 1
    BY <1>4, <1>5 DEF Filled
  <1>11. Zeros(n) \in Seq(Words) /\ Len(Zeros(n)) = n
         /\ \A k \in 1 .. n : Zeros(n)[k].value = 0 /\ IsByte(Zeros(n)[k])
    BY ZerosAre
  <1>12. /\ h \in Seq(Words) /\ Len(h) = Len(g) + n
         /\ \A k \in 1 .. Len(g) + n : h[k] = IF k <= Len(g) THEN g[k] ELSE Zeros(n)[k - Len(g)]
    BY <1>10, <1>11, ConcatProperties
  <1> HIDE DEF h, M
  <1>13. PICK l \in Nat : l = Len(g)
    BY <1>10, LenProperties
  <1>14. \A k \in 1 .. Len(h) : /\ IsByte(h[k])
                                /\ h[k].value = IF first + (k - 1) \in DOMAIN M
                                                  THEN M[first + (k - 1)] ELSE 0
    <2>1. SUFFICES ASSUME NEW k \in 1 .. l + n
                   PROVE  /\ IsByte(h[k])
                          /\ h[k].value = IF first + (k - 1) \in DOMAIN M
                                            THEN M[first + (k - 1)] ELSE 0
      BY <1>12, <1>13
    <2>2. CASE k <= l
      <3>1. k \in 1 .. l /\ h[k] = g[k]
        BY <1>12, <1>13, <2>2
      <3> QED BY <1>10, <1>13, <3>1
    <2>3. CASE ~ (k <= l)
      <3>1. PICK i \in 1 .. n : i = k - l
        BY <2>3
      <3>2. h[k] = Zeros(n)[i]
        BY <1>12, <1>13, <2>3, <3>1
      <3>3. first + (k - 1) \notin DOMAIN M
        <4>1. first + (k - 1) >= top
          BY <1>10, <1>13, <2>3
        <4> QED BY <1>10, <4>1
      <3> QED BY <1>11, <3>2, <3>3
    <2> QED BY <2>2, <2>3
  <1>15. Len(h) = v - first
    BY <1>7, <1>10, <1>12
  <1>16. DOMAIN M \subseteq first .. v - 1
    BY <1>6, <1>10
  <1>17. Filled(f, p + 1, h)
    BY <1>5, <1>8, <1>9, <1>12, <1>14, <1>15, <1>16 DEF Filled, M
  <1>18. Cleared(f, p + 1, {v}, 0, h)
    BY <1>1, <1>2, <1>3, <1>17 DEF Cleared
  <1> QED BY <1>3, <1>4, <1>7, <1>18 DEF h

LEMMA ClearedByte ==
    ASSUME NEW f \in Seq(Words), WellFormed(f), NEW p \in 1 .. Len(f) - 1,
           ~IsSection(f[p + 1]), SectionOf(f, p) # 0, NEW g, Filled(f, p, g)
    PROVE  Cleared(f, p + 1, {f[SectionOf(f, p)].value}, Counted(f, p) + 1, Append(g, f[p + 1]))
  <1>1. /\ p \in 0 .. Len(f) - 1 /\ p \in 1 .. Len(f) /\ p + 1 \in 1 .. Len(f)
        /\ p + 1 # 0 /\ p + 1 \in 0 .. Len(f) /\ DOMAIN f = 1 .. Len(f)
    OBVIOUS
  <1>2. IsByte(f[p + 1]) /\ f[p + 1] \in Words
    BY <1>1, KindsOfWords DEF WellFormed
  <1>3. SectionOf(f, p) \in 0 .. p
    BY <1>1, TopIs
  <1>4. /\ SectionOf(f, p + 1) = SectionOf(f, p) /\ Counted(f, p + 1) = Counted(f, p) + 1
        /\ AddressOf(f, p + 1) = Top(f, p)
    BY <1>1, <1>2, <1>3, SectionStep, CountStep DEF Top
  <1>5. PICK top \in Int : top = Top(f, p)
    BY <1>1, TopIs
  <1>6. PICK first \in Int : first = f[1].value
    <2>1. 1 \in 1 .. Len(f)
      BY <1>1
    <2> QED BY <2>1, KindsOfWords
  <1>7. Top(f, p + 1) = top + 1
    <2>1. PICK m \in 1 .. Len(f) : m = SectionOf(f, p)
      BY <1>1, TopIs
    <2>2. PICK a \in Int : a = f[m].value
      BY KindsOfWords
    <2>3. PICK c \in Nat : c = Counted(f, p)
      BY <1>1, TopIs
    <2>4. top = a + c
      BY <1>5, <2>1, <2>2, <2>3 DEF Top
    <2>5. Top(f, p + 1) = a + (c + 1)
      BY <1>4, <2>1, <2>2, <2>3 DEF Top
    <2> QED BY <2>4, <2>5
  <1> DEFINE h == Append(g, f[p + 1])
             v == f[p + 1].value
             M == MeaningTo(f, p)
             N == MeaningTo(f, p + 1)
  <1>8. p + 1 \in Placed(f)
    <2>1. f[SectionOf(f, p)].value # Unreadable
      BY <1>1, TopIs DEF WellFormed
    <2> QED BY <1>1, <1>2, <1>4, <2>1 DEF Placed
  <1>9. N = Over(M, One(top, v))
    BY <1>1, <1>4, <1>5, <1>8, MeaningStep DEF One
  <1>10. DOMAIN N = DOMAIN M \cup {top} /\ N[top] = v /\ \A a \in DOMAIN M : a # top => N[a] = M[a]
    BY <1>9 DEF Over, One
  <1>11. /\ g \in Seq(Words) /\ Len(g) = top - first
         /\ \A k \in 1 .. Len(g) : IsByte(g[k])
         /\ \A k \in 1 .. Len(g) : g[k].value = IF first + (k - 1) \in DOMAIN M
                                                  THEN M[first + (k - 1)] ELSE 0
         /\ DOMAIN M \subseteq first .. top - 1
    BY <1>5, <1>6 DEF Filled
  <1>12. PICK l \in Nat : l = Len(g)
    BY <1>11, LenProperties
  <1>13. /\ h \in Seq(Words) /\ Len(h) = l + 1
         /\ \A k \in 1 .. l : h[k] = g[k]
         /\ h[l + 1] = f[p + 1]
    BY <1>2, <1>11, <1>12, AppendProperties
  <1> HIDE DEF h, M, N, v
  <1>14. \A k \in 1 .. Len(h) : /\ IsByte(h[k])
                                /\ h[k].value = IF first + (k - 1) \in DOMAIN N
                                                  THEN N[first + (k - 1)] ELSE 0
    <2>1. SUFFICES ASSUME NEW k \in 1 .. l + 1
                   PROVE  /\ IsByte(h[k])
                          /\ h[k].value = IF first + (k - 1) \in DOMAIN N
                                            THEN N[first + (k - 1)] ELSE 0
      BY <1>13
    <2>2. CASE k = l + 1
      <3>1. first + (k - 1) = top
        BY <1>11, <1>12, <2>2
      <3> QED BY <1>2, <1>10, <1>13, <2>2, <3>1 DEF v
    <2>3. CASE k # l + 1
      <3>1. k \in 1 .. l
        BY <2>3
      <3>2. PICK a \in Int : a = first + (k - 1)
        OBVIOUS
      <3>3. a # top
        BY <1>11, <1>12, <3>1, <3>2
      <3>4. IsByte(g[k]) /\ g[k].value = IF a \in DOMAIN M THEN M[a] ELSE 0
        BY <1>11, <1>12, <3>1, <3>2
      <3> QED BY <1>10, <1>13, <3>1, <3>2, <3>3, <3>4
    <2> QED BY <2>2, <2>3
  <1>15. Len(h) = (top + 1) - first
    BY <1>11, <1>12, <1>13
  <1>16. DOMAIN N \subseteq first .. (top + 1) - 1
    <2>1. first <= top
      BY <1>11, <1>12
    <2> QED BY <1>10, <1>11, <2>1
  <1>17. Filled(f, p + 1, h)
    BY <1>6, <1>7, <1>13, <1>14, <1>15, <1>16 DEF Filled, N
  <1>18. Cleared(f, p + 1, {f[SectionOf(f, p)].value}, Counted(f, p) + 1, h)
    <2>1. SectionOf(f, p + 1) # 0
      BY <1>4
    <2> QED BY <1>1, <1>4, <1>17, <2>1 DEF Cleared
  <1> QED BY <1>18 DEF h

(* A file of one section at 0 puts its bytes at 0, 1, 2 and so on.                         *)
LEMMA MeaningOfBytes ==
    ASSUME NEW g \in Seq(Words), \A k \in 1 .. Len(g) : IsByte(g[k])
    PROVE  LET F == <<Section(0)>> \o g
           IN /\ DOMAIN Meaning(F) = 0 .. Len(g) - 1
              /\ \A a \in 0 .. Len(g) - 1 : Meaning(F)[a] = g[a + 1].value
  <1> DEFINE F == <<Section(0)>> \o g
             Placing(a) == {j \in Placed(F) : AddressOf(F, j) = a}
  <1>1. PICK l \in Nat : l = Len(g)
    BY LenProperties
  <1>2. Section(0) \in Words /\ IsSection(Section(0)) /\ Section(0).value = 0
    BY DEF Section, Words, IsSection
  <1> HIDE DEF Section
  <1>3. <<Section(0)>> \in Seq(Words) /\ Len(<<Section(0)>>) = 1 /\ <<Section(0)>>[1] = Section(0)
    BY <1>2
  <1>4. /\ F \in Seq(Words) /\ Len(F) = l + 1 /\ F[1] = Section(0)
        /\ \A j \in 2 .. l + 1 : F[j] = g[j - 1]
    <2>1. /\ F \in Seq(Words) /\ Len(F) = 1 + l
          /\ \A j \in 1 .. 1 + l : F[j] = IF j <= 1 THEN Section(0) ELSE g[j - 1]
      <3>1. /\ F \in Seq(Words) /\ Len(F) = Len(<<Section(0)>>) + Len(g)
            /\ \A j \in 1 .. Len(<<Section(0)>>) + Len(g) :
                 F[j] = IF j <= Len(<<Section(0)>>) THEN <<Section(0)>>[j] ELSE g[j - Len(<<Section(0)>>)]
        BY <1>3, ConcatProperties
      <3> HIDE DEF F
      <3>2. \A j \in 1 .. 1 + l : j <= 1 => j = 1
        OBVIOUS
      <3> QED BY <1>1, <1>3, <3>1, <3>2
    <2> HIDE DEF F
    <2> QED BY <2>1
  <1> HIDE DEF F
  <1>5. \A j \in 2 .. l + 1 : IsByte(F[j]) /\ ~IsSection(F[j])
    <2>1. SUFFICES ASSUME NEW j \in 2 .. l + 1 PROVE IsByte(F[j]) /\ ~IsSection(F[j])
      OBVIOUS
    <2>2. j - 1 \in 1 .. l
      OBVIOUS
    <2>3. IsByte(F[j])
      BY <1>1, <1>4, <2>2
    <2> QED BY <2>3 DEF IsByte, IsSection
  <1>6. \A j \in 1 .. l + 1 : SectionOf(F, j) = 1
    <2>1. SUFFICES ASSUME NEW j \in 1 .. l + 1 PROVE SectionOf(F, j) = 1
      OBVIOUS
    <2> j \in 0 .. Len(F) /\ 1 \in 1 .. j
      BY <1>4
    <2>2. PICK k \in 0 .. j : k = SectionOf(F, j)
      BY <1>4, SectionIs
    <2>3. k # 0 => IsSection(F[k])
      BY <1>4, <2>2, SectionIs
    <2>4. 1 <= k
      BY <1>2, <1>4, <2>2, SectionIs
    <2>5. ~ (k \in 2 .. l + 1)
      BY <1>5, <2>3, <2>4
    <2> QED BY <2>2, <2>4, <2>5
  <1>7. Placed(F) = 2 .. l + 1
    <2>1. ~IsByte(F[1])
      BY <1>2, <1>4 DEF IsByte, IsSection
    <2>2. F[1].value # Unreadable
      BY <1>2, <1>4 DEF Unreadable
    <2>3. DOMAIN F = 1 .. l + 1
      BY <1>4
    <2>4. \A j \in 1 .. l + 1 : j \in Placed(F) <=> j \in 2 .. l + 1
      <3>1. \A j \in 1 .. l + 1 : j # 1 <=> j \in 2 .. l + 1
        OBVIOUS
      <3> QED BY <1>5, <1>6, <2>1, <2>2, <2>3, <3>1 DEF Placed
    <2> QED BY <2>3, <2>4 DEF Placed
  <1>8. \A j \in 2 .. l + 1 : AddressOf(F, j) = j - 2
    <2>1. SUFFICES ASSUME NEW j \in 2 .. l + 1 PROVE AddressOf(F, j) = j - 2
      OBVIOUS
    <2> DEFINE C(lo) == {i \in lo .. j - 1 : IsByte(F[i])}
    <2>2. C(2) = 2 .. j - 1
      BY <1>5
    <2>3. Cardinality(2 .. j - 1) = j - 2
      BY FS_Interval
    <2>4. AddressOf(F, j) = F[1].value + Cardinality(C(2))
      <3>1. SectionOf(F, j) = 1
        BY <1>6
      <3>2. AddressOf(F, j) = F[SectionOf(F, j)].value + Cardinality(C(SectionOf(F, j) + 1))
        BY AddressIs
      <3> HIDE DEF C
      <3>3. C(1 + 1) = C(2)
        OBVIOUS
      <3> QED BY <3>1, <3>2, <3>3
    <2> HIDE DEF C
    <2> QED BY <1>2, <1>4, <2>2, <2>3, <2>4
  <1>9. \A a \in 0 .. l - 1 : Placing(a) = {a + 2}
    <2>1. SUFFICES ASSUME NEW a \in 0 .. l - 1 PROVE Placing(a) = {a + 2}
      OBVIOUS
    <2>2. PICK k \in 2 .. l + 1 : k = a + 2 /\ k - 2 = a
      OBVIOUS
    <2>3. AddressOf(F, k) = a
      BY <1>8, <2>2
    <2>4. \A j \in 2 .. l + 1 : AddressOf(F, j) = a => j = k
      BY <1>8, <2>2
    <2> QED BY <1>7, <2>2, <2>3, <2>4
  <1>10. \A a \in 0 .. l - 1 : Max(Placing(a)) = a + 2
    <2>1. SUFFICES ASSUME NEW a \in 0 .. l - 1 PROVE Max(Placing(a)) = a + 2
      OBVIOUS
    <2>2. {a + 2} \in SUBSET Int /\ a + 2 \in {a + 2} /\ \A y \in {a + 2} : a + 2 >= y
      OBVIOUS
    <2>3. Max({a + 2}) = a + 2
      BY <2>2, MaxIs
    <2> QED BY <1>9, <2>3
  <1>11. {AddressOf(F, j) : j \in Placed(F)} = 0 .. l - 1
    <2>1. \A a \in 0 .. l - 1 : a + 2 \in 2 .. l + 1 /\ (a + 2) - 2 = a
      OBVIOUS
    <2>2. \A a \in 0 .. l - 1 : AddressOf(F, a + 2) = a
      BY <1>8, <2>1
    <2>3. \A a \in 0 .. l - 1 : \E j \in Placed(F) : AddressOf(F, j) = a
      BY <1>7, <2>1, <2>2
    <2>4. \A j \in Placed(F) : AddressOf(F, j) \in 0 .. l - 1
      <3>1. \A j \in 2 .. l + 1 : j - 2 \in 0 .. l - 1
        OBVIOUS
      <3> QED BY <1>7, <1>8, <3>1
    <2> QED BY <2>3, <2>4
  <1>12. Meaning(F) = [a \in 0 .. l - 1 |-> F[Max(Placing(a))].value]
    BY <1>11 DEF Meaning
  <1> HIDE DEF Placing
  <1>13. \A a \in 0 .. l - 1 : F[a + 2] = g[a + 1]
    <2>1. \A a \in 0 .. l - 1 : a + 2 \in 2 .. l + 1 /\ (a + 2) - 1 = a + 1
      OBVIOUS
    <2> QED BY <1>4, <2>1
  <1>14. /\ DOMAIN Meaning(F) = 0 .. Len(g) - 1
         /\ \A a \in 0 .. Len(g) - 1 : Meaning(F)[a] = g[a + 1].value
    BY <1>1, <1>10, <1>12, <1>13
  <1> QED BY <1>14 DEF F

Ascending == place_zero /\ WellFormed(text) /\ Ordered(text)

ClearInv ==
    /\ fst \in {"idle", "clear", "parse", "flash", "done", "failed"} /\ next \in Nat
    /\ fst \in {"idle", "parse", "flash"} => filtered = <<>>
    /\ fst = "idle" => next = 1 /\ previous_address = {}
    /\ fst # "idle" => text \in Seq(Words)
    /\ (fst = "clear" /\ Ascending) =>
          Cleared(text, next - 1, previous_address, previous_data_length, filtered)
    /\ (fst = "done" /\ filtered # <<>> /\ Ascending) =>
          \E g : /\ filtered = <<Section(0)>> \o g
                 /\ IF text = <<>> THEN g = <<>> ELSE Filled(text, Len(text), g)

LEMMA ClearInvInit == FlashInit => ClearInv
  BY DEF FlashInit, ClearInv

LEMMA ClearInvStart ==
    ASSUME ClearInv, FlashStart
    PROVE  ClearInv'
  <1>1. /\ fst = "idle" /\ fst' \in {"clear", "parse"} /\ text' \in FlashTexts
        /\ UNCHANGED <<next, previous_address, filtered>>
        /\ next = 1 /\ previous_address = {} /\ filtered = <<>>
    BY DEF FlashStart, clearVars, ClearInv
  <1>2. text' \in Seq(Words)
    BY <1>1, FlashAssumption DEF Words
  <1>3. next' - 1 = 0 /\ 0 \in 0 .. Len(text')
    BY <1>1, <1>2, LenProperties
  <1>4. Cleared(text', next' - 1, previous_address', previous_data_length', filtered')
    BY <1>1, <1>3 DEF Cleared
  <1> QED BY <1>1, <1>2, <1>4 DEF ClearInv

LEMMA ClearInvSection ==
    ASSUME ClearInv, ClearSection
    PROVE  ClearInv'
  <1>1. /\ fst = "clear" /\ fst' = fst /\ Left /\ IsSection(Here)
        /\ filtered' = filtered \o Zeros(Max({0} \cup {g \in Gap : place_zero}))
        /\ previous_address' = {Here.value} /\ previous_data_length' = 0
        /\ next' = next + 1 /\ UNCHANGED <<text, place_zero>>
    BY DEF ClearSection
  <1>2. next \in Nat /\ text \in Seq(Words)
    BY <1>1 DEF ClearInv
  <1>3. SUFFICES ASSUME Ascending
                 PROVE  Cleared(text, next, previous_address', 0, filtered')
    <2>1. next' \in Nat /\ next' - 1 = next
      BY <1>1, <1>2
    <2> QED BY <1>1, <1>2, <1>3, <2>1 DEF ClearInv, Ascending
  <1>4. Cleared(text, next - 1, previous_address, previous_data_length, filtered)
    BY <1>1, <1>3 DEF ClearInv
  <1>5. PICK p \in Nat : p = next - 1 /\ next = p + 1 /\ p + 1 <= Len(text)
    <2>1. next - 1 \in 0 .. Len(text)
      BY <1>4 DEF Cleared
    <2> QED BY <1>1, <1>2, <2>1 DEF Left
  <1>6. Len(text) \in Nat /\ WellFormed(text) /\ Ordered(text) /\ place_zero
    BY <1>2, <1>3, LenProperties DEF Ascending
  <1>7. CASE p = 0
    <2>1. previous_address = {} /\ filtered = <<>> /\ Here = text[1]
      BY <1>4, <1>5, <1>7 DEF Cleared, Here
    <2>2. Gap = {}
      BY <2>1 DEF Gap
    <2>3. {0} \cup {g \in Gap : place_zero} = {0}
      BY <2>2
    <2>4. Max({0}) = 0
      <3>1. {0} \in SUBSET Int /\ 0 \in {0} /\ \A y \in {0} : 0 >= y
        OBVIOUS
      <3> QED BY <3>1, MaxIs
    <2>5. filtered' = <<>> \o Zeros(0)
      BY <1>1, <2>1, <2>3, <2>4
    <2>6. Zeros(0) = <<>> /\ <<>> \o <<>> = <<>>
      <3>1. Zeros(0) \in Seq(Words) /\ Len(Zeros(0)) = 0
        BY ZerosAre
      <3>2. Zeros(0) = <<>>
        BY <3>1, EmptySeq
      <3> QED BY <3>1, <3>2, ConcatEmptySeq
    <2>7. Cleared(text, 1, {text[1].value}, 0, <<>>)
      BY <1>2, <1>5, <1>6, <1>7, ClearedFirst
    <2> QED BY <1>1, <1>5, <1>7, <2>1, <2>5, <2>6, <2>7
  <1>8. CASE p # 0
    <2>1. p \in 1 .. Len(text) - 1
      BY <1>5, <1>6, <1>8
    <2>2. /\ SectionOf(text, p) # 0 /\ previous_address = {text[SectionOf(text, p)].value}
          /\ previous_data_length = Counted(text, p) /\ Filled(text, p, filtered)
      BY <1>4, <1>5, <1>8 DEF Cleared
    <2> DEFINE n == text[p + 1].value - Top(text, p)
    <2>3. n \in Nat /\ Cleared(text, p + 1, {text[p + 1].value}, 0, filtered \o Zeros(n))
      BY <1>1, <1>2, <1>5, <1>6, <2>1, <2>2, ClearedSection DEF Here
    <2>4. Gap = {n}
      BY <1>5, <2>2 DEF Gap, Here, Top
    <2> HIDE DEF n
    <2>5. {0} \cup {g \in Gap : place_zero} = {0, n}
      BY <1>6, <2>4
    <2>6. Max({0, n}) = n
      <3>1. {0, n} \in SUBSET Int /\ n \in {0, n} /\ \A y \in {0, n} : n >= y
        BY <2>3
      <3> QED BY <3>1, MaxIs
    <2>7. filtered' = filtered \o Zeros(n)
      BY <1>1, <2>5, <2>6
    <2> QED BY <1>1, <1>5, <2>3, <2>7 DEF Here
  <1> QED BY <1>7, <1>8

LEMMA ClearInvData ==
    ASSUME ClearInv, ClearData
    PROVE  ClearInv'
  <1>1. /\ fst = "clear" /\ fst' = fst /\ Left /\ ~IsSection(Here)
        /\ filtered' = Append(filtered, Here)
        /\ previous_data_length' = previous_data_length + 1
        /\ next' = next + 1 /\ UNCHANGED <<text, place_zero, previous_address>>
    BY DEF ClearData
  <1>2. next \in Nat /\ text \in Seq(Words)
    BY <1>1 DEF ClearInv
  <1>3. SUFFICES ASSUME Ascending
                 PROVE  Cleared(text, next, previous_address, previous_data_length', filtered')
    <2>1. next' \in Nat /\ next' - 1 = next
      BY <1>1, <1>2
    <2> QED BY <1>1, <1>2, <1>3, <2>1 DEF ClearInv, Ascending
  <1>4. Cleared(text, next - 1, previous_address, previous_data_length, filtered)
    BY <1>1, <1>3 DEF ClearInv
  <1>5. PICK p \in Nat : p = next - 1 /\ next = p + 1 /\ p + 1 <= Len(text)
    <2>1. next - 1 \in 0 .. Len(text)
      BY <1>4 DEF Cleared
    <2> QED BY <1>1, <1>2, <2>1 DEF Left
  <1>6. Len(text) \in Nat /\ WellFormed(text)
    BY <1>2, <1>3, LenProperties DEF Ascending
  <1>7. p # 0
    <2>1. p = 0 => Here = text[1] /\ 1 <= Len(text)
      BY <1>5 DEF Here
    <2> QED BY <1>1, <1>2, <1>6, <2>1, FirstSection
  <1>8. p \in 1 .. Len(text) - 1
    BY <1>5, <1>6, <1>7
  <1>9. /\ SectionOf(text, p) # 0 /\ previous_address = {text[SectionOf(text, p)].value}
        /\ previous_data_length = Counted(text, p) /\ Filled(text, p, filtered)
    BY <1>4, <1>5, <1>7 DEF Cleared
  <1>10. Cleared(text, p + 1, {text[SectionOf(text, p)].value}, Counted(text, p) + 1,
                 Append(filtered, text[p + 1]))
    BY <1>1, <1>2, <1>5, <1>6, <1>8, <1>9, ClearedByte DEF Here
  <1> QED BY <1>1, <1>5, <1>9, <1>10 DEF Here

LEMMA ClearInvDone ==
    ASSUME ClearInv, ClearDone
    PROVE  ClearInv'
  <1>1. /\ fst = "clear" /\ fst' = "done" /\ ~Left
        /\ filtered' = <<Section(0)>> \o filtered
        /\ UNCHANGED <<text, next, place_zero>>
    BY DEF ClearDone
  <1>2. next \in Nat /\ text \in Seq(Words)
    BY <1>1 DEF ClearInv
  <1>3. SUFFICES ASSUME Ascending
                 PROVE  IF text = <<>> THEN filtered = <<>> ELSE Filled(text, Len(text), filtered)
    BY <1>1, <1>2, <1>3 DEF ClearInv, Ascending
  <1>4. Cleared(text, next - 1, previous_address, previous_data_length, filtered)
    BY <1>1, <1>3 DEF ClearInv
  <1>5. next - 1 = Len(text) /\ Len(text) \in Nat
    <2>1. next - 1 \in 0 .. Len(text) /\ Len(text) \in Nat
      BY <1>2, <1>4, LenProperties DEF Cleared
    <2>2. PICK l \in Nat : l = Len(text)
      BY <2>1
    <2>3. ~ (next <= l)
      BY <1>1, <2>2 DEF Left
    <2> QED BY <1>2, <2>1, <2>2, <2>3
  <1>6. text = <<>> <=> Len(text) = 0
    BY <1>2, EmptySeq
  <1> QED BY <1>4, <1>5, <1>6 DEF Cleared

LEMMA ClearInvStep == ClearInv /\ [FlashNext]_flashToolVars => ClearInv'
  <1> SUFFICES ASSUME ClearInv, [FlashNext]_flashToolVars
               PROVE  ClearInv'
    OBVIOUS
  <1>1. CASE \/ UNCHANGED flashToolVars
             \/ ClearFails \/ ParseSection \/ ParseData \/ ParseDone
             \/ WriteWord \/ FillGap \/ FlashDone
    <2>1. /\ UNCHANGED <<text, place_zero, previous_address, previous_data_length, filtered>>
          /\ \/ fst' = fst /\ next' = next
             \/ /\ fst \in {"clear", "parse", "flash"} /\ fst' \in {"parse", "flash", "done", "failed"}
                /\ fst = "clear" => fst' = "failed"
                /\ next' \in {next, next + 1}
      BY <1>1 DEF flashToolVars, clearVars, ClearFails, ParseSection, ParseData, ParseDone,
                  WriteWord, FillGap, FlashDone
    <2>2. next' \in Nat
      BY <2>1 DEF ClearInv
    <2> QED BY <2>1, <2>2 DEF ClearInv, Ascending
  <1> QED BY <1>1, ClearInvStart, ClearInvSection, ClearInvData, ClearInvDone DEF FlashNext

LEMMA ClearInvHolds == ClearInv => ClearedFileKeepsPlaces
  <1> SUFFICES ASSUME ClearInv, fst = "done", Len(filtered) > 1, Ascending
               PROVE  LET origin == text[1].value
                          image == Meaning(filtered)
                      IN /\ \A a \in DOMAIN Meaning(text) :
                              a - origin \in DOMAIN image /\ image[a - origin] = Meaning(text)[a]
                         /\ \A a \in DOMAIN image :
                              a + origin \notin DOMAIN Meaning(text) => image[a] = 0
    BY DEF ClearedFileKeepsPlaces, Ascending
  <1>1. text \in Seq(Words) /\ filtered # <<>>
    BY DEF ClearInv
  <1>2. PICK g : /\ filtered = <<Section(0)>> \o g
                 /\ IF text = <<>> THEN g = <<>> ELSE Filled(text, Len(text), g)
    BY <1>1 DEF ClearInv
  <1>3. Section(0) \in Words
    BY DEF Section, Words
  <1> HIDE DEF Section
  <1>4. text # <<>>
    <2>1. SUFFICES ASSUME text = <<>> PROVE FALSE
      OBVIOUS
    <2>2. filtered = <<Section(0)>> /\ Len(<<Section(0)>>) = 1
      BY <1>2, <1>3, <2>1, ConcatEmptySeq
    <2> QED BY <2>2
  <1>5. Filled(text, Len(text), g)
    BY <1>2, <1>4
  <1>6. Len(text) \in 1 .. Len(text) /\ Len(text) \in Nat /\ WellFormed(text)
    BY <1>1, <1>4, EmptySeq DEF Ascending
  <1>7. PICK origin \in Int : origin = text[1].value
    <2>1. 1 \in 1 .. Len(text)
      BY <1>6
    <2> QED BY <1>1, <2>1, KindsOfWords
  <1> DEFINE M == Meaning(text)
             image == Meaning(filtered)
  <1>8. M = MeaningTo(text, Len(text))
    BY <1>1, MeaningStart
  <1>9. SectionOf(text, Len(text)) # 0
    <2>1. 1 \in 1 .. Len(text) /\ 1 <= Len(text) /\ Len(text) \in 0 .. Len(text)
      BY <1>6
    <2>2. IsSection(text[1])
      BY <1>1, <1>6, <2>1, FirstSection
    <2> QED BY <1>1, <2>1, <2>2, SectionIs
  <1>10. PICK top \in Int : top = Top(text, Len(text))
    BY <1>1, <1>6, <1>9, TopIs
  <1>11. /\ g \in Seq(Words) /\ Len(g) = top - origin
         /\ \A k \in 1 .. Len(g) : IsByte(g[k])
         /\ \A k \in 1 .. Len(g) : g[k].value = IF origin + (k - 1) \in DOMAIN M
                                                  THEN M[origin + (k - 1)] ELSE 0
         /\ DOMAIN M \subseteq origin .. top - 1
    BY <1>5, <1>7, <1>8, <1>10 DEF Filled
  <1>12. /\ DOMAIN image = 0 .. Len(g) - 1
         /\ \A a \in 0 .. Len(g) - 1 : image[a] = g[a + 1].value
    BY <1>2, <1>11, MeaningOfBytes
  <1>13. PICK l \in Nat : l = Len(g)
    BY <1>11, LenProperties
  <1> HIDE DEF M, image
  <1>14. \A b \in 0 .. l - 1 : image[b] = IF origin + b \in DOMAIN M THEN M[origin + b] ELSE 0
    <2>1. SUFFICES ASSUME NEW b \in 0 .. l - 1
                   PROVE  image[b] = IF origin + b \in DOMAIN M THEN M[origin + b] ELSE 0
      OBVIOUS
    <2>2. PICK k \in 1 .. l : k = b + 1 /\ origin + (k - 1) = origin + b
      OBVIOUS
    <2> QED BY <1>11, <1>12, <1>13, <2>2
  <1>15. ASSUME NEW a \in DOMAIN M
         PROVE  a - origin \in DOMAIN image /\ image[a - origin] = M[a]
    <2>1. a \in Int /\ a - origin \in 0 .. l - 1 /\ origin + (a - origin) = a
      BY <1>11, <1>13, <1>15
    <2> QED BY <1>12, <1>13, <1>14, <1>15, <2>1
  <1>16. ASSUME NEW a \in DOMAIN image, a + origin \notin DOMAIN M
         PROVE  image[a] = 0
    <2>1. a \in 0 .. l - 1 /\ origin + a = a + origin
      BY <1>12, <1>13
    <2> QED BY <1>14, <1>16, <2>1
  <1> QED BY <1>7, <1>15, <1>16 DEF M, image

(* tools/clear_adresses_for_qspi_boot.py, asked to fill the gaps, leaves every byte at its distance    *)
(* from the first section, with zeros in the gaps and nothing else, whatever the file, as long as  *)
(* its sections ascend: the length of the section before is counted right across empty        *)
(* sections, sections that touch and sections of any length.                             *)
THEOREM PlacesAreKept == FlashSpec => []ClearedFileKeepsPlaces
  BY ClearInvInit, ClearInvStep, ClearInvHolds, PTL DEF FlashSpec

-----------------------------------------------------------------------------
(* FlashTools: the arrays and the flash of the board                             *)

LEMMA Multiples ==
    ASSUME NEW a \in Int, NEW b \in Int, NEW d \in Nat \ {0}, a % d = 0, b % d = 0, a <= b
    PROVE  \E q \in Nat : b - a = q * d /\ (b - a) \div d = q /\ (b - a + d - 1) \div d = q
  <1>1. PICK x \in Int : a = x * d
    <2>1. a = d * (a \div d) + (a % d) /\ a \div d \in Int
      BY SMT
    <2>2. PICK x \in Int : x = a \div d
      BY <2>1
    <2>3. d * x = x * d /\ d * x \in Int
      BY <2>2, SMT
    <2>4. a = d * x + 0
      BY <2>1, <2>2
    <2>5. PICK e \in Int : e = d * x
      BY <2>3
    <2>6. a = e
      BY <2>4, <2>5
    <2> QED BY <2>3, <2>5, <2>6
  <1>2. PICK y \in Int : b = y * d
    <2>1. b = d * (b \div d) + (b % d) /\ b \div d \in Int
      BY SMT
    <2>2. PICK y \in Int : y = b \div d
      BY <2>1
    <2>3. d * y = y * d /\ d * y \in Int
      BY <2>2, SMT
    <2>4. b = d * y + 0
      BY <2>1, <2>2
    <2>5. PICK e \in Int : e = d * y
      BY <2>3
    <2>6. b = e
      BY <2>4, <2>5
    <2> QED BY <2>3, <2>5, <2>6
  <1>3. x <= y
    <2>1. SUFFICES ASSUME y + 1 <= x PROVE FALSE
      OBVIOUS
    <2>2. (y + 1) * d <= x * d
      BY <2>1, ProductGrows
    <2>3. (y + 1) * d = y * d + d
      BY SMT
    <2> QED BY <1>1, <1>2, <2>2, <2>3
  <1>4. PICK q \in Nat : y = x + q
    <2>1. y - x \in Nat /\ y = x + (y - x)
      BY <1>3
    <2> QED BY <2>1
  <1>5. b - a = q * d /\ q * d = d * q /\ d * q \in Nat
    <2>1. (x + q) * d = x * d + q * d
      BY SMT
    <2>2. q * d = d * q /\ d * q \in Nat /\ x * d \in Int
      BY SMT
    <2> QED BY <1>1, <1>2, <1>4, <2>1, <2>2
  <1>6. PICK c \in Nat : c = b - a
    BY <1>5
  <1>7. c = d * q + 0 /\ c + d - 1 = d * q + (d - 1) /\ c + d - 1 \in Nat
        /\ 0 \in 0 .. d - 1 /\ d - 1 \in 0 .. d - 1
    BY <1>5, <1>6
  <1>8. c \div d = q
    BY <1>7, DivUnique
  <1>9. (c + d - 1) \div d = q
    <2>1. PICK e \in Nat : e = c + d - 1
      BY <1>7
    <2>2. PICK r \in 0 .. d - 1 : r = d - 1
      BY <1>7
    <2>3. e \div d = q
      BY <1>7, <2>1, <2>2, DivUnique
    <2> QED BY <2>1, <2>3
  <1> QED BY <1>5, <1>6, <1>8, <1>9

(* Sections as vmem2carr.py keeps them, and where one ends.                              *)
Blocks == [address : Int, bytes : Seq(Int)]
BlockEnd(B, n) == B[n].address + Len(B[n].bytes)

(* The sections ascend, and their bytes are those of the image M and no others.                *)
Holding(B, M) ==
    /\ B \in Seq(Blocks)
    /\ \A m, n \in 1 .. Len(B) : m < n => BlockEnd(B, m) <= B[n].address
    /\ \A n \in 1 .. Len(B) : \A k \in 1 .. Len(B[n].bytes) :
          LET a == B[n].address + (k - 1)
          IN a \in DOMAIN M /\ M[a] = B[n].bytes[k]
    /\ \A a \in DOMAIN M : \E n \in 1 .. Len(B) : a \in B[n].address .. BlockEnd(B, n) - 1

Aligned(f) ==
    /\ Ordered(f)
    /\ \A i \in Sections(f) : f[i].value % Word = 0 /\ End(f, i) % Word = 0
    /\ \A i, j \in Sections(f) : f[i].value = f[j].value => i = j

(* The state of vmem2carr.py after p words.                                        *)
Parsed(f, p, B, b) ==
    /\ p \in 0 .. Len(f) /\ Holding(B, MeaningTo(f, p)) /\ b = Len(B)
    /\ p = 0 => B = <<>>
    /\ p # 0 => /\ SectionOf(f, p) # 0 /\ b # 0
                /\ B[b].address = f[SectionOf(f, p)].value
                /\ Len(B[b].bytes) = Counted(f, p)
    /\ \A n \in 1 .. b : \E i \in Sections(f) : i <= p /\ B[n].address = f[i].value
    /\ \A n \in 1 .. b - 1 : BlockEnd(B, n) % Word = 0

LEMMA BlockTypes ==
    ASSUME NEW B \in Seq(Blocks), NEW n \in 1 .. Len(B)
    PROVE  /\ B[n].address \in Int /\ B[n].bytes \in Seq(Int) /\ Len(B[n].bytes) \in Nat
           /\ BlockEnd(B, n) \in Int /\ B[n].address <= BlockEnd(B, n)
  <1>1. B[n] \in Blocks
    BY ElementOfSeq
  <1>2. B[n].address \in Int /\ B[n].bytes \in Seq(Int)
    BY <1>1 DEF Blocks
  <1>3. PICK l \in Nat : l = Len(B[n].bytes)
    BY <1>2, LenProperties
  <1> QED BY <1>2, <1>3 DEF BlockEnd

LEMMA ParsedStart ==
    ASSUME NEW f \in Seq(Words)
    PROVE  Parsed(f, 0, <<>>, 0)
  <1>1. <<>> \in Seq(Blocks) /\ Len(<<>>) = 0
    BY EmptySeq
  <1>2. MeaningTo(f, 0) = NoImage /\ DOMAIN NoImage = {}
    BY MeaningStart DEF NoImage
  <1>3. Holding(<<>>, MeaningTo(f, 0))
    BY <1>1, <1>2 DEF Holding
  <1>4. 0 \in 0 .. Len(f)
    BY LenProperties
  <1> QED BY <1>1, <1>3, <1>4 DEF Parsed

(* A section that is opened is none of those before.                                  *)
LEMMA SectionIsNew ==
    ASSUME NEW f \in Seq(Words), NEW p \in 0 .. Len(f) - 1, NEW B, NEW b, Parsed(f, p, B, b),
           Aligned(f), IsSection(f[p + 1])
    PROVE  \A n \in 1 .. Len(B) : B[n].address # f[p + 1].value
  <1>1. SUFFICES ASSUME NEW n \in 1 .. Len(B), B[n].address = f[p + 1].value PROVE FALSE
    OBVIOUS
  <1>2. PICK i \in Sections(f) : i <= p /\ B[n].address = f[i].value
    BY <1>1 DEF Parsed
  <1>3. p + 1 \in Sections(f) /\ i \in 1 .. Len(f)
    BY DEF Sections
  <1>4. i = p + 1
    BY <1>1, <1>2, <1>3 DEF Aligned
  <1> QED BY <1>2, <1>4

LEMMA ParsedSection ==
    ASSUME NEW f \in Seq(Words), NEW p \in 0 .. Len(f) - 1, NEW B, NEW b, Parsed(f, p, B, b),
           Aligned(f), IsSection(f[p + 1])
    PROVE  Parsed(f, p + 1, Append(B, [address |-> f[p + 1].value, bytes |-> <<>>]), Len(B) + 1)
  <1> DEFINE v == f[p + 1].value
             new == [address |-> v, bytes |-> <<>>]
             C == Append(B, new)
             M == MeaningTo(f, p)
  <1>1. /\ p + 1 \in 1 .. Len(f) /\ p + 1 # 0 /\ p \in 0 .. Len(f) /\ p + 1 \in 0 .. Len(f)
        /\ p + 1 \in Sections(f)
    BY DEF Sections
  <1>2. /\ SectionOf(f, p + 1) = p + 1 /\ Counted(f, p + 1) = 0 /\ v \in Int
    BY <1>1, SectionIs, SectionStep, CountStep, KindsOfWords
  <1>3. MeaningTo(f, p + 1) = M
    <2>1. p + 1 \notin Placed(f)
      BY <1>1, KindsOfWords DEF Placed
    <2> QED BY <2>1, MeaningStep
  <1>4. /\ Holding(B, M) /\ B \in Seq(Blocks) /\ b = Len(B) /\ Len(B) \in Nat
    <2>1. Holding(B, M) /\ B \in Seq(Blocks) /\ b = Len(B)
      BY DEF Parsed, Holding
    <2> QED BY <2>1, LenProperties
  <1>5. new \in Blocks /\ new.address = v /\ new.bytes = <<>> /\ Len(new.bytes) = 0
    <2>1. <<>> \in Seq(Int) /\ Len(<<>>) = 0
      BY EmptySeq
    <2> QED BY <1>2, <2>1 DEF Blocks
  <1> HIDE DEF new, M, v
  <1>6. PICK l \in Nat : l = Len(B)
    BY <1>4
  <1>7. /\ C \in Seq(Blocks) /\ Len(C) = l + 1
        /\ \A n \in 1 .. l : C[n] = B[n]
        /\ C[l + 1] = new
    BY <1>4, <1>5, <1>6, AppendProperties
  <1> HIDE DEF C
  <1>8. /\ \A n \in 1 .. l : BlockEnd(C, n) = BlockEnd(B, n)
        /\ BlockEnd(C, l + 1) = v
    BY <1>2, <1>5, <1>7 DEF BlockEnd
  <1>9. \A n \in 1 .. l : /\ BlockEnd(B, n) <= v /\ BlockEnd(B, n) \in Int
                          /\ B[n].address \in Int /\ BlockEnd(B, n) % Word = 0
    <2>1. SUFFICES ASSUME NEW n \in 1 .. l
                   PROVE  /\ BlockEnd(B, n) <= v /\ BlockEnd(B, n) \in Int
                          /\ B[n].address \in Int /\ BlockEnd(B, n) % Word = 0
      OBVIOUS
    <2>2. p # 0
      <3>1. p = 0 => B = <<>>
        BY DEF Parsed
      <3>2. B # <<>>
        BY <1>6, EmptySeq
      <3> QED BY <3>1, <3>2
    <2>3. /\ SectionOf(f, p) # 0 /\ B[l].address = f[SectionOf(f, p)].value
          /\ Len(B[l].bytes) = Counted(f, p)
      BY <1>4, <1>6, <2>2 DEF Parsed
    <2>4. /\ End(f, SectionOf(f, p)) = Top(f, p) /\ SectionOf(f, p) \in Sections(f)
          /\ SectionOf(f, p) < p + 1
      <3>1. p \in 1 .. Len(f)
        BY <1>1, <2>2
      <3>2. SectionOf(f, p) \in 1 .. p
        BY <2>3, <3>1, TopIs
      <3> QED BY <2>3, <3>1, <3>2, EndIs
    <2>5. BlockEnd(B, l) = Top(f, p)
      BY <2>3 DEF BlockEnd, Top
    <2>6. BlockEnd(B, l) <= v /\ BlockEnd(B, l) % Word = 0
      BY <1>1, <2>4, <2>5 DEF Aligned, Ordered, v
    <2>7. /\ B[n].address \in Int /\ BlockEnd(B, n) \in Int
          /\ B[l].address \in Int /\ BlockEnd(B, l) \in Int
          /\ B[l].address <= BlockEnd(B, l)
      BY <1>4, <1>6, BlockTypes
    <2>8. CASE n = l
      BY <2>6, <2>7, <2>8
    <2>9. CASE n # l
      <3>1. n < l /\ n \in 1 .. l - 1 /\ l \in 1 .. l
        BY <2>9
      <3>2. BlockEnd(B, n) <= B[l].address
        BY <1>4, <1>6, <3>1 DEF Holding
      <3>3. BlockEnd(B, n) % Word = 0
        BY <1>4, <1>6, <3>1 DEF Parsed
      <3> QED BY <1>2, <2>6, <2>7, <3>2, <3>3 DEF v
    <2> QED BY <2>8, <2>9
  <1>10. \A m, n \in 1 .. l + 1 : m < n => BlockEnd(C, m) <= C[n].address
    <2>1. SUFFICES ASSUME NEW m \in 1 .. l + 1, NEW n \in 1 .. l + 1, m < n
                   PROVE  BlockEnd(C, m) <= C[n].address
      OBVIOUS
    <2>2. m \in 1 .. l /\ BlockEnd(C, m) = BlockEnd(B, m)
      BY <1>8, <2>1
    <2>3. CASE n = l + 1
      BY <1>5, <1>7, <1>9, <2>2, <2>3
    <2>4. CASE n # l + 1
      <3>1. n \in 1 .. l
        BY <2>4
      <3> QED BY <1>4, <1>6, <1>7, <2>1, <2>2, <3>1 DEF Holding
    <2> QED BY <2>3, <2>4
  <1>11. \A n \in 1 .. l + 1 : \A k \in 1 .. Len(C[n].bytes) :
            LET a == C[n].address + (k - 1)
            IN a \in DOMAIN M /\ M[a] = C[n].bytes[k]
    <2>1. SUFFICES ASSUME NEW n \in 1 .. l + 1, NEW k \in 1 .. Len(C[n].bytes)
                   PROVE  LET a == C[n].address + (k - 1)
                          IN a \in DOMAIN M /\ M[a] = C[n].bytes[k]
      OBVIOUS
    <2>2. n # l + 1
      BY <1>5, <1>7
    <2>3. n \in 1 .. l /\ C[n] = B[n]
      BY <1>7, <2>2
    <2> QED BY <1>4, <1>6, <2>3 DEF Holding
  <1>12. \A a \in DOMAIN M : \E n \in 1 .. l + 1 : a \in C[n].address .. BlockEnd(C, n) - 1
    <2>1. SUFFICES ASSUME NEW a \in DOMAIN M
                   PROVE  \E n \in 1 .. l + 1 : a \in C[n].address .. BlockEnd(C, n) - 1
      OBVIOUS
    <2>2. PICK n \in 1 .. l : a \in B[n].address .. BlockEnd(B, n) - 1
      BY <1>4, <1>6 DEF Holding
    <2>3. n \in 1 .. l + 1
      OBVIOUS
    <2> QED BY <1>7, <1>8, <2>2, <2>3
  <1>13. Holding(C, MeaningTo(f, p + 1))
    BY <1>3, <1>7, <1>10, <1>11, <1>12 DEF Holding
  <1>14. \A n \in 1 .. l + 1 : \E i \in Sections(f) : i <= p + 1 /\ C[n].address = f[i].value
    <2>1. SUFFICES ASSUME NEW n \in 1 .. l + 1
                   PROVE  \E i \in Sections(f) : i <= p + 1 /\ C[n].address = f[i].value
      OBVIOUS
    <2>2. CASE n = l + 1
      BY <1>1, <1>5, <1>7, <2>2 DEF v
    <2>3. CASE n # l + 1
      <3>1. n \in 1 .. l
        BY <2>3
      <3>2. PICK i \in Sections(f) : i <= p /\ B[n].address = f[i].value
        BY <1>4, <1>6, <3>1 DEF Parsed
      <3>3. i \in Nat /\ i <= p + 1
        BY <3>2 DEF Sections
      <3> QED BY <1>7, <3>1, <3>2, <3>3
    <2> QED BY <2>2, <2>3
  <1>15. \A n \in 1 .. (l + 1) - 1 : BlockEnd(C, n) % Word = 0
    BY <1>8, <1>9
  <1>16. Parsed(f, p + 1, C, l + 1)
    <2>1. C[l + 1].address = f[SectionOf(f, p + 1)].value /\ Len(C[l + 1].bytes) = Counted(f, p + 1)
          /\ SectionOf(f, p + 1) # 0 /\ l + 1 # 0 /\ l + 1 = Len(C)
      BY <1>1, <1>2, <1>5, <1>7 DEF v
    <2> QED BY <1>1, <1>13, <1>14, <1>15, <2>1 DEF Parsed
  <1> QED BY <1>6, <1>16 DEF C, new, v

LEMMA ParsedByte ==
    ASSUME NEW f \in Seq(Words), WellFormed(f), NEW p \in 1 .. Len(f) - 1, NEW B, NEW b,
           Parsed(f, p, B, b), ~IsSection(f[p + 1])
    PROVE  Parsed(f, p + 1, [B EXCEPT ![b].bytes = Append(@, f[p + 1].value)], b)
  <1> DEFINE v == f[p + 1].value
             M == MeaningTo(f, p)
             N == MeaningTo(f, p + 1)
  <1>1. /\ p \in 0 .. Len(f) - 1 /\ p \in 1 .. Len(f) /\ p + 1 \in 1 .. Len(f)
        /\ p + 1 # 0 /\ p # 0 /\ p + 1 \in 0 .. Len(f) /\ DOMAIN f = 1 .. Len(f)
    OBVIOUS
  <1>2. IsByte(f[p + 1]) /\ v \in Int
    BY <1>1, KindsOfWords DEF WellFormed
  <1>3. /\ Holding(B, M) /\ B \in Seq(Blocks) /\ b = Len(B) /\ b # 0 /\ SectionOf(f, p) # 0
        /\ B[b].address = f[SectionOf(f, p)].value /\ Len(B[b].bytes) = Counted(f, p)
        /\ \A n \in 1 .. b : \E i \in Sections(f) : i <= p /\ B[n].address = f[i].value
        /\ \A n \in 1 .. b - 1 : BlockEnd(B, n) % Word = 0
    BY <1>1 DEF Parsed, Holding
  <1>4. SectionOf(f, p) \in 0 .. p
    BY <1>1, <1>3, TopIs
  <1>5. /\ SectionOf(f, p + 1) = SectionOf(f, p) /\ Counted(f, p + 1) = Counted(f, p) + 1
        /\ AddressOf(f, p + 1) = Top(f, p)
    BY <1>1, <1>2, <1>4, SectionStep, CountStep DEF Top
  <1>6. PICK top \in Int : top = Top(f, p)
    BY <1>1, <1>3, TopIs
  <1>7. PICK l \in Nat \ {0} : l = b /\ l = Len(B) /\ l \in 1 .. l
    <2>1. Len(B) \in Nat \ {0}
      BY <1>3, LenProperties
    <2> QED BY <1>3, <2>1
  <1>8. BlockEnd(B, l) = top
    BY <1>3, <1>6, <1>7 DEF BlockEnd, Top
  <1>9. DOMAIN N = DOMAIN M \cup {top} /\ N[top] = v /\ \A a \in DOMAIN M : a # top => N[a] = M[a]
    <2>1. f[SectionOf(f, p)].value # Unreadable
      BY <1>1, <1>3, TopIs DEF WellFormed
    <2>2. p + 1 \in Placed(f)
      BY <1>1, <1>2, <1>3, <1>5, <2>1 DEF Placed
    <2>3. N = Over(M, One(top, v))
      BY <1>1, <1>5, <1>6, <2>2, MeaningStep DEF One
    <2> QED BY <2>3 DEF Over, One
  <1> HIDE DEF v, M, N
  <1>10. /\ B[l] \in Blocks /\ B[l].address \in Int /\ B[l].bytes \in Seq(Int)
         /\ B[l].address <= top
    <2>1. B[l] \in Blocks
      BY <1>3, <1>7, ElementOfSeq
    <2> QED BY <1>3, <1>7, <1>8, <2>1, BlockTypes
  <1>11. PICK u \in Seq(Int) : u = B[l].bytes
    BY <1>10
  <1>12. PICK c \in Nat : c = Len(u)
    BY <1>11, LenProperties
  <1>13. /\ Append(u, v) \in Seq(Int) /\ Len(Append(u, v)) = c + 1
         /\ \A k \in 1 .. c : Append(u, v)[k] = u[k]
         /\ Append(u, v)[c + 1] = v
    BY <1>2, <1>11, <1>12, AppendProperties
  <1>14. PICK t \in Seq(Int) : t = Append(u, v)
    BY <1>13
  <1> DEFINE new == [address |-> B[l].address, bytes |-> t]
             C == [B EXCEPT ![l] = new]
  <1>15. [B EXCEPT ![b].bytes = Append(@, f[p + 1].value)] = C
    <2>1. PICK x \in Blocks : x = B[l]
      BY <1>10
    <2>2. [x EXCEPT !.bytes = t] = [address |-> x.address, bytes |-> t]
      <3>1. PICK a, w : x = [address |-> a, bytes |-> w]
        <4>1. x = [address |-> x.address, bytes |-> x.bytes]
          BY DEF Blocks
        <4> QED BY <4>1
      <3> QED BY <3>1
    <2>3. [B EXCEPT ![b].bytes = Append(@, f[p + 1].value)]
            = [B EXCEPT ![l] = [B[l] EXCEPT !.bytes = t]]
      BY <1>7, <1>11, <1>14 DEF v
    <2> QED BY <2>1, <2>2, <2>3
  <1>16. new \in Blocks /\ new.address = B[l].address /\ new.bytes = t
    BY <1>10, <1>14 DEF Blocks
  <1> HIDE DEF new
  <1>17. /\ C \in Seq(Blocks) /\ Len(C) = l /\ C[l] = new
         /\ \A n \in 1 .. l : n # l => C[n] = B[n]
    <2>1. DOMAIN B = 1 .. l
      BY <1>3, <1>7
    <2> QED BY <1>3, <1>7, <1>16, <2>1, ExceptSeq
  <1> HIDE DEF C
  <1>18. /\ \A n \in 1 .. l : C[n].address = B[n].address
         /\ \A n \in 1 .. l : n # l => BlockEnd(C, n) = BlockEnd(B, n)
         /\ BlockEnd(C, l) = top + 1
    <2>1. top = B[l].address + c
      BY <1>8, <1>11, <1>12 DEF BlockEnd
    <2>2. BlockEnd(C, l) = B[l].address + (c + 1)
      BY <1>13, <1>14, <1>16, <1>17 DEF BlockEnd
    <2>3. BlockEnd(C, l) = top + 1
      <3>1. PICK a \in Int : a = B[l].address
        BY <1>10
      <3>2. top = a + c /\ BlockEnd(C, l) = a + (c + 1)
        BY <2>1, <2>2, <3>1
      <3> QED BY <3>2
    <2>4. \A n \in 1 .. l : C[n].address = B[n].address
      BY <1>16, <1>17
    <2>5. \A n \in 1 .. l : n # l => BlockEnd(C, n) = BlockEnd(B, n)
      BY <1>17 DEF BlockEnd
    <2> QED BY <2>3, <2>4, <2>5
  <1>19. \A n \in 1 .. l : /\ B[n].address \in Int /\ BlockEnd(B, n) \in Int
                           /\ B[n].address <= BlockEnd(B, n) /\ BlockEnd(B, n) <= top
    <2>1. SUFFICES ASSUME NEW n \in 1 .. l
                   PROVE  /\ B[n].address \in Int /\ BlockEnd(B, n) \in Int
                          /\ B[n].address <= BlockEnd(B, n) /\ BlockEnd(B, n) <= top
      OBVIOUS
    <2>2. /\ B[n].address \in Int /\ BlockEnd(B, n) \in Int
          /\ B[n].address <= BlockEnd(B, n)
      BY <1>3, <1>7, BlockTypes
    <2>3. n # l => BlockEnd(B, n) <= B[l].address
      BY <1>3, <1>7 DEF Holding
    <2> QED BY <1>8, <1>10, <2>2, <2>3
  <1>20. \A m, n \in 1 .. l : m < n => BlockEnd(C, m) <= C[n].address
    <2>1. SUFFICES ASSUME NEW m \in 1 .. l, NEW n \in 1 .. l, m < n
                   PROVE  BlockEnd(C, m) <= C[n].address
      OBVIOUS
    <2>2. m # l
      BY <2>1
    <2> QED BY <1>3, <1>7, <1>18, <2>1, <2>2 DEF Holding
  <1>21. \A n \in 1 .. l : \A k \in 1 .. Len(C[n].bytes) :
            LET a == C[n].address + (k - 1)
            IN a \in DOMAIN N /\ N[a] = C[n].bytes[k]
    <2>1. SUFFICES ASSUME NEW n \in 1 .. l, NEW k \in 1 .. Len(C[n].bytes)
                   PROVE  LET a == C[n].address + (k - 1)
                          IN a \in DOMAIN N /\ N[a] = C[n].bytes[k]
      OBVIOUS
    <2>2. PICK a \in Int : a = B[n].address + (k - 1) /\ a = C[n].address + (k - 1)
      <3>1. Len(C[n].bytes) \in Nat
        BY <1>17, BlockTypes
      <3>2. k \in Int
        BY <3>1
      <3>3. PICK x \in Int : x = B[n].address
        BY <1>19
      <3>4. C[n].address = x /\ x + (k - 1) \in Int
        BY <1>18, <3>2, <3>3
      <3> QED BY <3>3, <3>4
    <2>3. ASSUME k \in 1 .. Len(B[n].bytes), B[n].bytes[k] = C[n].bytes[k]
          PROVE  a \in DOMAIN N /\ N[a] = C[n].bytes[k]
      <3>1. a \in DOMAIN M /\ M[a] = B[n].bytes[k]
        <4>1. n \in 1 .. Len(B)
          BY <1>7
        <4> QED BY <1>3, <2>2, <2>3, <4>1 DEF Holding
      <3>2. a < BlockEnd(B, n)
        <4>1. PICK d \in Nat : d = Len(B[n].bytes)
          <5>1. B[n].bytes \in Seq(Int)
            BY <1>3, <1>7, BlockTypes
          <5> QED BY <5>1, LenProperties
        <4>2. BlockEnd(B, n) = B[n].address + d
          BY <4>1 DEF BlockEnd
        <4>3. k \in 1 .. d /\ B[n].address \in Int
          BY <1>19, <2>3, <4>1
        <4> QED BY <2>2, <4>2, <4>3
      <3>3. a # top
        BY <1>19, <3>2
      <3> QED BY <1>9, <2>3, <3>1, <3>3
    <2>4. CASE n # l
      BY <1>17, <2>2, <2>3, <2>4
    <2>5. CASE n = l
      <3>1. C[n].bytes = t /\ k \in 1 .. c + 1 /\ B[n].bytes = u
        BY <1>11, <1>13, <1>14, <1>16, <1>17, <2>5
      <3>2. CASE k \in 1 .. c
        <4>1. B[n].bytes[k] = C[n].bytes[k] /\ k \in 1 .. Len(B[n].bytes)
          BY <1>12, <1>13, <1>14, <3>1, <3>2
        <4> QED BY <2>2, <2>3, <4>1
      <3>3. CASE k = c + 1
        <4>1. top = B[l].address + c
          BY <1>8, <1>11, <1>12 DEF BlockEnd
        <4>2. a = top
          BY <1>10, <2>2, <2>5, <3>3, <4>1
        <4> QED BY <1>9, <1>13, <1>14, <2>2, <3>1, <3>3, <4>2
      <3> QED BY <3>1, <3>2, <3>3
    <2> QED BY <2>4, <2>5
  <1>22. \A a \in DOMAIN N : \E n \in 1 .. l : a \in C[n].address .. BlockEnd(C, n) - 1
    <2>1. SUFFICES ASSUME NEW a \in DOMAIN N
                   PROVE  \E n \in 1 .. l : a \in C[n].address .. BlockEnd(C, n) - 1
      OBVIOUS
    <2>2. CASE a = top
      <3>1. C[l].address \in Int /\ C[l].address <= top /\ BlockEnd(C, l) = top + 1
        BY <1>7, <1>10, <1>18
      <3>2. a \in C[l].address .. BlockEnd(C, l) - 1
        BY <2>2, <3>1
      <3> QED BY <1>7, <3>2
    <2>3. CASE a # top
      <3>1. PICK n \in 1 .. l : a \in B[n].address .. BlockEnd(B, n) - 1
        BY <1>3, <1>7, <1>9, <2>3 DEF Holding
      <3>2. BlockEnd(B, n) <= BlockEnd(C, n) /\ BlockEnd(C, n) \in Int
        <4>1. CASE n = l
          BY <1>8, <1>18, <4>1
        <4>2. CASE n # l
          BY <1>18, <1>19, <4>2
        <4> QED BY <4>1, <4>2
      <3>3. PICK x, y, z \in Int :
               x = B[n].address /\ y = BlockEnd(B, n) /\ z = BlockEnd(C, n)
        BY <1>19, <3>2
      <3>4. a \in x .. y - 1 /\ y <= z
        BY <3>1, <3>2, <3>3
      <3>5. a \in x .. z - 1
        BY <3>3, <3>4
      <3>6. a \in C[n].address .. BlockEnd(C, n) - 1
        BY <1>18, <3>3, <3>5
      <3> QED BY <3>6
    <2> QED BY <2>2, <2>3
  <1>23. Holding(C, N)
    BY <1>17, <1>20, <1>21, <1>22 DEF Holding
  <1>24. \A n \in 1 .. l : \E i \in Sections(f) : i <= p + 1 /\ C[n].address = f[i].value
    <2>1. SUFFICES ASSUME NEW n \in 1 .. l
                   PROVE  \E i \in Sections(f) : i <= p + 1 /\ C[n].address = f[i].value
      OBVIOUS
    <2>2. PICK i \in Sections(f) : i <= p /\ B[n].address = f[i].value
      BY <1>3, <1>7
    <2>3. i \in Nat /\ i <= p + 1
      BY <2>2 DEF Sections
    <2> QED BY <1>18, <2>2, <2>3
  <1>25. \A n \in 1 .. l - 1 : BlockEnd(C, n) % Word = 0
    <2>1. \A n \in 1 .. l - 1 : n \in 1 .. l /\ n # l /\ n \in 1 .. b - 1
      BY <1>7
    <2> QED BY <1>3, <1>18, <2>1
  <1>26. C[l].address = f[SectionOf(f, p + 1)].value /\ Len(C[l].bytes) = Counted(f, p + 1)
    BY <1>3, <1>5, <1>7, <1>11, <1>12, <1>13, <1>14, <1>16, <1>17
  <1>27. Parsed(f, p + 1, C, l)
    BY <1>1, <1>3, <1>5, <1>17, <1>23, <1>24, <1>25, <1>26 DEF Parsed, N
  <1> QED BY <1>7, <1>15, <1>27

(* The sections of a whole file: the image, and every section of whole words.                 *)
Arranged(B, M) ==
    /\ Holding(B, M) /\ B # <<>>
    /\ \A n \in 1 .. Len(B) : B[n].address % Word = 0 /\ BlockEnd(B, n) % Word = 0

LEMMA ParsedEnd ==
    ASSUME NEW f \in Seq(Words), f # <<>>, Aligned(f), NEW B, NEW b, Parsed(f, Len(f), B, b)
    PROVE  Arranged(B, Meaning(f))
  <1>1. Len(f) \in Nat \ {0} /\ Len(f) \in 1 .. Len(f) /\ Len(f) # 0
    <2>1. Len(f) \in Nat /\ Len(f) # 0
      BY EmptySeq, LenProperties
    <2> QED BY <2>1
  <1>2. /\ Holding(B, Meaning(f)) /\ B \in Seq(Blocks) /\ b = Len(B) /\ b # 0
        /\ SectionOf(f, Len(f)) # 0 /\ B[b].address = f[SectionOf(f, Len(f))].value
        /\ Len(B[b].bytes) = Counted(f, Len(f))
    BY <1>1, MeaningStart DEF Parsed, Holding
  <1>3. B # <<>>
    BY <1>2, EmptySeq
  <1>4. End(f, SectionOf(f, Len(f))) = BlockEnd(B, b) /\ SectionOf(f, Len(f)) \in Sections(f)
    BY <1>1, <1>2, EndIs DEF BlockEnd, Top
  <1>5. SUFFICES ASSUME NEW n \in 1 .. Len(B)
                 PROVE  B[n].address % Word = 0 /\ BlockEnd(B, n) % Word = 0
    BY <1>2, <1>3 DEF Arranged
  <1>6. PICK i \in Sections(f) : B[n].address = f[i].value
    BY <1>2 DEF Parsed
  <1>7. n # b => n \in 1 .. b - 1
    BY <1>2
  <1>8. BlockEnd(B, n) % Word = 0
    BY <1>2, <1>4, <1>7 DEF Parsed, Aligned
  <1> QED BY <1>6, <1>8 DEF Aligned

(* The sections ascend all the way, so the lowest is the first.                           *)
LEMMA BlocksAscend ==
    ASSUME NEW B, NEW M, Arranged(B, M)
    PROVE  /\ B \in Seq(Blocks) /\ Len(B) \in Nat \ {0}
           /\ \A m, n \in 1 .. Len(B) : m <= n => /\ B[m].address <= B[n].address
                                                  /\ BlockEnd(B, m) <= BlockEnd(B, n)
  <1>1. B \in Seq(Blocks) /\ Len(B) \in Nat \ {0}
    <2>1. B \in Seq(Blocks) /\ B # <<>>
      BY DEF Arranged, Holding
    <2> QED BY <2>1, EmptySeq, LenProperties
  <1>2. ASSUME NEW m \in 1 .. Len(B), NEW n \in 1 .. Len(B), m <= n
        PROVE  /\ B[m].address <= B[n].address /\ BlockEnd(B, m) <= BlockEnd(B, n)
    <2>1. /\ B[m].address \in Int /\ BlockEnd(B, m) \in Int /\ B[m].address <= BlockEnd(B, m)
          /\ B[n].address \in Int /\ BlockEnd(B, n) \in Int /\ B[n].address <= BlockEnd(B, n)
      BY <1>1, BlockTypes
    <2>2. m < n => BlockEnd(B, m) <= B[n].address
      BY DEF Arranged, Holding
    <2>3. CASE m = n
      BY <2>1, <2>3
    <2>4. CASE m # n
      <3>1. m < n
        BY <1>2, <2>4
      <3> QED BY <2>1, <2>2, <3>1
    <2> QED BY <2>3, <2>4
  <1> QED BY <1>1, <1>2

LEMMA MinIs ==
    ASSUME NEW S \in SUBSET Int, NEW m \in S, \A y \in S : m <= y
    PROVE  Min(S) = m
  <1> DEFINE Least(x) == \A y \in S : x <= y
             c == CHOOSE x \in S : Least(x)
  <1>1. c \in S /\ Least(c)
    <2>1. Least(m)
      OBVIOUS
    <2> QED BY <2>1
  <1>2. Min(S) = c
    BY DEF Min
  <1> HIDE DEF c
  <1> QED BY <1>1, <1>2

LEMMA BaseIs ==
    ASSUME NEW M, Arranged(memory_blocks, M)
    PROVE  base_address = memory_blocks[1].address /\ base_address \in Int
  <1> DEFINE S == {memory_blocks[n].address : n \in DOMAIN memory_blocks}
  <1>1. /\ memory_blocks \in Seq(Blocks) /\ Len(memory_blocks) \in Nat \ {0}
        /\ DOMAIN memory_blocks = 1 .. Len(memory_blocks) /\ 1 \in 1 .. Len(memory_blocks)
    BY BlocksAscend
  <1>2. \A n \in 1 .. Len(memory_blocks) : memory_blocks[n].address \in Int
    BY <1>1, BlockTypes
  <1>3. \A n \in 1 .. Len(memory_blocks) : memory_blocks[1].address <= memory_blocks[n].address
    BY <1>1, BlocksAscend
  <1>4. S \in SUBSET Int /\ memory_blocks[1].address \in S
        /\ \A y \in S : memory_blocks[1].address <= y
    BY <1>1, <1>2, <1>3
  <1> HIDE DEF S
  <1>5. Min(S) = memory_blocks[1].address
    BY <1>4, MinIs
  <1> QED BY <1>1, <1>2, <1>5 DEF base_address, S

(* A section of whole words: its words, as the script and as the C code counts them.             *)
LEMMA WordsOfBlock ==
    ASSUME NEW B, NEW M, Arranged(B, M), NEW n \in 1 .. Len(B)
    PROVE  \E q \in Nat : /\ Len(B[n].bytes) = q * Word
                          /\ Len(B[n].bytes) \div Word = q
                          /\ (Len(B[n].bytes) + Word - 1) \div Word = q
  <1>1. B \in Seq(Blocks)
    BY BlocksAscend
  <1>2. PICK a \in Int : a = B[n].address
    BY <1>1, BlockTypes
  <1>3. PICK l \in Nat : l = Len(B[n].bytes)
    BY <1>1, BlockTypes
  <1>4. PICK e \in Int : e = BlockEnd(B, n) /\ e = a + l
    BY <1>2, <1>3 DEF BlockEnd
  <1>5. a % Word = 0 /\ e % Word = 0 /\ a <= e /\ e - a = l
    <2>1. B[n].address % Word = 0 /\ BlockEnd(B, n) % Word = 0
      BY DEF Arranged
    <2>2. a % Word = 0
      BY <1>2, <2>1
    <2>3. e % Word = 0
      <3>1. e = BlockEnd(B, n)
        BY <1>4
      <3> QED BY <2>1, <3>1
    <2> QED BY <1>4, <2>2, <2>3
  <1>6. PICK q \in Nat : e - a = q * Word /\ (e - a) \div Word = q /\ (e - a + Word - 1) \div Word = q
    BY <1>5, FlashAssumption, Multiples
  <1> QED BY <1>3, <1>5, <1>6

(* What is written up to a place, from the lowest section on: the image, and zeros.             *)
Burnt(M, base, size, image) ==
    /\ size \in Nat /\ DOMAIN image = 0 .. size - 1
    /\ \A b \in 0 .. size - 1 :
          image[b] = IF b + base \in DOMAIN M THEN M[b + base] ELSE 0

LEMMA BurntMore ==
    ASSUME NEW M, NEW base, NEW size, NEW image, Burnt(M, base, size, image),
           NEW w \in Nat, NEW more, DOMAIN more = size .. size + w - 1,
           \A b \in size .. size + w - 1 :
              more[b] = IF b + base \in DOMAIN M THEN M[b + base] ELSE 0
    PROVE  Burnt(M, base, size + w, Over(image, more))
  <1>1. size \in Nat /\ size + w \in Nat /\ DOMAIN image = 0 .. size - 1
    BY DEF Burnt
  <1>2. 0 .. size + w - 1 = (0 .. size - 1) \cup (size .. size + w - 1)
        /\ \A b \in 0 .. size - 1 : b \notin size .. size + w - 1
    BY <1>1
  <1> QED BY <1>1, <1>2 DEF Burnt, Over

(* How far program.c is: before word w of section n, or behind the last section.               *)
FlashPlace(B, n, w) == IF n <= Len(B) THEN B[n].address + w * Word ELSE BlockEnd(B, Len(B))

Burning(B, M, n, w, image) ==
    /\ n \in 1 .. Len(B) + 1 /\ w \in Nat
    /\ n <= Len(B) => w * Word <= Len(B[n].bytes)
    /\ n > Len(B) => w = 0
    /\ Burnt(M, B[1].address, FlashPlace(B, n, w) - B[1].address, image)

LEMMA BurningStarts ==
    ASSUME NEW B, NEW M, Arranged(B, M)
    PROVE  Burning(B, M, 1, 0, NoImage)
  <1>1. B \in Seq(Blocks) /\ Len(B) \in Nat \ {0} /\ 1 <= Len(B) /\ 1 \in 1 .. Len(B)
        /\ 1 \in 1 .. Len(B) + 1
    BY BlocksAscend
  <1>2. PICK a \in Int : a = B[1].address
    BY <1>1, BlockTypes
  <1>3. 0 * Word = 0 /\ Len(B[1].bytes) \in Nat
    BY <1>1, BlockTypes, FlashAssumption
  <1>4. FlashPlace(B, 1, 0) - B[1].address = 0
    BY <1>1, <1>2, <1>3 DEF FlashPlace
  <1>5. Burnt(M, a, 0, NoImage)
    BY DEF Burnt, NoImage
  <1> QED BY <1>1, <1>2, <1>3, <1>4, <1>5 DEF Burning

(* Between two sections there is nothing.                                           *)
LEMMA GapIsEmpty ==
    ASSUME NEW B, NEW M, Arranged(B, M), NEW n \in 1 .. Len(B), n + 1 <= Len(B),
           NEW a \in BlockEnd(B, n) .. B[n + 1].address - 1
    PROVE  a \notin DOMAIN M
  <1>1. SUFFICES ASSUME a \in DOMAIN M PROVE FALSE
    OBVIOUS
  <1>2. B \in Seq(Blocks) /\ Len(B) \in Nat \ {0} /\ n + 1 \in 1 .. Len(B)
    BY BlocksAscend
  <1>3. PICK m \in 1 .. Len(B) : a \in B[m].address .. BlockEnd(B, m) - 1
    BY <1>1 DEF Arranged, Holding
  <1>4. /\ B[m].address \in Int /\ BlockEnd(B, m) \in Int
        /\ BlockEnd(B, n) \in Int /\ B[n + 1].address \in Int
    BY <1>2, BlockTypes
  <1>5. CASE m <= n
    <2>1. BlockEnd(B, m) <= BlockEnd(B, n)
      BY <1>5, BlocksAscend
    <2> QED BY <1>3, <1>4, <2>1
  <1>6. CASE ~ (m <= n)
    <2>1. n + 1 <= m
      BY <1>2, <1>6
    <2>2. B[n + 1].address <= B[m].address
      BY <1>2, <2>1, BlocksAscend
    <2> QED BY <1>3, <1>4, <2>2
  <1> QED BY <1>5, <1>6

LEMMA Within ==
    ASSUME NEW r \in Nat, NEW d \in Nat \ {0}, NEW b \in r .. r + d - 1
    PROVE  \E j \in 1 .. d : j = b - r + 1 /\ j - 1 = b - r /\ b \in Int
  <1>1. b - r + 1 \in 1 .. d /\ b - r + 1 - 1 = b - r /\ b \in Int
    OBVIOUS
  <1> QED BY <1>1

(* The places program.c writes to: a word of a section, and how far the zeros after it go.      *)
WordPlace(B, n, w) == B[n].address - B[1].address + w * Word
ZerosAfter(B, n, end) ==
    IF n = Len(B) THEN 0 ELSE ((B[n + 1].address - B[1].address - end) \div Word) * Word

(* A word of a section goes where it belongs.                                        *)
LEMMA BurnWord ==
    ASSUME NEW B, NEW M, Arranged(B, M), NEW n \in 1 .. Len(B), NEW w \in Nat, NEW image,
           Burning(B, M, n, w, image), w < (Len(B[n].bytes) + Word - 1) \div Word,
           NEW more, NEW a, a = WordPlace(B, n, w),
           DOMAIN more = a .. a + Word - 1,
           \A b \in a .. a + Word - 1 :
              more[b] = SubSeq(B[n].bytes, w * Word + 1, w * Word + Word)[b - a + 1]
    PROVE  Burning(B, M, n, w + 1, Over(image, more))
  <1>1. /\ B \in Seq(Blocks) /\ Len(B) \in Nat \ {0} /\ 1 \in 1 .. Len(B)
        /\ n \in 1 .. Len(B) + 1 /\ n <= Len(B) /\ ~ (n > Len(B))
    BY BlocksAscend
  <1>2. PICK q \in Nat : /\ Len(B[n].bytes) = q * Word
                         /\ (Len(B[n].bytes) + Word - 1) \div Word = q
    BY WordsOfBlock
  <1>3. PICK d \in Nat \ {0} : d = Word
    BY FlashAssumption
  <1>4. PICK x \in Int : x = B[n].address
    BY <1>1, BlockTypes
  <1>5. PICK base \in Int : base = B[1].address
    BY <1>1, BlockTypes
  <1>6. PICK y \in Nat : y = w * d /\ (w + 1) * d = y + d
    BY SMT
  <1>7. PICK u \in Seq(Int) : u = B[n].bytes
    BY <1>1, BlockTypes
  <1>8. Len(u) \in Nat /\ y + d <= Len(u)
    <2>1. w + 1 <= q
      BY <1>2
    <2>2. (w + 1) * d <= q * d
      BY <2>1, ProductGrows
    <2>3. Len(u) = q * d
      BY <1>2, <1>3, <1>7
    <2> QED BY <1>6, <1>7, <2>2, <2>3, LenProperties
  <1>9. a = (x - base) + y
    BY <1>3, <1>4, <1>5, <1>6 DEF WordPlace
  <1>10. Burnt(M, base, a, image)
    <2>1. FlashPlace(B, n, w) = x + y
      BY <1>1, <1>3, <1>4, <1>6 DEF FlashPlace
    <2>2. (x + y) - base = a
      BY <1>9
    <2> QED BY <1>5, <2>1, <2>2 DEF Burning
  <1>11. PICK r \in Nat : r = a
    BY <1>10 DEF Burnt
  <1>12. /\ r = (x - base) + y /\ Burnt(M, base, r, image)
         /\ DOMAIN more = r .. r + d - 1
         /\ \A b \in r .. r + d - 1 : more[b] = SubSeq(u, y + 1, y + d)[b - r + 1]
    BY <1>3, <1>6, <1>7, <1>9, <1>10, <1>11
  <1>13. \A b \in r .. r + d - 1 : more[b] = IF b + base \in DOMAIN M THEN M[b + base] ELSE 0
    <2>1. SUFFICES ASSUME NEW b \in r .. r + d - 1
                   PROVE  more[b] = IF b + base \in DOMAIN M THEN M[b + base] ELSE 0
      OBVIOUS
    <2>2. PICK j \in 1 .. d : j = b - r + 1 /\ j - 1 = b - r /\ b \in Int
      BY Within
    <2>3. PICK k \in 1 .. Len(u) : k = y + j
      BY <1>8
    <2>4. SubSeq(u, y + 1, y + d)[j] = u[k]
      <3>1. \A i \in y + 1 .. y + d : u[i] \in Int
        <4>1. \A i \in y + 1 .. y + d : i \in 1 .. Len(u)
          <5>1. PICK h \in Nat : h = Len(u) /\ y + d <= h
            BY <1>8
          <5>2. \A i \in y + 1 .. y + d : i \in 1 .. h
            BY <5>1
          <5> QED BY <5>1, <5>2
        <4> QED BY <4>1, ElementOfSeq
      <3>2. PICK lo \in Int : lo = y + 1
        OBVIOUS
      <3>3. PICK hi \in Int : hi = y + d
        OBVIOUS
      <3>4. \A i \in 1 .. hi - lo + 1 : SubSeq(u, lo, hi)[i] = u[lo + i - 1]
        <4>1. \A i \in lo .. hi : u[i] \in Int
          BY <3>1, <3>2, <3>3
        <4>2. /\ SubSeq(u, lo, hi) \in Seq(Int)
              /\ \A i \in 1 .. hi - lo + 1 : SubSeq(u, lo, hi)[i] = u[lo + i - 1]
          BY <4>1, SubSeqProperties
        <4> QED BY <4>2
      <3>5. j \in 1 .. hi - lo + 1 /\ lo + j - 1 = k
        BY <2>3, <3>2, <3>3
      <3> QED BY <3>2, <3>3, <3>4, <3>5
    <2>5. more[b] = u[k]
      <3>1. more[b] = SubSeq(u, y + 1, y + d)[b - r + 1]
        BY <1>12
      <3> QED BY <2>2, <2>4, <3>1
    <2>6. x + (k - 1) \in DOMAIN M /\ M[x + (k - 1)] = u[k]
      BY <1>4, <1>7, <1>1 DEF Arranged, Holding
    <2>7. x + (k - 1) = b + base
      <3>1. k - 1 = y + (j - 1)
        BY <2>3
      <3>2. k - 1 = y + (b - r)
        BY <2>2, <3>1
      <3> QED BY <1>12, <2>2, <3>2
    <2> QED BY <2>5, <2>6, <2>7
  <1>14. Burnt(M, base, r + d, Over(image, more))
    BY <1>3, <1>13, <1>12, BurntMore
  <1>15. FlashPlace(B, n, w + 1) - base = r + d
    <2>1. FlashPlace(B, n, w + 1) = x + (y + d)
      BY <1>1, <1>3, <1>4, <1>6 DEF FlashPlace
    <2> QED BY <1>12, <2>1
  <1>16. (w + 1) * Word <= Len(B[n].bytes)
    BY <1>3, <1>6, <1>7, <1>8
  <1> QED BY <1>1, <1>5, <1>14, <1>15, <1>16 DEF Burning

LEMMA GapMoved ==
    ASSUME NEW top \in Int, NEW z \in Int, NEW o \in Int, NEW e, e = top - o, NEW g, g = z - top
    PROVE  z - o = e + g /\ \A b \in e .. e + g - 1 : b + o \in top .. z - 1
  OBVIOUS

(* After a section come zeros up to the next.                                         *)
LEMMA BurnGap ==
    ASSUME NEW B, NEW M, Arranged(B, M), NEW n \in 1 .. Len(B), NEW w \in Nat, NEW image,
           Burning(B, M, n, w, image), w = (Len(B[n].bytes) + Word - 1) \div Word,
           NEW end, end = WordPlace(B, n, w), NEW gap, gap = ZerosAfter(B, n, end),
           NEW more, DOMAIN more = end .. end + gap - 1,
           \A b \in end .. end + gap - 1 : more[b] = 0
    PROVE  Burning(B, M, n + 1, 0, Over(image, more))
  <1>1. /\ B \in Seq(Blocks) /\ Len(B) \in Nat \ {0} /\ 1 \in 1 .. Len(B)
        /\ n + 1 \in 1 .. Len(B) + 1 /\ n <= Len(B)
    BY BlocksAscend
  <1>2. w * Word = Len(B[n].bytes)
    BY WordsOfBlock
  <1>3. PICK d \in Nat \ {0} : d = Word
    BY FlashAssumption
  <1>4. PICK x \in Int : x = B[n].address
    BY <1>1, BlockTypes
  <1>5. PICK o \in Int : o = B[1].address
    BY <1>1, BlockTypes
  <1>6. PICK l \in Nat : l = Len(B[n].bytes)
    BY <1>1, BlockTypes
  <1>7. PICK top \in Int : top = BlockEnd(B, n) /\ top = x + l
    BY <1>4, <1>6 DEF BlockEnd
  <1>8. end = top - o
    <2>1. end = x - o + l
      <3>1. w * Word = l
        BY <1>2, <1>6
      <3> QED BY <1>4, <1>5, <3>1 DEF WordPlace
    <2> QED BY <1>7, <2>1
  <1>9. Burnt(M, o, end, image)
    <2>1. FlashPlace(B, n, w) = top
      BY <1>1, <1>2, <1>4, <1>6, <1>7 DEF FlashPlace
    <2> QED BY <1>5, <1>8, <2>1 DEF Burning
  <1>10. end \in Nat
    BY <1>9 DEF Burnt
  <1>11. CASE n = Len(B)
    <2>1. gap = 0
      BY <1>11 DEF ZerosAfter
    <2>2. Burnt(M, o, end + 0, Over(image, more))
      <3>1. DOMAIN more = end .. end + 0 - 1
            /\ \A b \in end .. end + 0 - 1 :
                 more[b] = IF b + o \in DOMAIN M THEN M[b + o] ELSE 0
        BY <1>10, <2>1
      <3> QED BY <1>9, <3>1, BurntMore
    <2>3. FlashPlace(B, n + 1, 0) - o = end + 0
      <3>1. FlashPlace(B, n + 1, 0) = top
        <4>1. ~ (n + 1 <= Len(B))
          BY <1>1, <1>11
        <4>2. top = BlockEnd(B, n)
          BY <1>7
        <4>3. top = BlockEnd(B, Len(B))
          BY <1>11, <4>2
        <4> QED BY <4>1, <4>3 DEF FlashPlace
      <3> QED BY <1>8, <1>10, <3>1
    <2> QED BY <1>1, <1>5, <1>11, <2>2, <2>3 DEF Burning
  <1>12. CASE n # Len(B)
    <2>1. n + 1 \in 1 .. Len(B) /\ n + 1 <= Len(B) /\ n < n + 1 /\ ~ (n + 1 > Len(B))
      BY <1>1, <1>12
    <2>2. PICK z \in Int : z = B[n + 1].address
      BY <1>1, <2>1, BlockTypes
    <2>3. top % d = 0 /\ z % d = 0 /\ top <= z
      <3>1. top % d = 0
        <4>1. top = BlockEnd(B, n)
          BY <1>7
        <4> QED BY <1>3, <4>1 DEF Arranged
      <3>2. z % d = 0
        BY <1>3, <2>1, <2>2 DEF Arranged
      <3>3. top <= z
        <4>1. top = BlockEnd(B, n)
          BY <1>7
        <4> QED BY <2>1, <2>2, <4>1 DEF Arranged, Holding
      <3> QED BY <3>1, <3>2, <3>3
    <2>4. PICK q \in Nat : z - top = q * d /\ (z - top) \div d = q /\ (z - top + d - 1) \div d = q
      BY <2>3, Multiples
    <2>5. (z - o) - end = z - top
      BY <1>8
    <2>6. gap = q * d
      BY <1>3, <1>5, <1>12, <2>2, <2>4, <2>5 DEF ZerosAfter
    <2>7. PICK g \in Nat : g = gap /\ g = z - top
      BY <2>3, <2>4, <2>6
    <2>8. \A b \in end .. end + g - 1 : b + o \notin DOMAIN M
      <3>1. SUFFICES ASSUME NEW b \in end .. end + g - 1
                     PROVE  b + o \notin DOMAIN M
        OBVIOUS
      <3>2. b + o \in top .. z - 1
        BY <1>8, <2>7, GapMoved
      <3>3. PICK a : a = b + o
        OBVIOUS
      <3> QED BY <1>7, <2>1, <2>2, <3>2, <3>3, GapIsEmpty
    <2>9. Burnt(M, o, end + g, Over(image, more))
      BY <1>9, <2>7, <2>8, BurntMore
    <2>10. FlashPlace(B, n + 1, 0) - o = end + g
      <3>1. 0 * Word = 0
        BY <1>3
      <3>2. FlashPlace(B, n + 1, 0) = z
        BY <2>1, <2>2, <3>1 DEF FlashPlace
      <3>3. z - o = end + g
        <4>1. PICK e : e = end
          OBVIOUS
        <4>2. e = top - o /\ g = z - top
          BY <1>8, <2>7, <4>1
        <4>3. z - o = e + g
          BY <4>2, GapMoved
        <4> QED BY <4>1, <4>3
      <3> QED BY <3>2, <3>3
    <2>11. 0 * Word <= Len(B[n + 1].bytes)
      <3>1. Len(B[n + 1].bytes) \in Nat /\ 0 * Word = 0
        BY <1>1, <1>3, <2>1, BlockTypes
      <3> QED BY <3>1
    <2> QED BY <1>1, <1>5, <2>1, <2>9, <2>10, <2>11 DEF Burning
  <1> QED BY <1>11, <1>12

(* The board's side of the invariant.                                              *)
FlashInv ==
    /\ fst \in {"idle", "clear", "parse", "flash", "done", "failed"} /\ next \in Nat
    /\ fst # "idle" => text \in Seq(Words)
    /\ fst = "idle" => next = 1 /\ block = 0
    /\ fst \in {"idle", "clear"} => memory_blocks = <<>>
    /\ fst \in {"idle", "parse"} => block_idx = 1 /\ written = 0 /\ flash = NoImage
    /\ fst = "parse" => /\ next - 1 \in 0 .. Len(text)
                        /\ next = 1 => block = 0
                        /\ next # 1 => IsSection(text[1])
    /\ (fst = "parse" /\ WellFormed(text) /\ Aligned(text)) =>
          Parsed(text, next - 1, memory_blocks, block)
    /\ (fst \in {"flash", "done"} /\ memory_blocks # <<>> /\ Aligned(text)) =>
          /\ Arranged(memory_blocks, Meaning(text))
          /\ Burning(memory_blocks, Meaning(text), block_idx, written, flash)
    /\ (fst = "done" /\ memory_blocks # <<>>) => block_idx > Len(memory_blocks)

LEMMA FlashInvInit == FlashInit => FlashInv
  BY DEF FlashInit, FlashInv

LEMMA FlashInvStart ==
    ASSUME FlashInv, FlashStart
    PROVE  FlashInv'
  <1>1. /\ fst = "idle" /\ fst' \in {"clear", "parse"} /\ text' \in FlashTexts
        /\ UNCHANGED <<next, memory_blocks, block, block_idx, written, flash>>
        /\ next = 1 /\ block = 0 /\ memory_blocks = <<>>
        /\ block_idx = 1 /\ written = 0 /\ flash = NoImage
    BY DEF FlashStart, blockVars, flashVars, FlashInv
  <1>2. text' \in Seq(Words)
    BY <1>1, FlashAssumption DEF Words
  <1>3. next' - 1 = 0 /\ 0 \in 0 .. Len(text') /\ next' = 1 /\ next' \in Nat
    BY <1>1, <1>2, LenProperties
  <1>4. Parsed(text', next' - 1, memory_blocks', block')
    BY <1>1, <1>2, <1>3, ParsedStart
  <1> QED BY <1>1, <1>2, <1>3, <1>4 DEF FlashInv

LEMMA FlashInvClear ==
    ASSUME FlashInv, ClearSection \/ ClearData \/ ClearDone \/ ClearFails
    PROVE  FlashInv'
  <1>1. /\ fst = "clear" /\ fst' \in {"clear", "done", "failed"} /\ next' \in {next, next + 1}
        /\ UNCHANGED <<text, memory_blocks, block, block_idx, written, flash>>
    BY DEF ClearSection, ClearData, ClearDone, ClearFails, blockVars, flashVars
  <1>2. next' \in Nat /\ text \in Seq(Words) /\ memory_blocks = <<>>
    BY <1>1 DEF FlashInv
  <1> QED BY <1>1, <1>2 DEF FlashInv

LEMMA FlashInvSection ==
    ASSUME FlashInv, ParseSection
    PROVE  FlashInv'
  <1>1. /\ fst = "parse" /\ fst' = fst /\ Left /\ IsSection(Here) /\ next' = next + 1
        /\ UNCHANGED <<text, block_idx, written, flash>>
    BY DEF ParseSection, flashVars
  <1>2. /\ next \in Nat /\ text \in Seq(Words) /\ next - 1 \in 0 .. Len(text)
        /\ block_idx = 1 /\ written = 0 /\ flash = NoImage
        /\ next # 1 => IsSection(text[1])
    BY <1>1 DEF FlashInv
  <1>3. PICK p \in Nat : p = next - 1 /\ next = p + 1 /\ p \in 0 .. Len(text) - 1
    <2>1. Len(text) \in Nat
      BY <1>2, LenProperties
    <2> QED BY <1>1, <1>2, <2>1 DEF Left
  <1>4. next' \in Nat /\ next' - 1 = next /\ next' # 1 /\ next \in 0 .. Len(text)
    BY <1>1, <1>2, <1>3
  <1>5. IsSection(text[1])
    BY <1>1, <1>2 DEF Here
  <1>6. ASSUME WellFormed(text), Aligned(text)
        PROVE  Parsed(text, next, memory_blocks', block')
    <2>1. Parsed(text, p, memory_blocks, block)
      BY <1>1, <1>3, <1>6 DEF FlashInv
    <2>2. IsSection(text[p + 1]) /\ Here = text[p + 1]
      BY <1>1, <1>3 DEF Here
    <2>3. \A n \in 1 .. Len(memory_blocks) : memory_blocks[n].address # text[p + 1].value
      BY <1>2, <1>3, <1>6, <2>1, <2>2, SectionIsNew
    <2>4. DOMAIN memory_blocks = 1 .. Len(memory_blocks)
      BY <2>1 DEF Parsed, Holding
    <2>5. {n \in DOMAIN memory_blocks : memory_blocks[n].address = Here.value} = {}
      BY <2>2, <2>3, <2>4
    <2>6. /\ memory_blocks' = Append(memory_blocks, [address |-> text[p + 1].value, bytes |-> <<>>])
          /\ block' = Len(memory_blocks) + 1
      BY <2>2, <2>5 DEF ParseSection
    <2>7. Parsed(text, p + 1, memory_blocks', block')
      BY <1>2, <1>3, <1>6, <2>1, <2>2, <2>6, ParsedSection
    <2> QED BY <1>3, <2>7
  <1> QED BY <1>1, <1>2, <1>4, <1>5, <1>6 DEF FlashInv

LEMMA FlashInvByte ==
    ASSUME FlashInv, ParseData
    PROVE  FlashInv'
  <1>1. /\ fst = "parse" /\ Left /\ ~IsSection(Here) /\ next' = next + 1
        /\ UNCHANGED <<text, block, block_idx, written, flash>>
        /\ fst' \in {"parse", "failed"}
    BY DEF ParseData, flashVars
  <1>2. /\ next \in Nat /\ text \in Seq(Words) /\ next - 1 \in 0 .. Len(text)
        /\ block_idx = 1 /\ written = 0 /\ flash = NoImage
        /\ next = 1 => block = 0
        /\ next # 1 => IsSection(text[1])
    BY <1>1 DEF FlashInv
  <1>3. PICK p \in Nat : p = next - 1 /\ next = p + 1 /\ p \in 0 .. Len(text) - 1
    <2>1. Len(text) \in Nat
      BY <1>2, LenProperties
    <2> QED BY <1>1, <1>2, <2>1 DEF Left
  <1>4. next' \in Nat /\ next' - 1 = next /\ next' # 1 /\ next \in 0 .. Len(text)
    BY <1>1, <1>2, <1>3
  <1>5. CASE block = 0
    <2>1. fst' = "failed"
      BY <1>5 DEF ParseData
    <2> QED BY <1>1, <1>2, <1>4, <2>1 DEF FlashInv
  <1>6. CASE block # 0
    <2>1. /\ fst' = "parse" /\ IsSection(text[1])
          /\ memory_blocks' = [memory_blocks EXCEPT ![block].bytes = Append(@, Here.value)]
      BY <1>1, <1>2, <1>6 DEF ParseData
    <2>2. ASSUME WellFormed(text), Aligned(text)
          PROVE  Parsed(text, next, memory_blocks', block)
      <3>1. Parsed(text, p, memory_blocks, block)
        BY <1>1, <1>3, <2>2 DEF FlashInv
      <3>2. ~IsSection(text[p + 1]) /\ Here = text[p + 1]
        BY <1>1, <1>3 DEF Here
      <3>3. p \in 1 .. Len(text) - 1
        <4>1. p # 0
          BY <1>2, <1>3, <1>6
        <4> QED BY <1>3, <4>1
      <3>4. Parsed(text, p + 1, memory_blocks', block)
        BY <1>2, <2>1, <2>2, <3>1, <3>2, <3>3, ParsedByte
      <3> QED BY <1>3, <3>4
    <2> QED BY <1>1, <1>2, <1>4, <2>1, <2>2 DEF FlashInv
  <1> QED BY <1>5, <1>6

LEMMA FlashInvParsed ==
    ASSUME FlashInv, ParseDone
    PROVE  FlashInv'
  <1>1. /\ fst = "parse" /\ ~Left
        /\ fst' = IF \E j \in DOMAIN text : text[j].value = Unreadable THEN "failed" ELSE "flash"
        /\ UNCHANGED <<text, next, memory_blocks, block, block_idx, written, flash>>
    BY DEF ParseDone, blockVars, flashVars
  <1>2. /\ next \in Nat /\ text \in Seq(Words) /\ next - 1 \in 0 .. Len(text)
        /\ block_idx = 1 /\ written = 0 /\ flash = NoImage
        /\ next # 1 => IsSection(text[1])
    BY <1>1 DEF FlashInv
  <1>3. Len(text) \in Nat /\ next - 1 = Len(text)
    <2>1. Len(text) \in Nat
      BY <1>2, LenProperties
    <2> QED BY <1>1, <1>2, <2>1 DEF Left
  <1>4. ASSUME fst' = "flash", memory_blocks # <<>>, Aligned(text)
        PROVE  /\ Arranged(memory_blocks, Meaning(text))
               /\ Burning(memory_blocks, Meaning(text), block_idx, written, flash)
    <2>1. WellFormed(text)
      <3>1. \A j \in DOMAIN text : text[j].value # Unreadable
        BY <1>1, <1>4
      <3>2. text # <<>> => IsSection(text[1])
        <4>1. text # <<>> => Len(text) # 0
          BY <1>2, EmptySeq
        <4> QED BY <1>2, <1>3, <4>1
      <3> QED BY <3>1, <3>2 DEF WellFormed
    <2>2. Parsed(text, Len(text), memory_blocks, block)
      BY <1>1, <1>3, <1>4, <2>1 DEF FlashInv
    <2>3. text # <<>>
      <3>1. text = <<>> => Len(text) = 0
        BY EmptySeq
      <3> QED BY <1>4, <2>2, <3>1 DEF Parsed
    <2>4. Arranged(memory_blocks, Meaning(text))
      BY <1>2, <1>4, <2>2, <2>3, ParsedEnd
    <2> QED BY <1>2, <2>4, BurningStarts
  <1> QED BY <1>1, <1>2, <1>4 DEF FlashInv

LEMMA FlashInvWrite ==
    ASSUME FlashInv, WriteWord
    PROVE  FlashInv'
  <1>1. /\ fst = "flash" /\ fst' = fst /\ block_idx <= Len(memory_blocks) /\ written < num_words
        /\ written' = written + 1
        /\ UNCHANGED <<text, next, memory_blocks, block, block_idx>>
    BY DEF WriteWord, blockVars
  <1>2. next \in Nat /\ text \in Seq(Words)
    BY <1>1 DEF FlashInv
  <1>3. ASSUME memory_blocks # <<>>, Aligned(text)
        PROVE  /\ Arranged(memory_blocks, Meaning(text))
               /\ Burning(memory_blocks, Meaning(text), block_idx, written', flash')
    <2> DEFINE B == memory_blocks
               M == Meaning(text)
               a == B[block_idx].address - B[1].address + written * Word
               u == B[block_idx].bytes
               more == [b \in a .. a + Word - 1 |->
                          SubSeq(u, written * Word + 1, written * Word + Word)[b - a + 1]]
    <2>1. Arranged(B, M) /\ Burning(B, M, block_idx, written, flash)
      BY <1>1, <1>3 DEF FlashInv
    <2>2. block_idx \in 1 .. Len(B) /\ written \in Nat
      <3>1. Len(B) \in Nat
        BY <2>1, BlocksAscend
      <3> QED BY <1>1, <2>1, <3>1 DEF Burning
    <2>3. base_address = B[1].address
      BY <2>1, BaseIs
    <2>4. /\ Registry(block_idx).address = B[block_idx].address - B[1].address
          /\ Registry(block_idx).length = Len(u)
          /\ Registry(block_idx).data = [i \in 0 .. Len(u) \div Word - 1 |->
                                           SubSeq(u, i * Word + 1, i * Word + Word)]
      BY <2>3 DEF Registry
    <2>5. num_words = (Len(u) + Word - 1) \div Word
      BY <2>4 DEF num_words
    <2>6. written \in 0 .. Len(u) \div Word - 1
      <3>1. PICK q \in Nat : Len(u) \div Word = q /\ (Len(u) + Word - 1) \div Word = q
        BY <2>1, <2>2, WordsOfBlock
      <3> QED BY <1>1, <2>2, <2>5, <3>1
    <2>7. /\ written \in DOMAIN Registry(block_idx).data
          /\ Registry(block_idx).data[written]
               = SubSeq(u, written * Word + 1, written * Word + Word)
      BY <2>4, <2>6
    <2>8. flash' = Over(flash, more)
      BY <2>4, <2>7 DEF WriteWord, Program
    <2>9. written < (Len(u) + Word - 1) \div Word
      BY <1>1, <2>5
    <2>10. Burning(B, M, block_idx, written + 1, Over(flash, more))
      <3> HIDE DEF B, M
      <3>1. DOMAIN more = a .. a + Word - 1
        OBVIOUS
      <3>2. \A b \in a .. a + Word - 1 :
              more[b] = SubSeq(u, written * Word + 1, written * Word + Word)[b - a + 1]
        OBVIOUS
      <3>3. PICK c : c = a
        OBVIOUS
      <3>4. PICK image : image = more
        OBVIOUS
      <3>5. /\ c = WordPlace(B, block_idx, written)
            /\ DOMAIN image = c .. c + Word - 1
            /\ \A b \in c .. c + Word - 1 :
                 image[b] = SubSeq(u, written * Word + 1, written * Word + Word)[b - c + 1]
        BY <3>1, <3>2, <3>3, <3>4 DEF WordPlace
      <3> HIDE DEF a, more
      <3>6. Burning(B, M, block_idx, written + 1, Over(flash, image))
        BY <2>1, <2>2, <2>9, <3>5, BurnWord
      <3> QED BY <3>4, <3>6
    <2> QED BY <1>1, <2>1, <2>8, <2>10
  <1> QED BY <1>1, <1>2, <1>3 DEF FlashInv

LEMMA FlashInvFill ==
    ASSUME FlashInv, FillGap
    PROVE  FlashInv'
  <1>1. /\ fst = "flash" /\ fst' = fst /\ block_idx <= Len(memory_blocks) /\ written = num_words
        /\ block_idx' = block_idx + 1 /\ written' = 0
        /\ UNCHANGED <<text, next, memory_blocks, block>>
    BY DEF FillGap, blockVars
  <1>2. next \in Nat /\ text \in Seq(Words)
    BY <1>1 DEF FlashInv
  <1>3. ASSUME memory_blocks # <<>>, Aligned(text)
        PROVE  /\ Arranged(memory_blocks, Meaning(text))
               /\ Burning(memory_blocks, Meaning(text), block_idx', 0, flash')
    <2> DEFINE B == memory_blocks
               M == Meaning(text)
               n == block_idx
               base == B[1].address
               end == B[n].address - base + written * Word
               gap == IF n = Len(B) THEN 0
                      ELSE (((B[n + 1].address - base) - end) \div Word) * Word
               zeros == [b \in end .. end + gap - 1 |-> 0]
    <2>1. Arranged(B, M) /\ Burning(B, M, n, written, flash)
      BY <1>1, <1>3 DEF FlashInv
    <2>2. n \in 1 .. Len(B) /\ written \in Nat
      <3>1. Len(B) \in Nat
        BY <2>1, BlocksAscend
      <3> QED BY <1>1, <2>1, <3>1 DEF Burning
    <2>3. base_address = base
      BY <2>1, BaseIs
    <2>4. /\ \A i : Registry(i).address = B[i].address - base
          /\ Registry(n).length = Len(B[n].bytes)
      BY <2>3 DEF Registry
    <2>5. written = (Len(B[n].bytes) + Word - 1) \div Word
      BY <1>1, <2>4 DEF num_words
    <2>6. flash' = Over(flash, zeros)
      BY <1>1, <2>4 DEF FillGap
    <2>7. Burning(B, M, n + 1, 0, Over(flash, zeros))
      <3>1. PICK e : e = end
        OBVIOUS
      <3>2. PICK g : g = gap
        OBVIOUS
      <3>3. PICK more : more = zeros
        OBVIOUS
      <3>4. /\ e = WordPlace(B, n, written) /\ g = ZerosAfter(B, n, e)
            /\ DOMAIN more = e .. e + g - 1
            /\ \A b \in e .. e + g - 1 : more[b] = 0
        BY <3>1, <3>2, <3>3 DEF WordPlace, ZerosAfter
      <3> HIDE DEF zeros, gap, end, base, n, B, M
      <3>5. Burning(B, M, n + 1, 0, Over(flash, more))
        BY <2>1, <2>2, <2>5, <3>4, BurnGap
      <3> QED BY <3>3, <3>5
    <2> QED BY <1>1, <2>1, <2>6, <2>7
  <1> QED BY <1>1, <1>2, <1>3 DEF FlashInv

LEMMA FlashInvStep == FlashInv /\ [FlashNext]_flashToolVars => FlashInv'
  <1> SUFFICES ASSUME FlashInv, [FlashNext]_flashToolVars PROVE FlashInv'
    OBVIOUS
  <1>1. CASE FlashDone
    <2>1. /\ fst = "flash" /\ fst' = "done" /\ block_idx > Len(memory_blocks)
          /\ UNCHANGED <<text, next, memory_blocks, block, block_idx, written, flash>>
      BY <1>1 DEF FlashDone, blockVars, flashVars
    <2> QED BY <2>1 DEF FlashInv
  <1>2. CASE UNCHANGED flashToolVars
    BY <1>2 DEF flashToolVars, blockVars, flashVars, FlashInv
  <1> QED BY <1>1, <1>2, FlashInvStart, FlashInvClear, FlashInvSection, FlashInvByte,
             FlashInvParsed, FlashInvWrite, FlashInvFill DEF FlashNext

LEMMA FlashInvHolds == FlashInv => FlashHoldsTheFile
  <1> SUFFICES ASSUME FlashInv, fst = "done", memory_blocks # <<>>, Aligned(text)
               PROVE  /\ \A a \in DOMAIN Meaning(text) :
                            /\ a - base_address \in DOMAIN flash
                            /\ flash[a - base_address] = Meaning(text)[a]
                      /\ \A a \in DOMAIN flash :
                            a + base_address \notin DOMAIN Meaning(text) => flash[a] = 0
    BY DEF FlashHoldsTheFile, Aligned
  <1> DEFINE B == memory_blocks
             M == Meaning(text)
  <1>1. Arranged(B, M) /\ Burning(B, M, block_idx, written, flash) /\ block_idx > Len(B)
    BY DEF FlashInv
  <1> HIDE DEF B, M
  <1>2. B \in Seq(Blocks) /\ Len(B) \in Nat \ {0} /\ 1 \in 1 .. Len(B) /\ Len(B) \in 1 .. Len(B)
    BY <1>1, BlocksAscend
  <1>3. PICK base \in Int : base = B[1].address /\ base = base_address
    BY <1>1, <1>2, BaseIs, BlockTypes DEF B
  <1>4. PICK top \in Int : top = BlockEnd(B, Len(B))
    BY <1>2, BlockTypes
  <1>5. Burnt(M, base, top - base, flash)
    <2>1. ~ (block_idx <= Len(B))
      BY <1>1, <1>2 DEF Burning
    <2>2. FlashPlace(B, block_idx, written) = top
      BY <1>4, <2>1 DEF FlashPlace
    <2> QED BY <1>1, <1>3, <2>2 DEF Burning
  <1>6. PICK size \in Nat : size = top - base
    BY <1>5 DEF Burnt
  <1>7. /\ DOMAIN flash = 0 .. size - 1
        /\ \A b \in 0 .. size - 1 : flash[b] = IF b + base \in DOMAIN M THEN M[b + base] ELSE 0
    BY <1>5, <1>6 DEF Burnt
  <1>8. ASSUME NEW a \in DOMAIN M
        PROVE  a - base \in DOMAIN flash /\ flash[a - base] = M[a]
    <2>1. PICK n \in 1 .. Len(B) : a \in B[n].address .. BlockEnd(B, n) - 1
      BY <1>1 DEF Arranged, Holding
    <2>2. base <= B[n].address /\ BlockEnd(B, n) <= top
      <3>1. 1 <= n /\ n <= Len(B)
        BY <1>2
      <3>2. B[1].address <= B[n].address /\ BlockEnd(B, n) <= BlockEnd(B, Len(B))
        BY <1>1, <1>2, <3>1, BlocksAscend
      <3> QED BY <1>3, <1>4, <3>2
    <2>3. B[n].address \in Int /\ BlockEnd(B, n) \in Int
      BY <1>2, BlockTypes
    <2>4. a \in Int /\ a - base \in 0 .. size - 1 /\ (a - base) + base = a
      BY <1>6, <2>1, <2>2, <2>3
    <2> QED BY <1>7, <1>8, <2>4
  <1>9. ASSUME NEW a \in DOMAIN flash, a + base \notin DOMAIN M
        PROVE  flash[a] = 0
    BY <1>7, <1>9
  <1> QED BY <1>3, <1>8, <1>9 DEF M

(* tools/vmem2carr.py and write_all_flash_data of tests/program/program.c bring every byte of the    *)
(* file into the flash at its distance from the lowest section, with zeros in the gaps, whatever    *)
(* the size of a word and the file, as long as its sections ascend, begin at words, end with whole  *)
(* words and no address comes twice: then no entry counts more words than its array has, and the    *)
(* filled gap ends where the next section begins.                                       *)
THEOREM FlashIsWritten == FlashSpec => []FlashHoldsTheFile
  BY FlashInvInit, FlashInvStep, FlashInvHolds, PTL DEF FlashSpec
=============================================================================
