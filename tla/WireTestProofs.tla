--------------------------- MODULE WireTestProofs ---------------------------
(***************************************************************************)
(* What the scripts do to the lines of the board, for every set of tests   *)
(* and faults and every order of requests: the lines come to rest, two     *)
(* drivers never meet on the RS-485 bus, and a test's answer tells whether *)
(* a line it uses is at fault.                                             *)
(***************************************************************************)
EXTENDS WireTest, FiniteSetTheorems, SequenceTheorems, TLAPS

\* The lines whose level may stay, and the levels of the others at rest.
Exempt == I2cPin \cup Cells \cup AtBoot
Resting(l, v) == l \in Exempt \/ v = OFF \/ (v = 50 /\ \E c \in DOMAIN Pwm : l = Pwm[c])

Drives(s, l) == \E a \in Range(s) : a.op = "put" /\ a.line = l

Level == 0 .. 16 \cup {50, 100, 181, 193}

(***************************************************************************)
(* At step i of script s, begun with the levels lv, line l is not ON.      *)
(***************************************************************************)
SilentAt(lv, s, i, l) ==
    \/ lv[l] # ON /\ \A k \in 1 .. i - 1 : s[k] # Put(l, ON)
    \/ \E j \in 1 .. i - 1 : s[j] = Put(l, OFF) /\ \A k \in j + 1 .. i - 1 : s[k] # Put(l, ON)

\* Whenever the script makes a transceiver transmit, no other one does.
OneTalks(lv, s) ==
    \A i \in DOMAIN s, x, y \in Transceiver :
        s[i] = Put(x.rd, ON) /\ y.rd # x.rd => SilentAt(lv, s, i, y.rd)

Quiet(lv) == \A x \in Transceiver : lv[x.rd] # ON

-----------------------------------------------------------------------------
(***************************************************************************)
(* What a script s and the rest it ends with have to be.                   *)
(***************************************************************************)
WellMade(s, rest) ==
    /\ s \in Seq(Range(s)) /\ s # << >> /\ s[Len(s)].op = "expect"
    /\ \A a \in Range(s) :
        a.op = "put" => /\ a = Put(a.line, a.val) /\ a.val \in Level
                        /\ a.line \in Exempt \/ Drives(rest, a.line)
    /\ rest \in Seq(Range(rest))
    /\ \A a \in Range(rest) :
        /\ a.op = "put" /\ a = Put(a.line, a.val) /\ a.val \in Level
        /\ Resting(a.line, a.val)
        /\ a.line \in I2cPin \/ a.val # ON
        /\ Drives(s, a.line) \/ a.line \in {x.rd : x \in Transceiver} \cup {x.tx : x \in Transceiver}
    /\ \A lv : Quiet(lv) => OneTalks(lv, s)

LEMMA LoopbackWellMade ==
    ASSUME NEW c
    PROVE  WellMade(LoopbackScript(c), << Put(Loopback[c].drive, OFF) >>)
<1> DEFINE l == Loopback[c].drive
           e0 == Expect({<<Loopback[c].sense, 0>>})
           e1 == Expect({<<Loopback[c].sense, 1>>})
           s == << Put(l, OFF), e0, Put(l, ON), e1 >>
           rest == << Put(l, OFF) >>
<1>1. /\ e0.op = "expect" /\ e1.op = "expect"
      /\ Put(l, OFF).op = "put" /\ Put(l, OFF).line = l /\ Put(l, OFF).val = OFF
      /\ Put(l, ON).op = "put" /\ Put(l, ON).line = l /\ Put(l, ON).val = ON
  BY DEF Put, Expect
<1> HIDE DEF l, e0, e1
<1>2. WellMade(s, rest)
  <2>1. s \in Seq(Range(s)) /\ s # << >> /\ s[Len(s)].op = "expect"
    BY <1>1 DEF Range
  <2>2. \A a \in Range(s) : a.op = "put" => /\ a = Put(a.line, a.val) /\ a.val \in Level
                                           /\ Drives(rest, a.line)
    BY <1>1 DEF Range, Drives, Level, OFF, ON
  <2>3. /\ rest \in Seq(Range(rest))
        /\ \A a \in Range(rest) : /\ a.op = "put" /\ a = Put(a.line, a.val)
                                 /\ a.val \in Level /\ Resting(a.line, a.val)
                                 /\ a.val # ON /\ Drives(s, a.line)
    BY <1>1 DEF Range, Drives, Level, Resting, OFF, ON
  <2>4. ASSUME NEW lv, Quiet(lv), NEW i \in DOMAIN s, NEW x \in Transceiver, NEW y \in Transceiver,
               s[i] = Put(x.rd, ON), y.rd # x.rd
        PROVE  SilentAt(lv, s, i, y.rd)
    <3>1. i = 3 /\ l = x.rd
      BY <2>4, <1>1 DEF Put, Expect, ON, OFF
    <3>2. \A k \in 1 .. i - 1 : s[k] # Put(y.rd, ON)
      BY <3>1, <1>1 DEF Put, ON, OFF
    <3> QED BY <2>4, <3>2 DEF SilentAt, Quiet
  <2> QED BY <2>1, <2>2, <2>3, <2>4 DEF WellMade, OneTalks
<1> QED BY <1>2 DEF LoopbackScript, l, e0, e1

LEMMA AdcpWellMade ==
    ASSUME NEW c \in DOMAIN Pwm
    PROVE  WellMade(AdcpScript(c), << Put(Pwm[c], 50) >>)
<1> DEFINE l == Pwm[c]
           e0 == Expect({<<Adc[c], 0>>})
           e1 == Expect({<<Adc[c], 50>>})
           e2 == Expect({<<Adc[c], 100>>})
           s == << Put(l, 0), e0, Put(l, 50), e1, Put(l, 100), e2 >>
           rest == << Put(l, 50) >>
<1>1. /\ e0.op = "expect" /\ e1.op = "expect" /\ e2.op = "expect"
      /\ \A v : Put(l, v).op = "put" /\ Put(l, v).line = l /\ Put(l, v).val = v
  BY DEF Put, Expect
<1>2. Resting(l, 50)
  BY DEF Resting
<1> HIDE DEF l, e0, e1, e2
<1>3. WellMade(s, rest)
  <2>1. s \in Seq(Range(s)) /\ s # << >> /\ s[Len(s)].op = "expect"
    BY <1>1 DEF Range
  <2>2. \A a \in Range(s) : a.op = "put" => /\ a = Put(a.line, a.val) /\ a.val \in Level
                                           /\ Drives(rest, a.line)
    BY <1>1 DEF Range, Drives, Level
  <2>3. /\ rest \in Seq(Range(rest))
        /\ \A a \in Range(rest) : /\ a.op = "put" /\ a = Put(a.line, a.val)
                                 /\ a.val \in Level /\ Resting(a.line, a.val)
                                 /\ a.val # ON /\ Drives(s, a.line)
    BY <1>1, <1>2 DEF Range, Drives, Level, ON
  <2>4. \A i \in DOMAIN s, x \in Transceiver : s[i] # Put(x.rd, ON)
    BY <1>1 DEF Put, ON
  <2> QED BY <2>1, <2>2, <2>3, <2>4 DEF WellMade, OneTalks
<1> QED BY <1>3 DEF AdcpScript, l, e0, e1, e2

LEMMA WiredAndWellMade ==
    WellMade(WiredAndScript, << Put("BP_I2C_SDA", ON), Put("BP_I2C_SCL", ON) >>)
<1> DEFINE rest == << Put("BP_I2C_SDA", ON), Put("BP_I2C_SCL", ON) >>
           s == WiredAndScript
<1>1. Len(s) = 11 /\ DOMAIN s = 1 .. 11 /\ s # << >>
  BY DEF WiredAndScript
<1>2. \A i \in DOMAIN s : s[i].op = "put" => /\ s[i] = Put(s[i].line, s[i].val)
                                              /\ s[i].line \in I2cPin /\ s[i].val \in {OFF, ON}
  BY DEF WiredAndScript, Put, Expect, I2cPin, OFF, ON
<1>3. s \in Seq(Range(s)) /\ s[Len(s)].op = "expect"
  BY DEF WiredAndScript, Range, Expect
<1>4. /\ rest \in Seq(Range(rest))
      /\ \A a \in Range(rest) : /\ a.op = "put" /\ a = Put(a.line, a.val)
                               /\ a.val \in Level /\ a.line \in I2cPin
  BY DEF Range, Put, Level, ON, I2cPin
<1>5. s[1] = Put("BP_I2C_SDA", OFF) /\ s[2] = Put("BP_I2C_SCL", OFF)
  BY DEF WiredAndScript
<1>6. \A a \in Range(rest) : Drives(s, a.line)
  BY <1>1, <1>5 DEF Range, Drives, Put
<1>7. \A i \in DOMAIN s, x \in Transceiver : s[i] # Put(x.rd, ON)
  BY <1>2 DEF Transceiver, Put, I2cPin
<1> HIDE DEF s, rest
<1>8. WellMade(s, rest)
  <2>1. s # << >> /\ \A a \in Range(s) :
            a.op = "put" => a = Put(a.line, a.val) /\ a.val \in Level /\ a.line \in Exempt
    <3>1. ASSUME NEW i \in DOMAIN s, s[i].op = "put"
          PROVE  s[i] = Put(s[i].line, s[i].val) /\ s[i].val \in Level /\ s[i].line \in Exempt
      BY <3>1, <1>2 DEF Exempt, Level, OFF, ON
    <3> QED BY <1>1, <3>1 DEF Range
  <2>2. \A a \in Range(rest) : Resting(a.line, a.val)
    BY <1>4 DEF Exempt, Resting
  <2> QED BY <2>1, <2>2, <1>3, <1>4, <1>6, <1>7 DEF WellMade, OneTalks
<1> QED BY <1>8 DEF s, rest

\* The bus test: one transceiver is put in reception before the next transmits.
LEMMA Rs485WellMade ==
    WellMade(Rs485Script,
             << Put("RS485_TX", OFF), Put("RS485_RD", OFF), Put("UART_M3_TX", OFF),
                Put("UART_M3_RD", OFF), Put("SCITXDA", OFF), Put("SCI_RD", OFF) >>)
<1> DEFINE s == Rs485Script
           rest == << Put("RS485_TX", OFF), Put("RS485_RD", OFF), Put("UART_M3_TX", OFF),
                      Put("UART_M3_RD", OFF), Put("SCITXDA", OFF), Put("SCI_RD", OFF) >>
           BusLine == {"RS485_TX", "RS485_RD", "UART_M3_TX", "UART_M3_RD", "SCITXDA", "SCI_RD"}
<1>1. Len(s) = 19 /\ DOMAIN s = 1 .. 19 /\ s # << >>
  BY DEF Rs485Script
<1>2. \A i \in DOMAIN s : s[i].op = "put" => /\ s[i] = Put(s[i].line, s[i].val)
                                              /\ s[i].line \in BusLine /\ s[i].val \in {OFF, ON}
  BY DEF Rs485Script, Put, Expect, OFF, ON
<1>3. s \in Seq(Range(s)) /\ s[Len(s)].op = "expect"
  <2>1. s \in Seq(Range(s))
    BY DEF Rs485Script, Range
  <2>2. s[19].op = "expect"
    BY DEF Rs485Script, Expect
  <2> QED BY <1>1, <2>1, <2>2
<1>4. /\ rest \in Seq(Range(rest))
      /\ \A a \in Range(rest) : /\ a.op = "put" /\ a = Put(a.line, a.val)
                               /\ a.val = OFF /\ a.line \in BusLine
      /\ \A l \in BusLine : Drives(rest, l)
  <2>1. Len(rest) = 6 /\ DOMAIN rest = 1 .. 6 /\ rest \in Seq(Range(rest))
    BY DEF Range
  <2>2. /\ rest[1] = Put("RS485_TX", OFF) /\ rest[2] = Put("RS485_RD", OFF)
        /\ rest[3] = Put("UART_M3_TX", OFF) /\ rest[4] = Put("UART_M3_RD", OFF)
        /\ rest[5] = Put("SCITXDA", OFF) /\ rest[6] = Put("SCI_RD", OFF)
    OBVIOUS
  <2> HIDE DEF rest
  <2>3. \A i \in 1 .. 6 : /\ rest[i].op = "put" /\ rest[i] = Put(rest[i].line, rest[i].val)
                        /\ rest[i].val = OFF /\ rest[i].line \in BusLine
    BY <2>2 DEF Put, OFF
  <2>4. \A l \in BusLine : \E i \in 1 .. 6 : rest[i].line = l
    BY <2>2 DEF Put
  <2> QED BY <2>1, <2>3, <2>4 DEF Range, Drives
<1>5. BusLine = {x.rd : x \in Transceiver} \cup {x.tx : x \in Transceiver}
  BY DEF Transceiver
<1>6. \A l : /\ l = "RS485_RD" => s[8] = Put(l, OFF)
             /\ l = "UART_M3_RD" => s[14] = Put(l, OFF)
  BY DEF Rs485Script
<1>7. \A i \in DOMAIN s : \A l : s[i] = Put(l, ON) =>
          /\ l = "RS485_RD" => i = 1
          /\ l = "UART_M3_RD" => i = 9
          /\ l = "SCI_RD" => i = 15
  BY DEF Rs485Script, Put, Expect, OFF, ON
<1>8. ASSUME NEW lv, Quiet(lv), NEW i \in DOMAIN s, NEW x \in Transceiver, NEW y \in Transceiver,
             s[i] = Put(x.rd, ON), y.rd # x.rd
      PROVE  SilentAt(lv, s, i, y.rd)
  <2>1. \A z \in Transceiver : z.rd \in {"RS485_RD", "UART_M3_RD", "SCI_RD"}
    BY DEF Transceiver
  <2>2. lv[y.rd] # ON
    BY <1>8 DEF Quiet
  <2>3. CASE y.rd = "RS485_RD" /\ i > 8
    <3>1. 8 \in 1 .. i - 1 /\ s[8] = Put(y.rd, OFF)
      BY <1>1, <1>6, <2>3
    <3>2. ASSUME NEW k \in 8 + 1 .. i - 1, s[k] = Put(y.rd, ON) PROVE FALSE
      <4>1. k \in DOMAIN s /\ k > 8
        BY <1>1
      <4>2. k = 1
        BY <1>7, <3>2, <4>1, <2>3
      <4> QED BY <4>1, <4>2
    <3> QED BY <3>1, <3>2 DEF SilentAt
  <2>4. CASE y.rd = "UART_M3_RD" /\ i > 14
    <3>1. 14 \in 1 .. i - 1 /\ s[14] = Put(y.rd, OFF)
      BY <1>1, <1>6, <2>4
    <3>2. ASSUME NEW k \in 14 + 1 .. i - 1, s[k] = Put(y.rd, ON) PROVE FALSE
      <4>1. k \in DOMAIN s /\ k > 14
        BY <1>1
      <4>2. k = 9
        BY <1>7, <3>2, <4>1, <2>4
      <4> QED BY <4>1, <4>2
    <3> QED BY <3>1, <3>2 DEF SilentAt
  <2>5. CASE \A k \in 1 .. i - 1 : s[k] # Put(y.rd, ON)
    BY <2>2, <2>5 DEF SilentAt
  <2>6. ASSUME NEW k \in 1 .. i - 1, s[k] = Put(y.rd, ON)
        PROVE  (y.rd = "RS485_RD" /\ i > 8) \/ (y.rd = "UART_M3_RD" /\ i > 14)
    <3>1. k \in DOMAIN s /\ k < i /\ i \in 1 .. 19
      BY <1>1
    <3>2. x.rd = "RS485_RD" => i = 1
      BY <1>7, <1>8
    <3>3. x.rd = "UART_M3_RD" => i = 9
      BY <1>7, <1>8
    <3>4. x.rd = "SCI_RD" => i = 15
      BY <1>7, <1>8
    <3>5. /\ y.rd = "RS485_RD" => k = 1
          /\ y.rd = "UART_M3_RD" => k = 9
          /\ y.rd = "SCI_RD" => k = 15
      BY <1>7, <2>6, <3>1
    <3> QED BY <3>1, <3>2, <3>3, <3>4, <3>5, <2>1, <1>8
  <2> QED BY <2>3, <2>4, <2>5, <2>6
<1> HIDE DEF rest, BusLine
<1>9. WellMade(s, rest)
  <2>1. s # << >> /\ \A a \in Range(s) :
            a.op = "put" => /\ a = Put(a.line, a.val) /\ a.val \in Level /\ Drives(rest, a.line)
    <3>1. ASSUME NEW i \in DOMAIN s, s[i].op = "put"
          PROVE  /\ s[i] = Put(s[i].line, s[i].val) /\ s[i].val \in Level
                 /\ Drives(rest, s[i].line)
      BY <3>1, <1>2, <1>4 DEF Level, OFF, ON
    <3> QED BY <1>1, <3>1 DEF Range
  <2>2. \A a \in Range(rest) : a.val \in Level /\ Resting(a.line, a.val) /\ a.val # ON
    BY <1>4 DEF Level, Resting, OFF, ON
  <2> QED BY <2>1, <2>2, <1>3, <1>4, <1>5, <1>8 DEF WellMade, OneTalks
<1> QED BY <1>9 DEF s, rest

LEMMA PutSays ==
    ASSUME NEW l, NEW v
    PROVE  Put(l, v).op = "put" /\ Put(l, v).line = l /\ Put(l, v).val = v
BY DEF Put

(***************************************************************************)
(* A script that writes n cells of a memory and then reads m times.        *)
(***************************************************************************)
MemoryScript(s, cells, n, m) ==
    /\ s \in Seq(Range(s)) /\ Len(s) = n + m
    /\ \A i \in 1 .. n : s[i] = Put(cells[i], i)
    /\ \A i \in n + 1 .. n + m : s[i] = PatternRead(cells)[1]

LEMMA PatternReadSays ==
    ASSUME NEW cells
    PROVE  /\ PatternRead(cells)[1].op = "expect"
           /\ PatternRead(cells)[1].want = {<<cells[i], i>> : i \in DOMAIN cells}
BY DEF PatternRead, Expect

LEMMA MemoryWellMade ==
    ASSUME NEW n \in 0 .. 7, NEW cells \in [1 .. n -> Cells], NEW m \in Nat \ {0},
           NEW s, MemoryScript(s, cells, n, m)
    PROVE  WellMade(s, << >>)
<1> USE DEF MemoryScript
<1>1. DOMAIN s = 1 .. n + m /\ s # << >> /\ s[Len(s)].op = "expect"
  BY PatternReadSays
<1>2. \A i \in DOMAIN s : s[i].op = "put" =>
          s[i] = Put(s[i].line, s[i].val) /\ s[i].val \in Level /\ s[i].line \in Cells
  <2>1. \A i \in 1 .. n : /\ s[i].val = i /\ s[i].line = cells[i]
                        /\ s[i] = Put(s[i].line, s[i].val)
    BY PutSays
  <2>2. \A i \in 1 .. n : i \in Level /\ cells[i] \in Cells
    BY DEF Level
  <2>3. \A i \in DOMAIN s : i \in 1 .. n \/ i \in n + 1 .. n + m
    BY <1>1
  <2> QED BY <2>1, <2>2, <2>3, PatternReadSays
<1>3. \A a \in Range(s) :
          a.op = "put" => a = Put(a.line, a.val) /\ a.val \in Level /\ a.line \in Cells
  BY <1>2 DEF Range
<1>4. \A i \in DOMAIN s, x \in Transceiver : s[i] # Put(x.rd, ON)
  <2>1. \A x \in Transceiver : x.rd \notin Cells
    BY SMTT(30) DEF Transceiver, Cells, Range, RtcSram, Sdram
  <2> QED BY <1>2, <2>1 DEF Put
<1>5. << >> \in Seq(Range(<< >>)) /\ Range(<< >>) = {}
  BY DEF Range
<1> QED BY <1>1, <1>3, <1>4, <1>5 DEF WellMade, OneTalks, Exempt

LEMMA Joining ==
    ASSUME NEW p, NEW r, p \in Seq(Range(p)), r \in Seq(Range(r))
    PROVE  /\ p \o r \in Seq(Range(p \o r)) /\ Len(p \o r) = Len(p) + Len(r)
           /\ \A i \in 1 .. Len(p) : (p \o r)[i] = p[i]
           /\ \A i \in Len(p) + 1 .. Len(p) + Len(r) : (p \o r)[i] = r[i - Len(p)]
<1>1. /\ Len(p \o r) = Len(p) + Len(r)
      /\ \A i \in 1 .. Len(p) : (p \o r)[i] = p[i]
      /\ \A i \in Len(p) + 1 .. Len(p) + Len(r) : (p \o r)[i] = r[i - Len(p)]
      /\ p \o r \in Seq(Range(p) \cup Range(r))
  OBVIOUS
<1>2. DOMAIN (p \o r) = 1 .. Len(p \o r)
  BY <1>1
<1>3. \A i \in 1 .. Len(p \o r) : (p \o r)[i] \in Range(p \o r)
  BY <1>2 DEF Range
<1> QED BY <1>1, <1>2, <1>3

LEMMA PatternWrites ==
    ASSUME NEW n \in Nat, NEW cells \in [1 .. n -> Cells]
    PROVE  MemoryScript(Pattern(cells), cells, n, 0)
<1>1. Pattern(cells) = [i \in 1 .. n |-> Put(cells[i], i)]
  BY DEF Pattern
<1>2. \A i \in 1 .. n : Put(cells[i], i) \in Range(Pattern(cells))
  BY <1>1 DEF Range
<1>3. Pattern(cells) \in Seq(Range(Pattern(cells))) /\ Len(Pattern(cells)) = n
  BY <1>1, <1>2
<1> QED BY <1>1, <1>3 DEF MemoryScript

LEMMA ReadingFollows ==
    ASSUME NEW n \in Nat, NEW m \in Nat, NEW cells, NEW s, MemoryScript(s, cells, n, m)
    PROVE  MemoryScript(s \o PatternRead(cells), cells, n, m + 1)
<1>1. ASSUME NEW r, r \in Seq(Range(r)), Len(r) = 1, r[1] = PatternRead(cells)[1]
      PROVE  MemoryScript(s \o r, cells, n, m + 1)
  <2>1. s \in Seq(Range(s)) /\ Len(s) = n + m
    BY DEF MemoryScript
  <2>2. /\ s \o r \in Seq(Range(s \o r)) /\ Len(s \o r) = Len(s) + Len(r)
        /\ \A i \in 1 .. Len(s) : (s \o r)[i] = s[i]
        /\ \A i \in Len(s) + 1 .. Len(s) + Len(r) : (s \o r)[i] = r[i - Len(s)]
    BY <1>1, <2>1, Joining
  <2>3. ASSUME NEW u, /\ u \in Seq(Range(u)) /\ Len(u) = Len(s) + Len(r)
                      /\ \A i \in 1 .. Len(s) : u[i] = s[i]
                      /\ \A i \in Len(s) + 1 .. Len(s) + Len(r) : u[i] = r[i - Len(s)]
        PROVE  MemoryScript(u, cells, n, m + 1)
    <3>1. \A i \in n + m + 1 .. n + m + 1 : u[i] = r[i - (n + m)] /\ i - (n + m) = 1
      BY <1>1, <2>1, <2>3
    <3>2. \A i \in 1 .. n : u[i] = Put(cells[i], i)
      BY <1>1, <2>1, <2>3 DEF MemoryScript
    <3>3. \A i \in n + 1 .. n + m : u[i] = PatternRead(cells)[1]
      BY <1>1, <2>1, <2>3 DEF MemoryScript
    <3> QED BY <1>1, <2>1, <2>3, <3>1, <3>2, <3>3 DEF MemoryScript
  <2> QED BY <2>2, <2>3
<1>2. /\ PatternRead(cells) \in Seq(Range(PatternRead(cells)))
      /\ Len(PatternRead(cells)) = 1
  BY DEF PatternRead, Range, Expect
<1> QED BY <1>1, <1>2

LEMMA RtcScript ==
    RtcSram \in [1 .. 7 -> Cells] /\ MemoryScript(RTCAccessTest, RtcSram, 7, 1)
<1>1. RtcSram \in [1 .. 7 -> Cells]
  BY DEF RtcSram, Cells, Range
<1>2. MemoryScript(Pattern(RtcSram), RtcSram, 7, 0)
  BY <1>1, PatternWrites
<1>3. MemoryScript(RTCAccessTest, RtcSram, 7, 0 + 1)
  BY <1>2, ReadingFollows DEF RTCAccessTest
<1> QED BY <1>1, <1>3

LEMMA RtcWellMade == WellMade(RTCAccessTest, << >>)
BY RtcScript, MemoryWellMade

LEMMA RamScript ==
    Sdram \in [1 .. 4 -> Cells] /\ MemoryScript(sdram_read_write, Sdram, 4, 3)
<1>1. Sdram \in [1 .. 4 -> Cells]
  BY DEF Sdram, Cells, Range
<1>2. MemoryScript(Pattern(Sdram), Sdram, 4, 0)
  BY <1>1, PatternWrites
<1>3. MemoryScript(Pattern(Sdram) \o PatternRead(Sdram), Sdram, 4, 0 + 1)
  BY <1>2, ReadingFollows
<1>4. MemoryScript(Pattern(Sdram) \o PatternRead(Sdram) \o PatternRead(Sdram), Sdram, 4, 1 + 1)
  BY <1>3, ReadingFollows
<1>5. MemoryScript(sdram_read_write, Sdram, 4, 2 + 1)
  BY <1>4, ReadingFollows DEF sdram_read_write
<1> QED BY <1>1, <1>5

LEMMA RamWellMade == WellMade(sdram_read_write, << >>)
BY RamScript, MemoryWellMade

\* The scripts that only read.
LEMMA ReadingWellMade ==
    ASSUME NEW want
    PROVE  WellMade(<< Expect(want) >>, << >>)
<1>1. /\ << Expect(want) >> \in Seq(Range(<< Expect(want) >>))
      /\ \A a \in Range(<< Expect(want) >>) : a.op = "expect"
      /\ << Expect(want) >>[1].op = "expect"
      /\ \A i \in DOMAIN << Expect(want) >> : << Expect(want) >>[i].op = "expect"
  BY DEF Range, Expect
<1>2. << >> \in Seq(Range(<< >>)) /\ Range(<< >>) = {}
  BY DEF Range
<1>3. \A i \in DOMAIN << Expect(want) >> : \A x : << Expect(want) >>[i] # Put(x.rd, ON)
  BY <1>1 DEF Put
<1> QED BY <1>1, <1>2, <1>3 DEF WellMade, OneTalks

(***************************************************************************)
(* Every test of the jig is well made.                                     *)
(***************************************************************************)
LEMMA ScriptsWellMade == ASSUME NEW t \in JigTest PROVE WellMade(Script(t), Rest(t))
<1> DEFINE k == t[1]
<1>1. CASE k = "LOOPBACK_TEST"
  <2>1. CASE t = <<"LOOPBACK_TEST", 29>>
    BY <2>1, ReadingWellMade DEF Script, Rest, OneHandler
  <2>2. CASE t = <<"LOOPBACK_TEST", 32>>
    BY <2>2, WiredAndWellMade DEF Script, Rest, OneHandler
  <2>3. CASE t # <<"LOOPBACK_TEST", 29>> /\ t # <<"LOOPBACK_TEST", 32>>
    <3>1. Script(t) = LoopbackScript(t[2]) /\ Rest(t) = << Put(Loopback[t[2]].drive, OFF) >>
      BY <1>1, <2>3 DEF Script, Rest, OneHandler
    <3> QED BY <3>1, LoopbackWellMade
  <2> QED BY <2>1, <2>2, <2>3
<1>2. CASE k = "ADCP_TEST"
  <2>1. t[2] \in DOMAIN Pwm
    BY <1>2 DEF JigTest, OneHandler
  <2>2. Script(t) = AdcpScript(t[2]) /\ Rest(t) = << Put(Pwm[t[2]], 50) >>
    BY <1>2 DEF Script, Rest, OneHandler
  <2> QED BY <2>1, <2>2, AdcpWellMade
<1>3. CASE k = "RS485_TEST"
  <2>1. Script(t) = Rs485Script
    BY <1>3 DEF Script
  <2>2. Rest(t) = << Put("RS485_TX", OFF), Put("RS485_RD", OFF), Put("UART_M3_TX", OFF),
                     Put("UART_M3_RD", OFF), Put("SCITXDA", OFF), Put("SCI_RD", OFF) >>
    BY <1>3 DEF Rest, OneHandler
  <2> QED BY <2>1, <2>2, Rs485WellMade
<1>4. CASE k \in OneHandler
  <2>1. Rest(t) = << >>
    BY <1>4 DEF Rest, OneHandler
  <2>2. CASE k = "RTC_TEST"
    <3>1. Script(t) = RTCAccessTest
      BY <2>2 DEF Script
    <3> QED BY <2>1, <3>1, RtcWellMade
  <2>3. CASE k = "RAM_TEST"
    <3>1. Script(t) = sdram_read_write
      BY <2>3 DEF Script
    <3> QED BY <2>1, <3>1, RamWellMade
  <2>4. CASE k = "EXIO_TEST" \/ k = "ISO_PS_TEST"
    BY <2>1, <2>4, ReadingWellMade
       DEF Script, ExIoTestRoutine, IsoPowerSupplyLoopBackTest, OneHandler
  <2> QED BY <1>4, <2>2, <2>3, <2>4 DEF OneHandler
<1> QED BY <1>1, <1>2, <1>3, <1>4 DEF JigTest

-----------------------------------------------------------------------------
(***************************************************************************)
(* Types.                                                                  *)
(***************************************************************************)
LEMMA LinesDriven ==
    ASSUME NEW t \in Test
    PROVE  /\ \A a \in Range(Script(t)) : a.op = "put" => a.line \in Line
           /\ \A a \in Range(Rest(t)) : a.line \in Line
<1>1. t \in JigTest
  BY CampaignAssumption DEF Test
<1>2. WellMade(Script(t), Rest(t))
  BY <1>1, ScriptsWellMade
<1>3. \A a \in Range(Script(t)) : a.op = "put" => a.line \in Driven(t)
  BY DEF Range, Driven, Puts
<1>4. Driven(t) \subseteq Line
  BY DEF Line
<1>5. \A l : Drives(Script(t), l) => l \in Line
  BY <1>3, <1>4 DEF Drives
<1>6. {x.rd : x \in Transceiver} \cup {x.tx : x \in Transceiver} \subseteq Line
  BY DEF Line
<1> QED BY <1>2, <1>3, <1>4, <1>5, <1>6 DEF WellMade

LEMMA NoTestIsIdle == Idle \notin Test
<1>1. \A t \in JigTest : t[1] \in OneHandler \cup {"RS485_TEST", "LOOPBACK_TEST", "ADCP_TEST"}
  BY DEF JigTest
<1>2. Idle[1] \notin OneHandler \cup {"RS485_TEST", "LOOPBACK_TEST", "ADCP_TEST"}
  BY DEF Idle, OneHandler
<1>3. Test \subseteq JigTest
  BY CampaignAssumption DEF Test
<1> QED BY <1>1, <1>2, <1>3

-----------------------------------------------------------------------------
(***************************************************************************)
(* The bus.  A step of the script keeps to one transmitter: what it turns  *)
(* on is alone, and what comes later in the script still will be.          *)
(***************************************************************************)
OneTransmits(lv) ==
    \A x, y \in Transceiver : lv[x.rd] = ON /\ lv[y.rd] = ON => x.rd = y.rd

LEMMA PutKeepsBus ==
    ASSUME NEW S, NEW s \in Seq(S), s # << >>, NEW lv, NEW l, NEW v, NEW lw,
           s[1] = Put(l, v), OneTalks(lv, s), OneTransmits(lv),
           \A x \in Transceiver : lw[x.rd] = IF x.rd = l THEN v ELSE lv[x.rd]
    PROVE  OneTalks(lw, Tail(s)) /\ OneTransmits(lw)
<1>1. OneTransmits(lw)
  <2>1. SUFFICES ASSUME NEW x \in Transceiver, NEW y \in Transceiver, l = x.rd, v = ON, y.rd # x.rd
                 PROVE  lv[y.rd] # ON
    BY DEF OneTransmits
  <2>2. 1 \in DOMAIN s /\ s[1] = Put(x.rd, ON)
    BY <2>1
  <2>3. SilentAt(lv, s, 1, y.rd)
    BY <2>1, <2>2 DEF OneTalks
  <2> QED BY <2>3 DEF SilentAt
<1>2. OneTalks(lw, Tail(s))
  <2> SUFFICES ASSUME NEW i \in DOMAIN Tail(s), NEW x \in Transceiver, NEW y \in Transceiver,
                      Tail(s)[i] = Put(x.rd, ON), y.rd # x.rd
               PROVE  SilentAt(lw, Tail(s), i, y.rd)
    BY DEF OneTalks
  <2>1. /\ i + 1 \in DOMAIN s /\ i \in Nat \ {0} /\ Tail(s)[i] = s[i + 1]
        /\ \A k \in 1 .. i - 1 : Tail(s)[k] = s[k + 1] /\ k + 1 \in 1 .. (i + 1) - 1
    OBVIOUS
  <2>2. SilentAt(lv, s, i + 1, y.rd)
    BY <2>1 DEF OneTalks
  <2>3. CASE lv[y.rd] # ON /\ \A k \in 1 .. (i + 1) - 1 : s[k] # Put(y.rd, ON)
    <3>1. s[1] # Put(y.rd, ON)
      BY <2>1, <2>3
    <3>2. lw[y.rd] # ON
      BY <2>3, <3>1
    <3> QED BY <2>1, <2>3, <3>2 DEF SilentAt
  <2>4. ASSUME NEW j \in 1 .. (i + 1) - 1, s[j] = Put(y.rd, OFF),
               \A k \in j + 1 .. (i + 1) - 1 : s[k] # Put(y.rd, ON)
        PROVE  SilentAt(lw, Tail(s), i, y.rd)
    <3>1. \A k \in 1 .. i - 1 : k + 1 >= j + 1 => Tail(s)[k] # Put(y.rd, ON)
      BY <2>1, <2>4
    <3>2. CASE j = 1
      <4>1. l = y.rd /\ v = OFF
        BY <2>4, <3>2, PutSays
      <4>2. lw[y.rd] # ON
        BY <4>1 DEF OFF, ON
      <4> QED BY <2>1, <3>1, <3>2, <4>2 DEF SilentAt
    <3>3. CASE j # 1
      <4>1. j - 1 \in 1 .. i - 1 /\ Tail(s)[j - 1] = Put(y.rd, OFF)
        BY <2>1, <2>4, <3>3
      <4>2. \A k \in (j - 1) + 1 .. i - 1 : Tail(s)[k] # Put(y.rd, ON)
        BY <2>1, <3>1, <4>1
      <4> QED BY <4>1, <4>2 DEF SilentAt
    <3> QED BY <3>2, <3>3
  <2> QED BY <2>2, <2>3, <2>4 DEF SilentAt
<1> QED BY <1>1, <1>2

LEMMA ReadKeepsBus ==
    ASSUME NEW S, NEW s \in Seq(S), s # << >>, NEW lv, s[1].op = "expect", OneTalks(lv, s)
    PROVE  OneTalks(lv, Tail(s))
<1> SUFFICES ASSUME NEW i \in DOMAIN Tail(s), NEW x \in Transceiver, NEW y \in Transceiver,
                    Tail(s)[i] = Put(x.rd, ON), y.rd # x.rd
             PROVE  SilentAt(lv, Tail(s), i, y.rd)
  BY DEF OneTalks
<1>1. /\ i + 1 \in DOMAIN s /\ i \in Nat \ {0} /\ Tail(s)[i] = s[i + 1]
      /\ \A k \in 1 .. i - 1 : Tail(s)[k] = s[k + 1] /\ k + 1 \in 1 .. (i + 1) - 1
  OBVIOUS
<1>2. SilentAt(lv, s, i + 1, y.rd)
  BY <1>1 DEF OneTalks
<1>3. CASE lv[y.rd] # ON /\ \A k \in 1 .. (i + 1) - 1 : s[k] # Put(y.rd, ON)
  BY <1>1, <1>3 DEF SilentAt
<1>4. ASSUME NEW j \in 1 .. (i + 1) - 1, s[j] = Put(y.rd, OFF),
             \A k \in j + 1 .. (i + 1) - 1 : s[k] # Put(y.rd, ON)
      PROVE  SilentAt(lv, Tail(s), i, y.rd)
  <2>1. j # 1
    BY <1>4, PutSays
  <2>2. j - 1 \in 1 .. i - 1 /\ Tail(s)[j - 1] = Put(y.rd, OFF)
    BY <1>1, <1>4, <2>1
  <2>3. \A k \in (j - 1) + 1 .. i - 1 : Tail(s)[k] # Put(y.rd, ON)
    BY <1>1, <1>4, <2>2
  <2> QED BY <2>2, <2>3 DEF SilentAt
<1> QED BY <1>2, <1>3, <1>4 DEF SilentAt

\* What is written in the end turns nothing on.
LEMMA RestIsQuiet == ASSUME NEW t \in Test, NEW lv PROVE OneTalks(lv, Rest(t))
<1>1. WellMade(Script(t), Rest(t))
  BY ScriptsWellMade, CampaignAssumption DEF Test
<1>2. ASSUME NEW i \in DOMAIN Rest(t), NEW x \in Transceiver, Rest(t)[i] = Put(x.rd, ON)
      PROVE  FALSE
  <2>1. Rest(t)[i] \in Range(Rest(t))
    BY DEF Range
  <2>2. Rest(t)[i].line = x.rd /\ Rest(t)[i].val = ON
    BY <1>2, PutSays
  <2>3. x.rd \in I2cPin
    BY <1>1, <2>1, <2>2 DEF WellMade
  <2> QED BY <2>3 DEF Transceiver, I2cPin
<1> QED BY <1>2 DEF OneTalks

-----------------------------------------------------------------------------
(***************************************************************************)
(* The handler.  A test that runs has a part of its script before it, or a *)
(* part of what it writes in the end; lines that are not at rest are among *)
(* those that will be written in the end.                                  *)
(***************************************************************************)
NoTestRuns == run = Idle /\ step = << >>

Testing ==
    /\ run \in Test /\ step \in Seq(Range(Script(run)))
    /\ step # << >> /\ step[Len(step)].op = "expect"

Concluding == run \in Test /\ step \in Seq(Range(Rest(run)))

ComesToRest ==
    \A l \in Line : \/ Resting(l, level[l])
                    \/ Testing /\ Drives(Rest(run), l)
                    \/ Concluding /\ Drives(step, l)

LineInv ==
    /\ level \in [Line -> Level]
    /\ NoTestRuns \/ Testing \/ Concluding
    /\ ComesToRest
    /\ OneTalks(level, step) /\ OneTransmits(level)

LEMMA InitLines == Init => LineInv
<1> SUFFICES ASSUME Init PROVE LineInv
  OBVIOUS
<1>1. level \in [Line -> Level]
  BY DEF Init, Level, OFF
<1>2. NoTestRuns
  BY DEF Init, NoTestRuns
<1>3. \A l \in Line : l \in AtBoot \/ level[l] = OFF
  BY DEF Init, AtBoot, Configured
<1>4. \A x \in Transceiver : x.rd \in Line /\ x.rd \notin AtBoot
  BY DEF Line, Transceiver, AtBoot, Configured, DcdcOn
<1>5. OneTransmits(level)
  BY <1>3, <1>4 DEF OneTransmits, OFF, ON
<1>6. OneTalks(level, step)
  BY <1>2 DEF NoTestRuns, OneTalks
<1> QED BY <1>1, <1>2, <1>3, <1>5, <1>6 DEF LineInv, ComesToRest, Resting, Exempt

LEMMA TestsAreWellMade == ASSUME NEW t \in Test PROVE WellMade(Script(t), Rest(t))
BY ScriptsWellMade, CampaignAssumption DEF Test

\* TaskCheck calls a handler.
LEMMA StartLines == LineInv /\ Start => LineInv'
<1> SUFFICES ASSUME LineInv, NEW k \in raised,
                    run = Idle, UNCHANGED level,
                    run' = IF <<k, channel[k]>> \in Test THEN <<k, channel[k]>> ELSE Idle,
                    step' = IF <<k, channel[k]>> \in Test THEN Script(<<k, channel[k]>>) ELSE << >>
             PROVE  LineInv'
  BY DEF Start
<1> DEFINE t == <<k, channel[k]>>
<1>1. \A l \in Line : Resting(l, level[l])
  BY NoTestIsIdle DEF LineInv, ComesToRest, Testing, Concluding
<1>2. CASE t \notin Test
  <2>1. NoTestRuns'
    BY <1>2 DEF NoTestRuns
  <2>2. OneTalks(level, << >>)
    BY DEF OneTalks
  <2>3. (OneTalks(level, step) /\ OneTransmits(level))'
    BY <1>2, <2>2 DEF LineInv, OneTransmits
  <2> QED BY <1>1, <2>1, <2>3 DEF LineInv, ComesToRest
<1>3. CASE t \in Test
  <2> HIDE DEF t
  <2>1. WellMade(Script(t), Rest(t))
    BY <1>3, TestsAreWellMade
  <2>2. run' = t /\ step' = Script(t)
    BY <1>3 DEF t
  <2>3. Testing'
    BY <1>3, <2>1, <2>2 DEF Testing, WellMade
  <2>4. Quiet(level)
    <3>1. \A x \in Transceiver : x.rd \in Line /\ x.rd \notin Exempt
      BY DEF Line, Transceiver, Exempt, I2cPin, Cells, Range, RtcSram, Sdram, AtBoot, Configured, DcdcOn
    <3> QED BY <1>1, <3>1 DEF Quiet, Resting, OFF, ON
  <2>5. OneTalks(level, Script(t))
    BY <2>1, <2>4 DEF WellMade
  <2>6. (OneTalks(level, step) /\ OneTransmits(level))'
    BY <2>2, <2>5 DEF LineInv, OneTransmits
  <2> QED BY <1>1, <2>3, <2>6 DEF LineInv, ComesToRest
<1> QED BY <1>2, <1>3

LEMMA OneOrMore == \A n \in Nat : n # 0 /\ n # 1 => n > 1 /\ n - 1 # 0
  OBVIOUS

LEMMA TailSays ==
    ASSUME NEW S, NEW s \in Seq(S), s # << >>, Len(s) # 1
    PROVE  Tail(s) \in Seq(S) /\ Tail(s) # << >> /\ Tail(s)[Len(Tail(s))] = s[Len(s)]
<1>0. Len(s) \in Nat /\ Len(s) # 0
  BY EmptySeq
<1>1. Len(s) \in Nat /\ Len(s) > 1 /\ Len(s) - 1 # 0
  BY <1>0, OneOrMore, Zenon
<1>2. Tail(s) \in Seq(S) /\ Len(Tail(s)) = Len(s) - 1
  BY <1>1
<1>3. \A i \in 1 .. Len(s) - 1 : Tail(s)[i] = s[i + 1]
  BY <1>1, <1>2
<1>4. Len(s) - 1 \in 1 .. Len(s) - 1 /\ (Len(s) - 1) + 1 = Len(s)
  BY <1>1
<1>5. Tail(s) # << >>
  <2>1. Len(Tail(s)) # 0 /\ Len(<< >>) = 0
    BY <1>1, <1>2
  <2> QED BY <2>1, Zenon
<1> QED BY <1>2, <1>3, <1>4, <1>5

LEMMA TestGoesOn ==
    ASSUME Testing, Len(step) # 1, step' = Tail(step), run' = run
    PROVE  Testing'
<1>1. /\ Tail(step) \in Seq(Range(Script(run))) /\ Tail(step) # << >>
      /\ Tail(step)[Len(Tail(step))] = step[Len(step)]
  BY TailSays DEF Testing
<1> QED BY <1>1 DEF Testing

\* A line is written.
LEMMA PutLines == LineInv /\ PutLine => LineInv'
<1> SUFFICES ASSUME LineInv, PutLine PROVE LineInv'
  OBVIOUS
<1> DEFINE a == Head(step)
<1>1. /\ step # << >> /\ a.op = "put" /\ step' = Tail(step) /\ run' = run
      /\ level' = [level EXCEPT ![a.line] = a.val]
  BY DEF PutLine
<1>2. run \in Test /\ (Testing \/ Concluding)
  BY <1>1 DEF LineInv, NoTestRuns, Testing, Concluding
<1>3. WellMade(Script(run), Rest(run))
  BY <1>2, TestsAreWellMade
<1>4. a \in Range(Script(run)) \/ (Concluding /\ a \in Range(Rest(run)))
  BY <1>1, <1>2 DEF Testing, Concluding
<1>5. a = Put(a.line, a.val) /\ a.val \in Level /\ a.line \in Line
  BY <1>1, <1>2, <1>3, <1>4, LinesDriven DEF WellMade
<1>6. PICK S : step \in Seq(S)
  BY <1>2 DEF Testing, Concluding
<1>7. step[1] = Put(a.line, a.val) /\ Tail(step) \in Seq(S)
  BY <1>1, <1>5, <1>6
<1>8. level' \in [Line -> Level] /\ \A l \in Line : level'[l] = IF l = a.line THEN a.val ELSE level[l]
  BY <1>1, <1>5 DEF LineInv
<1>9. (OneTalks(level, step) /\ OneTransmits(level))'
  <2>1. \A x \in Transceiver : level'[x.rd] = IF x.rd = a.line THEN a.val ELSE level[x.rd]
    BY <1>8 DEF Line
  <2>2. OneTalks(level', Tail(step)) /\ OneTransmits(level')
    <3>1. OneTalks(level, step) /\ OneTransmits(level) /\ step # << >>
      BY <1>1 DEF LineInv
    <3>2. ASSUME NEW l, NEW v, NEW lw, step[1] = Put(l, v),
                 \A x \in Transceiver : lw[x.rd] = IF x.rd = l THEN v ELSE level[x.rd]
          PROVE  OneTalks(lw, Tail(step)) /\ OneTransmits(lw)
      BY <1>6, <3>1, <3>2, PutKeepsBus
    <3> HIDE DEF a
    <3> QED BY <1>7, <2>1, <3>2
  <2> QED BY <1>1, <2>2 DEF OneTransmits
<1>10. CASE Testing
  <2>1. Testing'
    <3>1. Len(step) # 1
      BY <1>1, <1>6, <1>10 DEF Testing
    <3> QED BY <1>1, <1>10, <3>1, TestGoesOn
  <2>2. ~Concluding
    <3>1. step[Len(step)] \in Range(step) /\ step[Len(step)].op = "expect"
      BY <1>10 DEF Testing, Range
    <3>2. Concluding => step[Len(step)] \in Range(Rest(run))
      BY <1>1 DEF Concluding
    <3> QED BY <1>3, <3>1, <3>2 DEF WellMade
  <2>3. \A l \in Line : Resting(l, level[l]) \/ Drives(Rest(run), l)
    BY <2>2 DEF LineInv, ComesToRest
  <2>4. Resting(a.line, a.val) \/ Drives(Rest(run), a.line)
    BY <1>1, <1>3, <1>4, <2>2 DEF WellMade, Resting
  <2> QED BY <1>1, <1>8, <1>9, <2>1, <2>3, <2>4 DEF LineInv, ComesToRest
<1>11. CASE Concluding
  <2>1. Concluding'
    BY <1>1, <1>2, <1>11 DEF Concluding
  <2>2. \A b \in Range(step) : b \in Range(Rest(run))
    BY <1>11 DEF Concluding, Range
  <2>3. ~Testing
    <3>1. Testing => step[Len(step)] \in Range(step) /\ step[Len(step)].op = "expect"
      BY DEF Testing, Range
    <3> QED BY <1>3, <2>2, <3>1 DEF WellMade
  <2>4. \A l \in Line : Resting(l, level[l]) \/ Drives(step, l)
    BY <2>3 DEF LineInv, ComesToRest
  <2>5. Resting(a.line, a.val)
    BY <1>1, <1>3, <1>11 DEF Concluding, WellMade
  <2>6. ASSUME NEW b \in Range(step), b # a PROVE b \in Range(Tail(step))
    <3>1. PICK i \in DOMAIN step : b = step[i]
      BY DEF Range
    <3>2. i - 1 \in DOMAIN Tail(step) /\ Tail(step)[i - 1] = b
      BY <1>1, <1>6, <2>6, <3>1
    <3> QED BY <3>2 DEF Range
  <2>7. \A l : Drives(step, l) /\ l # a.line => Drives(Tail(step), l)
    BY <2>6 DEF Drives
  <2> QED BY <1>1, <1>8, <1>9, <2>1, <2>4, <2>5, <2>7 DEF LineInv, ComesToRest
<1> QED BY <1>2, <1>10, <1>11

\* A line is read: the script goes on, or the verdict is there.
LEMMA ReadLines == LineInv /\ ReadLine => LineInv'
<1> SUFFICES ASSUME LineInv, ReadLine PROVE LineInv'
  OBVIOUS
<1>1. /\ run # Idle /\ step # << >> /\ Head(step).op = "expect" /\ UNCHANGED level
      /\ \/ Len(step) # 1 /\ step' = Tail(step) /\ run' = run
         \/ step' = Rest(run) /\ run' = IF Rest(run) = << >> THEN Idle ELSE run
  BY DEF ReadLine, Conclude
<1>2. run \in Test /\ (Testing \/ Concluding)
  BY <1>1 DEF LineInv, NoTestRuns, Testing, Concluding
<1>3. WellMade(Script(run), Rest(run))
  BY <1>2, TestsAreWellMade
<1>4. ~Concluding
  BY <1>1, <1>3 DEF Concluding, WellMade
<1>5. \A l \in Line : Resting(l, level[l]) \/ Drives(Rest(run), l)
  BY <1>4 DEF LineInv, ComesToRest
<1>6. CASE Len(step) # 1 /\ step' = Tail(step) /\ run' = run
  <2>1. Testing'
    BY <1>2, <1>4, <1>6, TestGoesOn
  <2>2. OneTalks(level, Tail(step))
    BY <1>1, <1>2, <1>4, ReadKeepsBus DEF LineInv, Testing
  <2>3. (OneTalks(level, step) /\ OneTransmits(level))'
    BY <1>1, <1>6, <2>2 DEF LineInv, OneTransmits
  <2> QED BY <1>1, <1>5, <1>6, <2>1, <2>3 DEF LineInv, ComesToRest
<1>7. CASE step' = Rest(run) /\ run' = IF Rest(run) = << >> THEN Idle ELSE run
  <2>1. OneTalks(level, Rest(run))
    BY <1>2, RestIsQuiet
  <2>2. (OneTalks(level, step) /\ OneTransmits(level))'
    BY <1>1, <1>7, <2>1 DEF LineInv, OneTransmits
  <2>3. CASE Rest(run) = << >>
    <3>1. NoTestRuns' /\ \A l : ~Drives(Rest(run), l)
      BY <1>7, <2>3 DEF NoTestRuns, Drives, Range
    <3> QED BY <1>1, <1>5, <2>2, <3>1 DEF LineInv, ComesToRest
  <2>4. CASE Rest(run) # << >>
    <3>1. Concluding' /\ run' = run
      BY <1>2, <1>3, <1>7, <2>4 DEF Concluding, WellMade
    <3> QED BY <1>1, <1>5, <1>7, <2>2, <3>1 DEF LineInv, ComesToRest
  <2> QED BY <2>3, <2>4
<1> QED BY <1>1, <1>6, <1>7

LEMMA LineStep == LineInv /\ [Next]_vars => LineInv'
<1> SUFFICES ASSUME LineInv, [Next]_vars PROVE LineInv'
  OBVIOUS
<1>1. CASE Start
  BY <1>1, StartLines
<1>2. CASE PutLine
  BY <1>2, PutLines
<1>3. CASE ReadLine
  BY <1>3, ReadLines
<1>4. CASE Return
  <2>1. step = << >> /\ step' = << >> /\ run' = Idle /\ UNCHANGED level
    BY <1>4 DEF Return
  <2>2. NoTestRuns' /\ ~Testing /\ \A l : ~Drives(step, l)
    BY <2>1 DEF NoTestRuns, Testing, Drives, Range
  <2>3. (OneTalks(level, step) /\ OneTransmits(level))'
    BY <2>1 DEF LineInv, OneTalks, OneTransmits
  <2> QED BY <2>1, <2>2, <2>3 DEF LineInv, ComesToRest
<1>5. CASE UNCHANGED <<run, step, level>>
  BY <1>5 DEF LineInv, NoTestRuns, Testing, Concluding, ComesToRest, OneTransmits
<1>6. CASE (\E t \in Askable : Request(t)) \/ BoardChanges \/ UNCHANGED vars
  BY <1>5, <1>6 DEF Request, BoardChanges, vars
<1> QED BY <1>1, <1>2, <1>3, <1>4, <1>6 DEF Next

-----------------------------------------------------------------------------
(***************************************************************************)
(* Between tests every line is at rest, for every set of tests a host may  *)
(* use, whatever the board does and wherever a script ends.                *)
(***************************************************************************)
THEOREM LinesComeToRest == Spec => []LinesAtRest
<1>1. LineInv => LinesAtRest
  BY NoTestIsIdle DEF LineInv, ComesToRest, Testing, Concluding, LinesAtRest, Resting, Exempt
<1> QED BY <1>1, InitLines, LineStep, PTL DEF Spec

(***************************************************************************)
(* Two drivers never meet on the bus, for every set of tests.              *)
(***************************************************************************)
THEOREM BusIsFree == Spec => []NoBusContention
<1>1. LineInv => NoBusContention
  <2> SUFFICES ASSUME LineInv PROVE NoBusContention
    OBVIOUS
  <2> DEFINE on == {x \in Transceiver : level[x.rd] = ON}
  <2>1. \A x, y \in on : x = y
    BY DEF LineInv, OneTransmits, Transceiver
  <2>2. on = {} \/ \E x : on = {x}
    BY <2>1
  <2>3. Cardinality(on) = 0 \/ Cardinality(on) = 1
    BY <2>2, FS_EmptySet, FS_Singleton
  <2> QED BY <2>3 DEF NoBusContention
<1> QED BY <1>1, InitLines, LineStep, PTL DEF Spec

LEMMA TypeStep == TypeOK /\ LineInv /\ LineInv' /\ [Next]_vars => TypeOK'
<1> SUFFICES ASSUME TypeOK, LineInv, LineInv', [Next]_vars PROVE TypeOK'
  OBVIOUS
<1>1. level' \in [Line -> 0 .. 16 \cup {50, 100, 181, 193}]
  BY DEF LineInv, Level
<1>2. run' \in Test \cup {Idle} /\ (run' = Idle => step' = << >>)
  BY NoTestIsIdle DEF LineInv, NoTestRuns, Testing, Concluding
<1>3. CASE \E t \in Askable : Request(t)
  <2>1. PICK t \in Askable : Request(t)
    BY <1>3
  <2>2. t[1] \in Kind /\ t[2] \in Channel
    BY DEF Askable, Kind, Channel
  <2> QED BY <1>1, <1>2, <2>1, <2>2 DEF Request, TypeOK
<1>4. CASE Start
  BY <1>1, <1>2, <1>4 DEF Start, TypeOK
<1>5. CASE PutLine
  BY <1>1, <1>2, <1>5 DEF PutLine, TypeOK
<1>6. CASE ReadLine
  <2>1. ASSUME NEW v \in {0, 1}, Conclude(run, v)
        PROVE  result' \in [Test -> {0, 1}] /\ truth' \in [Test -> {0, 1, Unknown}]
    BY <2>1 DEF Conclude, TypeOK
  <2>2. result' \in [Test -> {0, 1}] /\ truth' \in [Test -> {0, 1, Unknown}]
    BY <1>6, <2>1 DEF ReadLine, TypeOK
  <2> QED BY <1>1, <1>2, <1>6, <2>2 DEF ReadLine, TypeOK
<1>7. CASE Return
  BY <1>1, <1>2, <1>7 DEF Return, TypeOK
<1>8. CASE BoardChanges
  <2>1. fault' \in campaign.faults \cup {Good} /\ campaign \in Campaign
    BY <1>8 DEF BoardChanges, TypeOK
  <2>2. fault' \in Fault \cup {Good}
    BY <2>1 DEF Fault
  <2> QED BY <1>1, <1>2, <1>8, <2>2 DEF BoardChanges, TypeOK
<1>9. CASE UNCHANGED vars
  BY <1>1, <1>2, <1>9 DEF vars, TypeOK
<1> QED BY <1>3, <1>4, <1>5, <1>6, <1>7, <1>8, <1>9 DEF Next

(***************************************************************************)
(* Type correctness: no test, level or verdict is stored but those there   *)
(* are, and no script is left when no handler runs.                        *)
(***************************************************************************)
THEOREM WireTypeCorrect == Spec => []TypeOK
<1>1. Init => TypeOK
  <2> SUFFICES ASSUME Init PROVE TypeOK
    OBVIOUS
  <2>1. level \in [Line -> 0 .. 16 \cup {50, 100, 181, 193}]
    BY InitLines DEF LineInv, Level
  <2>2. ASSUME NEW k \in Kind PROVE 0 \in Channel
    <3>1. <<k, 0>> \in Askable /\ <<k, 0>>[2] = 0
      BY DEF Askable, NoChannel
    <3> QED BY <3>1 DEF Channel
  <2>3. fault \in Fault \cup {Good}
    BY DEF Init, Fault
  <2>4. channel \in [Kind -> Channel]
    BY <2>2 DEF Init
  <2> QED BY <2>1, <2>3, <2>4 DEF Init, TypeOK
<1>2. TypeOK /\ LineInv /\ [Next]_vars => (TypeOK /\ LineInv)'
  BY TypeStep, LineStep
<1> QED BY <1>1, <1>2, InitLines, PTL DEF Spec

-----------------------------------------------------------------------------
(***************************************************************************)
(* What a script finds out.  At step i line l was last driven to v; and    *)
(* what is on line l then is what the input r reads.                       *)
(***************************************************************************)
Commanded(s, i, l, v) ==
    \E k \in 1 .. i - 1 :
        s[k] = Put(l, v) /\ \A h \in k + 1 .. i - 1 : ~(s[h].op = "put" /\ s[h].line = l)

Leads(s, i, l, r) ==
    \/ l = r /\ r \in Cells
    \/ \E c \in DOMAIN Pwm : l = Pwm[c] /\ r = Adc[c]
    \/ \E c \in DOMAIN Loopback \ {17, 18, 19, 20, 29, 32} :
          l = Loopback[c].drive /\ r = Loopback[c].sense
    \/ \E x, y \in Transceiver :
          /\ l = x.tx /\ r = y.rx /\ Commanded(s, i, x.rd, ON)
          /\ \A z \in Transceiver \ {x} : Commanded(s, i, z.rd, OFF)

\* Whatever the board does, step i of s reads a wrong level with fault f.
Finds(s, i, f) ==
    /\ s[i].op = "expect"
    /\ \E w \in s[i].want : f[2] # w[2] /\ (f[1] = w[1] \/ Leads(s, i, f[1], w[1]))

\* A script that drives what it reads and nothing that was set up at boot, and
\* finds the faults of both.
Conclusive(t, s) ==
    /\ \A i \in DOMAIN s : s[i].op = "expect" =>
          \A w \in s[i].want :
              \E l \in Driven(t) : Leads(s, i, l, w[1]) /\ Commanded(s, i, l, w[2])
    /\ \A f : f[1] \in Driven(t) \cup Read(t) /\ ~Misleading(t, f) =>
          \E i \in DOMAIN s : Finds(s, i, f)
    /\ Driven(t) \cap AtBoot = {}

LEMMA ExpectSays ==
    ASSUME NEW want
    PROVE  Expect(want).op = "expect" /\ Expect(want).want = want
BY DEF Expect

LEMMA UsesSay ==
    ASSUME NEW t
    PROVE  /\ \A l : l \in Driven(t) <=>
                  \E i \in DOMAIN Script(t) : Script(t)[i].op = "put" /\ Script(t)[i].line = l
           /\ \A l : l \in Read(t) <=>
                  \E i \in DOMAIN Script(t) : /\ Script(t)[i].op = "expect"
                                             /\ \E w \in Script(t)[i].want : w[1] = l
BY DEF Driven, Read, Puts, Expects

\* A script that drives one line and reads one input.
Writes(a, l) == a.op = "put" /\ a.line = l
Reads(a, r) == a.op = "expect" /\ a.want # {} /\ \A w \in a.want : w[1] = r

LEMMA OneWanted == ASSUME NEW r, NEW v PROVE Reads(Expect({<<r, v>>}), r)
<1>1. Expect({<<r, v>>}).op = "expect" /\ Expect({<<r, v>>}).want = {<<r, v>>}
  BY ExpectSays
<1>2. {<<r, v>>} # {} /\ \A w \in {<<r, v>>} : w[1] = r
  OBVIOUS
<1> HIDE DEF Expect
<1> QED BY <1>1, <1>2 DEF Reads

LEMMA UsedOnce ==
    ASSUME NEW t, NEW l, NEW r, NEW i \in DOMAIN Script(t), NEW j \in DOMAIN Script(t),
           Writes(Script(t)[i], l), Reads(Script(t)[j], r),
           \A k \in DOMAIN Script(t) : Writes(Script(t)[k], l) \/ Reads(Script(t)[k], r)
    PROVE  Driven(t) = {l} /\ Read(t) = {r}
<1>1. \A x : x \in Driven(t) <=> x = l
  BY UsesSay DEF Writes, Reads
<1>2. \A x : x \in Read(t) <=> x = r
  <2>1. ASSUME NEW k \in DOMAIN Script(t), Script(t)[k].op = "expect"
        PROVE  Reads(Script(t)[k], r)
    BY <2>1 DEF Writes
  <2>2. \E w \in Script(t)[j].want : w[1] = r
    BY DEF Reads
  <2>3. Script(t)[j].op = "expect"
    BY DEF Reads
  <2> QED BY <2>1, <2>2, <2>3, UsesSay DEF Reads
<1> QED BY <1>1, <1>2

LEMMA SeesWrong ==
    ASSUME NEW s, NEW i, NEW r, NEW v, NEW f, s[i].op = "expect", <<r, v>> \in s[i].want,
           f[2] # v, f[1] = r \/ Leads(s, i, f[1], r)
    PROVE  Finds(s, i, f)
BY DEF Finds

LEMMA LoopbackDomain == DOMAIN Loopback = 1 .. 32
BY SMTT(30) DEF Loopback, FibreLoops, ControlLoops, OutputLoops, StatusLoops, SerialLoops,
       InterruptLoops, SpiLoops, Wire

\* No wire ends where another does, or at a line with a meaning of its own.
LEMMA LoopbackLines ==
    ASSUME NEW c \in DOMAIN Loopback
    PROVE  /\ Loopback[c].drive \notin AtBoot
           /\ c \notin {17, 18, 19, 20, 32} => Loopback[c].drive \notin I2cPin
           /\ Loopback[c].sense \notin Cells \cup AtBoot \cup {x.rx : x \in Transceiver}
           /\ Loopback[c].sense \notin {"DCDC_STATUS"} \cup Range(Adc)
           /\ c \notin {29, 32} => Loopback[c].sense \notin {"HRADC_INT_STS", "SPI_STE_C28"}
           /\ \A d \in DOMAIN Loopback : Loopback[d].sense = Loopback[c].sense => d = c
<1>1. DOMAIN Loopback = 1 .. 32
  BY LoopbackDomain
<1>2. \A d \in 1 .. 32 :
          Loopback[d].drive \notin {"EXIO1_CONFIG", "EXIO2_CONFIG", "DCDC_CONTROL"}
  BY DEF Loopback, FibreLoops, ControlLoops, OutputLoops, StatusLoops, SerialLoops,
         InterruptLoops, SpiLoops, Wire
<1>12. \A d \in 1 .. 32 :
           Loopback[d].drive \in {"BP_I2C_SDA", "BP_I2C_SCL"} => d \in {17, 18, 19, 20, 32}
  BY DEF Loopback, FibreLoops, ControlLoops, OutputLoops, StatusLoops, SerialLoops,
         InterruptLoops, SpiLoops, Wire
<1>3. \A d, e \in 1 .. 32 : Loopback[d].sense = Loopback[e].sense => d = e
  BY DEF Loopback, FibreLoops, ControlLoops, OutputLoops, StatusLoops, SerialLoops,
         InterruptLoops, SpiLoops, Wire
<1>4. \A d \in 1 .. 32 : Loopback[d].sense \in
          {"GPDI1", "GPDI2", "GPDI3", "GPDI4", "GPDI5", "GPDI6", "GPDI7", "GPDI8", "GPDI9",
           "GPDI10", "GPDI11", "GPDI12", "GPDI13", "GPDI14", "GPDI15", "GPDI16",
           "STATUS_ADC0", "STATUS_ADC1", "STATUS_ADC2", "STATUS_ADC3", "MCBSP_MDR",
           "MCBSP_MFSX", "EPWMSYNCI", "CAN_RX", "INT_GENERAL", "INT_ARM", "INT_C28",
           "DISPLAY_RX", "SPI_STE_C28", "FOFB_EPWMSYNCI", "SPI_MOSI_C28", "HRADC_INT_STS"}
  BY DEF Loopback, FibreLoops, ControlLoops, OutputLoops, StatusLoops, SerialLoops,
         InterruptLoops, SpiLoops, Wire
<1>8. Loopback[29].sense = "SPI_STE_C28" /\ Loopback[32].sense = "HRADC_INT_STS"
  BY DEF Loopback, FibreLoops, ControlLoops, OutputLoops, StatusLoops, SerialLoops,
         InterruptLoops, SpiLoops, Wire
<1>5. AtBoot = {"EXIO1_CONFIG", "EXIO2_CONFIG", "DCDC_CONTROL"}
  BY DEF AtBoot, Configured, DcdcOn
<1>6. Cells \subseteq {"SRAM0", "SRAM1", "SRAM2", "SRAM3", "SRAM4", "SRAM5", "SRAM6",
                     "RAM0", "RAM4", "RAM8", "RAM12"}
  BY DEF Cells, Range, RtcSram, Sdram
<1>7. /\ Range(Adc) \subseteq {"CH1", "CH2", "CH3", "CH4", "CH5", "CH6", "CH7", "CH8"}
      /\ {x.rx : x \in Transceiver} = {"RS485_RX", "UART_M3_RX", "SCIRXDA"}
  BY DEF Range, Adc, Transceiver
<1>9. c \in 1 .. 32 /\ 29 \in 1 .. 32 /\ 32 \in 1 .. 32
  BY <1>1
<1>10. /\ Loopback[c].sense \notin Cells \cup AtBoot \cup {x.rx : x \in Transceiver}
       /\ Loopback[c].sense \notin {"DCDC_STATUS"} \cup Range(Adc)
  BY <1>4, <1>5, <1>6, <1>7, <1>9, ZenonT(40)
<1>11. c \notin {29, 32} => Loopback[c].sense \notin {"HRADC_INT_STS", "SPI_STE_C28"}
  BY <1>3, <1>8, <1>9
<1> QED BY <1>1, <1>2, <1>3, <1>5, <1>9, <1>10, <1>11, <1>12 DEF I2cPin

LEMMA AdcLines ==
    ASSUME NEW c \in DOMAIN Pwm
    PROVE  /\ Pwm[c] \notin AtBoot \cup I2cPin
           /\ Adc[c] \notin Cells \cup AtBoot \cup {x.rx : x \in Transceiver}
           /\ Adc[c] \notin {"DCDC_STATUS", "HRADC_INT_STS", "SPI_STE_C28"}
           /\ c \in DOMAIN Adc /\ \A d \in DOMAIN Adc : Adc[d] = Adc[c] => d = c
<1>1. DOMAIN Pwm = 1 .. 8 /\ DOMAIN Adc = 1 .. 8
  BY DEF Pwm, Adc
<1>2. /\ Pwm[c] \in {"PWM1", "PWM2", "PWM3", "PWM4", "PWM5", "PWM6", "PWM7", "PWM8"}
      /\ Adc[c] \in {"CH1", "CH2", "CH3", "CH4", "CH5", "CH6", "CH7", "CH8"}
      /\ \A d \in 1 .. 8 : Adc[d] = Adc[c] => d = c
  BY <1>1 DEF Pwm, Adc
<1>3. /\ AtBoot = {"EXIO1_CONFIG", "EXIO2_CONFIG", "DCDC_CONTROL"}
      /\ {x.rx : x \in Transceiver} = {"RS485_RX", "UART_M3_RX", "SCIRXDA"}
      /\ Cells \subseteq {"SRAM0", "SRAM1", "SRAM2", "SRAM3", "SRAM4", "SRAM5", "SRAM6",
                         "RAM0", "RAM4", "RAM8", "RAM12"}
  BY DEF AtBoot, Configured, DcdcOn, Transceiver, Cells, Range, RtcSram, Sdram
<1> QED BY <1>1, <1>2, <1>3 DEF I2cPin

LEMMA CellLines ==
    /\ Cells \cap (AtBoot \cup I2cPin \cup {x.rx : x \in Transceiver}) = {}
    /\ AtBoot \cap {x.rx : x \in Transceiver} = {}
    /\ (Cells \cup AtBoot \cup {x.rx : x \in Transceiver})
          \cap {"DCDC_STATUS", "HRADC_INT_STS", "SPI_STE_C28"} = {}
<1>1. /\ AtBoot = {"EXIO1_CONFIG", "EXIO2_CONFIG", "DCDC_CONTROL"}
      /\ {x.rx : x \in Transceiver} = {"RS485_RX", "UART_M3_RX", "SCIRXDA"}
      /\ Cells \subseteq {"SRAM0", "SRAM1", "SRAM2", "SRAM3", "SRAM4", "SRAM5", "SRAM6",
                         "RAM0", "RAM4", "RAM8", "RAM12"}
  BY DEF AtBoot, Configured, DcdcOn, Transceiver, Cells, Range, RtcSram, Sdram
<1>2. Cells \cap (AtBoot \cup I2cPin \cup {x.rx : x \in Transceiver}) = {}
  BY <1>1 DEF I2cPin
<1>3. AtBoot \cap {x.rx : x \in Transceiver} = {}
  BY <1>1
<1>4. (Cells \cup AtBoot \cup {x.rx : x \in Transceiver})
          \cap {"DCDC_STATUS", "HRADC_INT_STS", "SPI_STE_C28"} = {}
  BY <1>1
<1> QED BY <1>2, <1>3, <1>4

LEMMA LoopbackConclusive ==
    ASSUME NEW c \in DOMAIN Loopback \ {17, 18, 19, 20, 29, 32}
    PROVE  Conclusive(<<"LOOPBACK_TEST", c>>, LoopbackScript(c))
<1> DEFINE l == Loopback[c].drive
           r == Loopback[c].sense
           t == <<"LOOPBACK_TEST", c>>
           s == << Put(l, 0), Expect({<<r, 0>>}), Put(l, 1), Expect({<<r, 1>>}) >>
<1>1. Script(t) = s
  BY DEF Script, LoopbackScript, OFF, ON
<1>2. \A i : Leads(s, i, l, r)
  BY DEF Leads
<1>0. l \notin AtBoot
  BY LoopbackLines
<1> HIDE DEF t, l, r
<1>3. /\ DOMAIN s = 1 .. 4 /\ s[1].op = "put" /\ s[3].op = "put"
      /\ s[2].op = "expect" /\ s[2].want = {<<r, 0>>}
      /\ s[4].op = "expect" /\ s[4].want = {<<r, 1>>}
  BY PutSays, ExpectSays
<1>9. Writes(s[1], l) /\ Reads(s[2], r) /\ Writes(s[3], l) /\ Reads(s[4], r)
  <2>1. \A v : Writes(Put(l, v), l) /\ Reads(Expect({<<r, v>>}), r)
    BY PutSays, OneWanted DEF Writes
  <2>2. /\ s[1] = Put(l, 0) /\ s[2] = Expect({<<r, 0>>})
        /\ s[3] = Put(l, 1) /\ s[4] = Expect({<<r, 1>>})
    OBVIOUS
  <2> QED BY <2>1, <2>2, ZenonT(40)
<1>4. Commanded(s, 2, l, 0) /\ Commanded(s, 4, l, 1)
  BY PutSays, ExpectSays DEF Commanded
<1> HIDE DEF s
<1>5. Driven(t) = {l} /\ Read(t) = {r}
  <2>1. /\ 1 \in DOMAIN s /\ 2 \in DOMAIN s /\ Writes(s[1], l) /\ Reads(s[2], r)
        /\ \A i \in DOMAIN s : Writes(s[i], l) \/ Reads(s[i], r)
    BY <1>3, <1>9
  <2> QED BY <1>1, <2>1, UsedOnce
<1>6. ASSUME NEW i \in DOMAIN s, s[i].op = "expect", NEW w \in s[i].want
      PROVE  \E k \in Driven(t) : Leads(s, i, k, w[1]) /\ Commanded(s, i, k, w[2])
  BY <1>2, <1>3, <1>4, <1>5, <1>6
<1>7. ASSUME NEW f, f[1] \in Driven(t) \cup Read(t)
      PROVE  \E i \in DOMAIN s : Finds(s, i, f)
  <2>1. f[1] = r \/ (Leads(s, 2, f[1], r) /\ Leads(s, 4, f[1], r))
    <3>1. f[1] = l \/ f[1] = r
      BY <1>5, <1>7
    <3> QED BY <1>2, <3>1, Zenon
  <2>2. f[2] # 0 => Finds(s, 2, f)
    BY <1>3, <2>1, SeesWrong
  <2>3. f[2] # 1 => Finds(s, 4, f)
    BY <1>3, <2>1, SeesWrong
  <2> QED BY <1>3, <2>2, <2>3
<1>8. Conclusive(t, s)
  BY <1>0, <1>5, <1>6, <1>7 DEF Conclusive
<1> QED BY <1>8 DEF LoopbackScript, OFF, ON, l, r, t, s

LEMMA AdcpConclusive ==
    ASSUME NEW c \in DOMAIN Pwm
    PROVE  Conclusive(<<"ADCP_TEST", c>>, AdcpScript(c))
<1> DEFINE l == Pwm[c]
           r == Adc[c]
           t == <<"ADCP_TEST", c>>
           s == << Put(l, 0), Expect({<<r, 0>>}), Put(l, 50), Expect({<<r, 50>>}),
                   Put(l, 100), Expect({<<r, 100>>}) >>
<1>1. Script(t) = s
  BY DEF Script, AdcpScript
<1>2. \A i : Leads(s, i, l, r)
  BY DEF Leads
<1>0. l \notin AtBoot
  BY AdcLines
<1> HIDE DEF t, l, r
<1>3. /\ DOMAIN s = 1 .. 6 /\ s[1].op = "put" /\ s[3].op = "put"
      /\ s[2].op = "expect" /\ s[2].want = {<<r, 0>>}
      /\ s[4].op = "expect" /\ s[4].want = {<<r, 50>>} /\ s[5].op = "put"
      /\ s[6].op = "expect" /\ s[6].want = {<<r, 100>>}
  BY PutSays, ExpectSays
<1>9. /\ Writes(s[1], l) /\ Reads(s[2], r) /\ Writes(s[3], l) /\ Reads(s[4], r)
      /\ Writes(s[5], l) /\ Reads(s[6], r)
  <2>1. \A v : Writes(Put(l, v), l) /\ Reads(Expect({<<r, v>>}), r)
    BY PutSays, OneWanted DEF Writes
  <2>2. /\ s[1] = Put(l, 0) /\ s[2] = Expect({<<r, 0>>})
        /\ s[3] = Put(l, 50) /\ s[4] = Expect({<<r, 50>>})
        /\ s[5] = Put(l, 100) /\ s[6] = Expect({<<r, 100>>})
    OBVIOUS
  <2> QED BY <2>1, <2>2, ZenonT(40)
<1>4. Commanded(s, 2, l, 0) /\ Commanded(s, 4, l, 50) /\ Commanded(s, 6, l, 100)
  BY PutSays, ExpectSays DEF Commanded
<1> HIDE DEF s
<1>5. Driven(t) = {l} /\ Read(t) = {r}
  <2>1. /\ 1 \in DOMAIN s /\ 2 \in DOMAIN s /\ Writes(s[1], l) /\ Reads(s[2], r)
        /\ \A i \in DOMAIN s : Writes(s[i], l) \/ Reads(s[i], r)
    BY <1>3, <1>9
  <2> QED BY <1>1, <2>1, UsedOnce
<1>6. ASSUME NEW i \in DOMAIN s, s[i].op = "expect", NEW w \in s[i].want
      PROVE  \E k \in Driven(t) : Leads(s, i, k, w[1]) /\ Commanded(s, i, k, w[2])
  BY <1>2, <1>3, <1>4, <1>5, <1>6
<1>7. ASSUME NEW f, f[1] \in Driven(t) \cup Read(t)
      PROVE  \E i \in DOMAIN s : Finds(s, i, f)
  <2>1. f[1] = r \/ (Leads(s, 2, f[1], r) /\ Leads(s, 4, f[1], r))
    <3>1. f[1] = l \/ f[1] = r
      BY <1>5, <1>7
    <3> QED BY <1>2, <3>1, Zenon
  <2>2. f[2] # 0 => Finds(s, 2, f)
    BY <1>3, <2>1, SeesWrong
  <2>3. f[2] # 50 => Finds(s, 4, f)
    BY <1>3, <2>1, SeesWrong
  <2> QED BY <1>3, <2>2, <2>3
<1>8. Conclusive(t, s)
  BY <1>0, <1>5, <1>6, <1>7 DEF Conclusive
<1> QED BY <1>8 DEF AdcpScript, l, r, t, s

\* A memory whose cells hold numbers of their own.
LEMMA MemoryConclusive ==
    ASSUME NEW t, NEW n \in Nat \ {0}, NEW cells \in [1 .. n -> Cells], NEW m \in Nat \ {0},
           MemoryScript(Script(t), cells, n, m),
           \A i, j \in 1 .. n : cells[i] = cells[j] => i = j,
           \A f, i : i \in 1 .. n /\ f[1] = cells[i] /\ f[2] = i => Misleading(t, f)
    PROVE  Conclusive(t, Script(t))
<1> DEFINE s == Script(t)
           want == {<<cells[k], k>> : k \in 1 .. n}
<1>1. /\ DOMAIN s = 1 .. n + m /\ n + 1 \in DOMAIN s
      /\ \A i \in 1 .. n : s[i].op = "put" /\ s[i].line = cells[i] /\ s[i] = Put(cells[i], i)
      /\ \A i \in n + 1 .. n + m : s[i].op = "expect" /\ s[i].want = want
  BY PatternReadSays, PutSays, SMTT(30) DEF MemoryScript
<1>2. \A i \in DOMAIN s : i \in 1 .. n \/ i \in n + 1 .. n + m
  BY <1>1
<1>3. \A i \in DOMAIN s : s[i].op = "expect" <=> i \in n + 1 .. n + m
  BY <1>1, <1>2
<1>4. ASSUME NEW k \in 1 .. n, NEW i \in n + 1 .. n + m
      PROVE  Commanded(s, i, cells[k], k)
  <2>1. k \in 1 .. i - 1 /\ s[k] = Put(cells[k], k)
    BY <1>1
  <2>2. ASSUME NEW h \in k + 1 .. i - 1, s[h].op = "put" PROVE s[h].line # cells[k]
    <3>1. h \in DOMAIN s
      BY <1>1
    <3>2. h \in 1 .. n /\ h # k
      BY <1>1, <1>2, <2>2, <3>1
    <3> QED BY <1>1, <3>2
  <2> HIDE DEF s
  <2> QED BY <2>1, <2>2 DEF Commanded
<1> HIDE DEF s
<1>5. \A i \in n + 1 .. n + m, k \in 1 .. n :
          Leads(s, i, cells[k], cells[k]) /\ Commanded(s, i, cells[k], k)
  BY <1>4 DEF Leads
<1>6. \A x : x \in Driven(t) <=> \E k \in 1 .. n : x = cells[k]
  <2>1. \A x : x \in Driven(t) <=> \E k \in DOMAIN s : s[k].op = "put" /\ s[k].line = x
    BY UsesSay DEF s
  <2>2. \A k \in DOMAIN s : s[k].op = "put" => k \in 1 .. n
    BY <1>1, <1>2
  <2>3. \A k \in 1 .. n : k \in DOMAIN s
    BY <1>1
  <2> QED BY <1>1, <2>1, <2>2, <2>3
<1>7. \A w \in want : \E k \in 1 .. n : w[1] = cells[k] /\ w[2] = k
  OBVIOUS
<1>8. \A x \in Read(t) : \E k \in 1 .. n : x = cells[k]
  <2>1. \A x \in Read(t) : \E k \in DOMAIN s : s[k].op = "expect" /\ \E w \in s[k].want : w[1] = x
    BY UsesSay DEF s
  <2> QED BY <1>1, <1>3, <1>7, <2>1
<1>9. ASSUME NEW i \in DOMAIN s, s[i].op = "expect", NEW w \in s[i].want
      PROVE  \E l \in Driven(t) : Leads(s, i, l, w[1]) /\ Commanded(s, i, l, w[2])
  <2>1. i \in n + 1 .. n + m /\ w \in want
    BY <1>1, <1>3, <1>9
  <2>2. PICK k \in 1 .. n : w[1] = cells[k] /\ w[2] = k
    BY <1>7, <2>1
  <2>3. cells[k] \in Driven(t)
    BY <1>6
  <2> QED BY <1>5, <2>1, <2>2, <2>3
<1>10. ASSUME NEW f, f[1] \in Driven(t) \cup Read(t), ~Misleading(t, f)
       PROVE  Finds(s, n + 1, f)
  <2>1. PICK k \in 1 .. n : f[1] = cells[k]
    BY <1>6, <1>8, <1>10
  <2>2. f[2] # k
    BY <1>10, <2>1
  <2>3. s[n + 1].op = "expect" /\ <<cells[k], k>> \in s[n + 1].want
    BY <1>1
  <2> QED BY <2>1, <2>2, <2>3, SeesWrong
<1>11. Driven(t) \cap AtBoot = {}
  BY <1>6, CellLines
<1>12. Conclusive(t, s)
  BY <1>1, <1>9, <1>10, <1>11 DEF Conclusive
<1> QED BY <1>12 DEF s

LEMMA RtcConclusive == Conclusive(<<"RTC_TEST", 0>>, RTCAccessTest)
<1> DEFINE t == <<"RTC_TEST", 0>>
<1>1. Script(t) = RTCAccessTest
  BY DEF Script
<1>2. \A i, j \in 1 .. 7 : RtcSram[i] = RtcSram[j] => i = j
  BY DEF RtcSram
<1>3. \A f, i : i \in 1 .. 7 /\ f[1] = RtcSram[i] /\ f[2] = i => Misleading(t, f)
  <2>1. DOMAIN RtcSram = 1 .. 7 /\ t[1] = "RTC_TEST"
    BY DEF RtcSram
  <2> HIDE DEF t
  <2> QED BY <2>1 DEF Misleading
<1> HIDE DEF t
<1>4. /\ 7 \in Nat \ {0} /\ 1 \in Nat \ {0}
      /\ RtcSram \in [1 .. 7 -> Cells] /\ MemoryScript(Script(t), RtcSram, 7, 1)
  BY <1>1, RtcScript
<1>5. Conclusive(t, Script(t))
  BY <1>2, <1>3, <1>4, MemoryConclusive, Zenon
<1> QED BY <1>1, <1>5 DEF t

LEMMA RamConclusive == Conclusive(<<"RAM_TEST", 0>>, sdram_read_write)
<1> DEFINE t == <<"RAM_TEST", 0>>
<1>1. Script(t) = sdram_read_write
  BY DEF Script
<1>2. \A i, j \in 1 .. 4 : Sdram[i] = Sdram[j] => i = j
  BY DEF Sdram
<1>3. \A f, i : i \in 1 .. 4 /\ f[1] = Sdram[i] /\ f[2] = i => Misleading(t, f)
  <2>1. DOMAIN Sdram = 1 .. 4 /\ t[1] = "RAM_TEST"
    BY DEF Sdram
  <2> HIDE DEF t
  <2> QED BY <2>1 DEF Misleading
<1> HIDE DEF t
<1>4. /\ 4 \in Nat \ {0} /\ 3 \in Nat \ {0}
      /\ Sdram \in [1 .. 4 -> Cells] /\ MemoryScript(Script(t), Sdram, 4, 3)
  BY <1>1, RamScript
<1>5. Conclusive(t, Script(t))
  BY <1>2, <1>3, <1>4, MemoryConclusive, Zenon
<1> QED BY <1>1, <1>5 DEF t

LEMMA StaysCommanded ==
    ASSUME NEW s, NEW k \in Nat \ {0}, NEW n \in Nat, NEW l, NEW v, s[k] = Put(l, v),
           \A h \in k + 1 .. n - 1 : ~(s[h].op = "put" /\ s[h].line = l)
    PROVE  \A i \in k + 1 .. n : Commanded(s, i, l, v)
<1> SUFFICES ASSUME NEW i \in k + 1 .. n PROVE Commanded(s, i, l, v)
  OBVIOUS
<1>1. k \in 1 .. i - 1 /\ \A h \in k + 1 .. i - 1 : h \in k + 1 .. n - 1
  OBVIOUS
<1> QED BY <1>1 DEF Commanded

(***************************************************************************)
(* The bus test: at each reading one transceiver transmits and the others  *)
(* listen, and each is read at both levels.                                *)
(***************************************************************************)
LEMMA Rs485Conclusive == Conclusive(<<"RS485_TEST", 0>>, Rs485Script)
<1> DEFINE t == <<"RS485_TEST", 0>>
           s == Rs485Script
           a == [rd |-> "RS485_RD",   tx |-> "RS485_TX",   rx |-> "RS485_RX"]
           b == [rd |-> "UART_M3_RD", tx |-> "UART_M3_TX", rx |-> "UART_M3_RX"]
           c == [rd |-> "SCI_RD",     tx |-> "SCITXDA",    rx |-> "SCIRXDA"]
<1>1. /\ DOMAIN s = 1 .. 19
      /\ s[1] = Put(a.rd, ON) /\ s[2] = Put(b.rd, OFF) /\ s[3] = Put(c.rd, OFF)
      /\ s[4] = Put(a.tx, OFF) /\ s[5] = Expect({<<b.rx, 0>>, <<c.rx, 0>>})
      /\ s[6] = Put(a.tx, ON) /\ s[7] = Expect({<<b.rx, 1>>, <<c.rx, 1>>})
      /\ s[8] = Put(a.rd, OFF) /\ s[9] = Put(b.rd, ON)
      /\ s[10] = Put(b.tx, OFF) /\ s[11] = Expect({<<a.rx, 0>>, <<c.rx, 0>>})
      /\ s[12] = Put(b.tx, ON) /\ s[13] = Expect({<<a.rx, 1>>, <<c.rx, 1>>})
      /\ s[14] = Put(b.rd, OFF) /\ s[15] = Put(c.rd, ON)
      /\ s[16] = Put(c.tx, OFF) /\ s[17] = Expect({<<a.rx, 0>>, <<b.rx, 0>>})
      /\ s[18] = Put(c.tx, ON) /\ s[19] = Expect({<<a.rx, 1>>, <<b.rx, 1>>})
  BY DEF Rs485Script
<1>2. Script(t) = s
  BY DEF Script
<1>3. Transceiver = {a, b, c}
  BY DEF Transceiver
<1>4. /\ a.rd = "RS485_RD" /\ a.tx = "RS485_TX" /\ a.rx = "RS485_RX"
      /\ b.rd = "UART_M3_RD" /\ b.tx = "UART_M3_TX" /\ b.rx = "UART_M3_RX"
      /\ c.rd = "SCI_RD" /\ c.tx = "SCITXDA" /\ c.rx = "SCIRXDA"
  OBVIOUS
<1> HIDE DEF t, s, a, b, c
<1>5. /\ \A i \in {1, 2, 3, 4, 6, 8, 9, 10, 12, 14, 15, 16, 18} : s[i].op = "put"
      /\ s[1].line = a.rd /\ s[2].line = b.rd /\ s[3].line = c.rd /\ s[4].line = a.tx
      /\ s[6].line = a.tx /\ s[8].line = a.rd /\ s[9].line = b.rd /\ s[10].line = b.tx
      /\ s[12].line = b.tx /\ s[14].line = b.rd /\ s[15].line = c.rd
      /\ s[16].line = c.tx /\ s[18].line = c.tx
  BY <1>1, PutSays
<1>6. /\ \A i \in {5, 7, 11, 13, 17, 19} : s[i].op = "expect"
      /\ s[5].want = {<<b.rx, 0>>, <<c.rx, 0>>} /\ s[7].want = {<<b.rx, 1>>, <<c.rx, 1>>}
      /\ s[11].want = {<<a.rx, 0>>, <<c.rx, 0>>} /\ s[13].want = {<<a.rx, 1>>, <<c.rx, 1>>}
      /\ s[17].want = {<<a.rx, 0>>, <<b.rx, 0>>} /\ s[19].want = {<<a.rx, 1>>, <<b.rx, 1>>}
  BY <1>1, ExpectSays
<1>7. \A h \in 1 .. 19 : s[h].op = "put" =>
          /\ h \in {1, 2, 3, 4, 6, 8, 9, 10, 12, 14, 15, 16, 18}
          /\ s[h].line = a.rd => h \in {1, 8}
          /\ s[h].line = b.rd => h \in {2, 9, 14}
          /\ s[h].line = c.rd => h \in {3, 15}
          /\ s[h].line = a.tx => h \in {4, 6}
          /\ s[h].line = b.tx => h \in {10, 12}
          /\ s[h].line = c.tx => h \in {16, 18}
  <2>1. \A h \in 1 .. 19 : \/ h \in {1, 2, 3, 4, 6, 8, 9, 10, 12, 14, 15, 16, 18}
                           \/ h \in {5, 7, 11, 13, 17, 19}
    OBVIOUS
  <2> QED BY <1>4, <1>5, <1>6, <2>1
<1>8. /\ \A i \in 2 .. 8 : Commanded(s, i, a.rd, ON)
      /\ \A i \in 9 .. 19 : Commanded(s, i, a.rd, OFF)
      /\ \A i \in 3 .. 9 : Commanded(s, i, b.rd, OFF)
      /\ \A i \in 10 .. 14 : Commanded(s, i, b.rd, ON)
      /\ \A i \in 15 .. 19 : Commanded(s, i, b.rd, OFF)
      /\ \A i \in 4 .. 15 : Commanded(s, i, c.rd, OFF)
      /\ \A i \in 16 .. 19 : Commanded(s, i, c.rd, ON)
      /\ \A i \in 5 .. 6 : Commanded(s, i, a.tx, OFF)
      /\ \A i \in 7 .. 19 : Commanded(s, i, a.tx, ON)
      /\ \A i \in 11 .. 12 : Commanded(s, i, b.tx, OFF)
      /\ \A i \in 13 .. 19 : Commanded(s, i, b.tx, ON)
      /\ \A i \in 17 .. 18 : Commanded(s, i, c.tx, OFF)
      /\ \A i \in 19 .. 19 : Commanded(s, i, c.tx, ON)
  <2> DEFINE Held(k, n, l, v) ==
               /\ k \in 1 .. 19 /\ n \in 1 .. 19 /\ s[k] = Put(l, v)
               /\ \A h \in 1 .. 19 : s[h].op = "put" /\ s[h].line = l => h <= k \/ h >= n
  <2>1. ASSUME NEW k, NEW n, NEW l, NEW v, Held(k, n, l, v)
        PROVE  \A i \in 1 .. 19 : k < i /\ i <= n => Commanded(s, i, l, v)
    <3>1. \A h \in k + 1 .. n - 1 : h \in 1 .. 19 /\ ~(h <= k) /\ ~(h >= n)
      BY <2>1
    <3>2. \A h \in k + 1 .. n - 1 : ~(s[h].op = "put" /\ s[h].line = l)
      BY <2>1, <3>1
    <3>3. k \in Nat \ {0} /\ n \in Nat
      BY <2>1
    <3>4. \A i \in k + 1 .. n : Commanded(s, i, l, v)
      BY <2>1, <3>2, <3>3, StaysCommanded
    <3> QED BY <2>1, <3>4
  <2>2. Held(1, 8, a.rd, ON) /\ Held(8, 19, a.rd, OFF)
    BY <1>1, <1>7
  <2>3. Held(2, 9, b.rd, OFF) /\ Held(9, 14, b.rd, ON) /\ Held(14, 19, b.rd, OFF)
    BY <1>1, <1>7
  <2>4. Held(3, 15, c.rd, OFF) /\ Held(15, 19, c.rd, ON)
    BY <1>1, <1>7
  <2>5. Held(4, 6, a.tx, OFF) /\ Held(6, 19, a.tx, ON)
    BY <1>1, <1>7
  <2>6. Held(10, 12, b.tx, OFF) /\ Held(12, 19, b.tx, ON)
    BY <1>1, <1>7
  <2>7. Held(16, 18, c.tx, OFF) /\ Held(18, 19, c.tx, ON)
    BY <1>1, <1>7
  <2> HIDE DEF Held
  <2> QED BY <2>1, <2>2, <2>3, <2>4, <2>5, <2>6, <2>7
<1>9. \A y \in Transceiver : /\ \A i \in 4 .. 8 : Leads(s, i, a.tx, y.rx)
                             /\ \A i \in 10 .. 14 : Leads(s, i, b.tx, y.rx)
                             /\ \A i \in 16 .. 19 : Leads(s, i, c.tx, y.rx)
  <2>1. ASSUME NEW y \in Transceiver, NEW x \in Transceiver, NEW i,
               Commanded(s, i, x.rd, ON),
               \A z \in Transceiver \ {x} : Commanded(s, i, z.rd, OFF)
        PROVE  Leads(s, i, x.tx, y.rx)
    BY <2>1 DEF Leads
  <2>2. \A i \in 4 .. 8 : /\ Commanded(s, i, a.rd, ON)
                         /\ \A z \in Transceiver \ {a} : Commanded(s, i, z.rd, OFF)
    BY <1>3, <1>8
  <2>3. \A i \in 10 .. 14 : /\ Commanded(s, i, b.rd, ON)
                           /\ \A z \in Transceiver \ {b} : Commanded(s, i, z.rd, OFF)
    BY <1>3, <1>8
  <2>4. \A i \in 16 .. 19 : /\ Commanded(s, i, c.rd, ON)
                           /\ \A z \in Transceiver \ {c} : Commanded(s, i, z.rd, OFF)
    BY <1>3, <1>8
  <2>5. a \in Transceiver /\ b \in Transceiver /\ c \in Transceiver
    BY <1>3
  <2> QED BY <2>1, <2>2, <2>3, <2>4, <2>5
<1>10. /\ \A x \in {a.tx, b.tx, c.tx} : x \in Driven(t)
       /\ \A x \in Driven(t) : x \in {a.rd, b.rd, c.rd, a.tx, b.tx, c.tx}
       /\ \A x \in Driven(t) \cup Read(t) :
            x \in {a.rd, b.rd, c.rd, a.tx, b.tx, c.tx, a.rx, b.rx, c.rx}
  <2>1. \A x : x \in Driven(t) <=> \E i \in DOMAIN s : s[i].op = "put" /\ s[i].line = x
    BY <1>2, UsesSay
  <2>2. \A x : x \in Driven(t) => x \in {a.rd, b.rd, c.rd, a.tx, b.tx, c.tx}
    BY <1>1, <1>5, <1>7, <2>1
  <2>3. a.tx \in Driven(t) /\ b.tx \in Driven(t) /\ c.tx \in Driven(t)
    BY <1>1, <1>5, <2>1
  <2>4. \A x : x \in Read(t) => \E i \in DOMAIN s : s[i].op = "expect" /\ \E w \in s[i].want : w[1] = x
    BY <1>2, UsesSay
  <2>5. \A i \in DOMAIN s : s[i].op = "expect" => i \in {5, 7, 11, 13, 17, 19}
    BY <1>1, <1>5
  <2>6. \A i \in {5, 7, 11, 13, 17, 19} : \A w \in s[i].want : w[1] \in {a.rx, b.rx, c.rx}
    BY <1>6
  <2>7. \A x \in Read(t) : x \in {a.rx, b.rx, c.rx}
    BY <2>4, <2>5, <2>6
  <2> QED BY <2>2, <2>3, <2>7
<1>11. \A i \in DOMAIN s : s[i].op = "expect" => i \in {5, 7, 11, 13, 17, 19}
  BY <1>1, <1>5
<1>12. a \in Transceiver /\ b \in Transceiver /\ c \in Transceiver
  BY <1>3
<1>13. ASSUME NEW i \in DOMAIN s, s[i].op = "expect", NEW w \in s[i].want
       PROVE  \E l \in Driven(t) : Leads(s, i, l, w[1]) /\ Commanded(s, i, l, w[2])
  <2>1. \E y \in Transceiver : w[1] = y.rx
    BY <1>6, <1>11, <1>12, <1>13
  <2>2. /\ i \in {5, 11, 17} => w[2] = OFF
        /\ i \in {7, 13, 19} => w[2] = ON
    BY <1>6, <1>13 DEF OFF, ON
  <2>3. CASE i \in {5, 7}
    <3>1. Leads(s, i, a.tx, w[1])
      BY <1>9, <2>1, <2>3
    <3>2. Commanded(s, i, a.tx, w[2])
      BY <1>8, <2>2, <2>3
    <3> QED BY <1>10, <3>1, <3>2
  <2>4. CASE i \in {11, 13}
    <3>1. Leads(s, i, b.tx, w[1])
      BY <1>9, <2>1, <2>4
    <3>2. Commanded(s, i, b.tx, w[2])
      BY <1>8, <2>2, <2>4
    <3> QED BY <1>10, <3>1, <3>2
  <2>5. CASE i \in {17, 19}
    <3>1. Leads(s, i, c.tx, w[1])
      BY <1>9, <2>1, <2>5
    <3>2. Commanded(s, i, c.tx, w[2])
      BY <1>8, <2>2, <2>5
    <3> QED BY <1>10, <3>1, <3>2
  <2> QED BY <1>11, <1>13, <2>3, <2>4, <2>5
<1>14. ASSUME NEW f, f[1] \in Driven(t) \cup Read(t), ~Misleading(t, f)
       PROVE  \E i \in DOMAIN s : Finds(s, i, f)
  <2>1. f[1] \in {a.tx, b.tx, c.tx, a.rx, b.rx, c.rx}
    <3>1. t[1] = "RS485_TEST"
      BY DEF t
    <3>2. f[1] \notin {x.rd : x \in Transceiver}
      BY <1>14, <3>1 DEF Misleading
    <3> QED BY <1>10, <1>12, <1>14, <3>2
  <2>2. ASSUME NEW i \in DOMAIN s, NEW j \in DOMAIN s, NEW r,
               s[i].op = "expect", s[j].op = "expect",
               <<r, 0>> \in s[i].want, <<r, 1>> \in s[j].want,
               f[1] = r \/ (Leads(s, i, f[1], r) /\ Leads(s, j, f[1], r))
        PROVE  \E k \in DOMAIN s : Finds(s, k, f)
    <3>1. f[2] # 0 => Finds(s, i, f)
      BY <2>2, SeesWrong
    <3>2. f[2] # 1 => Finds(s, j, f)
      BY <2>2, SeesWrong
    <3> QED BY <3>1, <3>2
  <2>3. CASE f[1] \in {a.tx, b.rx}
    <3>1. f[1] = b.rx \/ (Leads(s, 5, f[1], b.rx) /\ Leads(s, 7, f[1], b.rx))
      BY <1>9, <1>12, <2>3
    <3>2. /\ 5 \in DOMAIN s /\ 7 \in DOMAIN s /\ s[5].op = "expect" /\ s[7].op = "expect"
          /\ <<b.rx, 0>> \in s[5].want /\ <<b.rx, 1>> \in s[7].want
      BY <1>1, <1>6, 5 \in 1 .. 19, 7 \in 1 .. 19
    <3> QED BY <2>2, <3>1, <3>2
  <2>4. CASE f[1] \in {b.tx, c.rx}
    <3>1. f[1] = c.rx \/ (Leads(s, 11, f[1], c.rx) /\ Leads(s, 13, f[1], c.rx))
      BY <1>9, <1>12, <2>4
    <3>2. /\ 11 \in DOMAIN s /\ 13 \in DOMAIN s /\ s[11].op = "expect" /\ s[13].op = "expect"
          /\ <<c.rx, 0>> \in s[11].want /\ <<c.rx, 1>> \in s[13].want
      BY <1>1, <1>6, 11 \in 1 .. 19, 13 \in 1 .. 19
    <3> QED BY <2>2, <3>1, <3>2
  <2>5. CASE f[1] \in {c.tx, a.rx}
    <3>1. f[1] = a.rx \/ (Leads(s, 17, f[1], a.rx) /\ Leads(s, 19, f[1], a.rx))
      BY <1>9, <1>12, <2>5
    <3>2. /\ 17 \in DOMAIN s /\ 19 \in DOMAIN s /\ s[17].op = "expect" /\ s[19].op = "expect"
          /\ <<a.rx, 0>> \in s[17].want /\ <<a.rx, 1>> \in s[19].want
      BY <1>1, <1>6, 17 \in 1 .. 19, 19 \in 1 .. 19
    <3> QED BY <2>2, <3>1, <3>2
  <2> QED BY <2>1, <2>3, <2>4, <2>5
<1>15. Driven(t) \cap AtBoot = {}
  BY <1>4, <1>10 DEF AtBoot, Configured, DcdcOn
<1>16. Conclusive(t, s)
  BY <1>13, <1>14, <1>15 DEF Conclusive
<1> QED BY <1>16 DEF t, s

-----------------------------------------------------------------------------
(***************************************************************************)
(* The tests that only read.                                               *)
(***************************************************************************)
OneReading == {<<"LOOPBACK_TEST", 29>>, <<"EXIO_TEST", 0>>, <<"ISO_PS_TEST", 0>>}

\* What they read.
Wanted(t) ==
    IF t[1] = "EXIO_TEST" THEN Configured
    ELSE IF t[1] = "ISO_PS_TEST" THEN {<<"DCDC_STATUS", OFF>>} ELSE {<<"SPI_STE_C28", ON>>}

LEMMA ReadingScripts ==
    ASSUME NEW t \in OneReading
    PROVE  /\ DOMAIN Script(t) = {1}
           /\ Script(t)[1].op = "expect" /\ Script(t)[1].want = Wanted(t)
<1>1. Loopback[29].sense = "SPI_STE_C28"
  BY DEF Loopback, FibreLoops, ControlLoops, OutputLoops, StatusLoops, SerialLoops,
         InterruptLoops, SpiLoops, Wire
<1>2. CASE t = <<"LOOPBACK_TEST", 29>>
  <2>1. Script(t) = << Expect({<<"SPI_STE_C28", ON>>}) >> /\ Wanted(t) = {<<"SPI_STE_C28", ON>>}
    BY <1>1, <1>2 DEF Script, Wanted, OneHandler, ON
  <2> QED BY <2>1, ExpectSays
<1>3. CASE t = <<"EXIO_TEST", 0>>
  <2>1. Script(t) = << Expect(Configured) >> /\ Wanted(t) = Configured
    BY <1>3 DEF Script, Wanted, ExIoTestRoutine
  <2> QED BY <2>1, ExpectSays
<1>4. CASE t = <<"ISO_PS_TEST", 0>>
  <2>1. /\ Script(t) = << Expect({<<"DCDC_STATUS", OFF>>}) >>
        /\ Wanted(t) = {<<"DCDC_STATUS", OFF>>}
    BY <1>4 DEF Script, Wanted, IsoPowerSupplyLoopBackTest
  <2> QED BY <2>1, ExpectSays
<1> QED BY <1>2, <1>3, <1>4 DEF OneReading

LEMMA ReadingsFind ==
    ASSUME NEW t \in OneReading
    PROVE  /\ Driven(t) = {} /\ Read(t) = {w[1] : w \in Wanted(t)}
           /\ \A f : f[1] \in Read(t) /\ ~Misleading(t, f) => Finds(Script(t), 1, f)
<1>1. /\ DOMAIN Script(t) = {1}
      /\ Script(t)[1].op = "expect" /\ Script(t)[1].want = Wanted(t)
  BY ReadingScripts
<1>2. Driven(t) = {}
  <2>1. \A l : l \notin Driven(t)
    BY <1>1, UsesSay
  <2> QED BY <2>1
<1>3. Read(t) = {w[1] : w \in Wanted(t)}
  <2>1. \A l : l \in Read(t) <=> \E w \in Wanted(t) : w[1] = l
    BY <1>1, UsesSay
  <2> QED BY <2>1
<1>4. ASSUME NEW f, f[1] \in Read(t), ~Misleading(t, f) PROVE Finds(Script(t), 1, f)
  <2>1. PICK w \in Wanted(t) : f[1] = w[1]
    BY <1>3, <1>4
  <2>2. f[2] # w[2]
    BY <1>4, <2>1 DEF OneReading, Wanted, Misleading
  <2> QED BY <1>1, <2>1, <2>2 DEF Finds
<1> QED BY <1>2, <1>3, <1>4

LEMMA TestsAreConclusive ==
    ASSUME NEW t \in (JigTest \ Useless) \ OneReading PROVE Conclusive(t, Script(t))
<1>1. CASE \E c \in DOMAIN Loopback : t = <<"LOOPBACK_TEST", c>>
  <2>1. PICK c \in DOMAIN Loopback : t = <<"LOOPBACK_TEST", c>>
    BY <1>1
  <2>2. c \notin {17, 18, 19, 20, 29, 32}
    BY <2>1 DEF Useless, OneReading
  <2>3. Script(t) = LoopbackScript(c)
    BY <2>1, <2>2 DEF Script, OneHandler
  <2> QED BY <2>1, <2>2, <2>3, LoopbackConclusive
<1>2. CASE \E c \in DOMAIN Pwm : t = <<"ADCP_TEST", c>>
  <2>1. PICK c \in DOMAIN Pwm : t = <<"ADCP_TEST", c>>
    BY <1>2
  <2>2. Script(t) = AdcpScript(c)
    BY <2>1 DEF Script
  <2> QED BY <2>1, <2>2, AdcpConclusive
<1>3. CASE t = <<"RS485_TEST", 0>>
  BY <1>3, Rs485Conclusive DEF Script
<1>4. CASE t = <<"RTC_TEST", 0>>
  BY <1>4, RtcConclusive DEF Script
<1>5. CASE t = <<"RAM_TEST", 0>>
  BY <1>5, RamConclusive DEF Script
<1>6. \/ \E c \in DOMAIN Loopback : t = <<"LOOPBACK_TEST", c>>
      \/ \E c \in DOMAIN Pwm : t = <<"ADCP_TEST", c>>
      \/ \E k \in OneHandler \cup {"RS485_TEST"} : t = <<k, 0>>
  BY DEF JigTest
<1> QED BY <1>1, <1>2, <1>3, <1>4, <1>5, <1>6 DEF OneHandler, OneReading

LEMMA EveryFaultIsFound ==
    ASSUME NEW t \in JigTest \ Useless, NEW f, f[1] \in Driven(t) \cup Read(t), ~Misleading(t, f)
    PROVE  \E i \in DOMAIN Script(t) : Finds(Script(t), i, f)
<1>1. CASE t \in OneReading
  <2>1. 1 \in DOMAIN Script(t)
    BY <1>1, ReadingScripts
  <2> QED BY <1>1, <2>1, ReadingsFind
<1>2. CASE t \notin OneReading
  BY <1>2, TestsAreConclusive DEF Conclusive
<1> QED BY <1>1, <1>2

LEMMA SetUpIsNotDriven == ASSUME NEW t \in JigTest \ Useless PROVE Driven(t) \cap AtBoot = {}
BY ReadingsFind, TestsAreConclusive DEF Conclusive

-----------------------------------------------------------------------------
(***************************************************************************)
(* What the readings give in a state of the model: lines have the levels   *)
(* that the first i - 1 steps of a script gave them, and what was set up   *)
(* at boot is as it was.                                                   *)
(***************************************************************************)
Followed(lv, s, i) == \A l \in Line : \A v : Commanded(s, i, l, v) => lv[l] = v

Boot ==
    /\ \A w \in Configured : level[w[1]] = w[2]
    /\ level["DCDC_CONTROL"] = OFF

LEMMA WireCarries ==
    ASSUME NEW c \in DOMAIN Loopback \ {17, 18, 19, 20, 29, 32}
    PROVE  /\ Carried(Loopback[c].sense) = {Actual(Loopback[c].drive)}
           /\ Loopback[c].drive \notin I2cPin
<1> DEFINE l == Loopback[c].drive
           r == Loopback[c].sense
<1>1. /\ l \notin I2cPin /\ r \notin Cells \cup AtBoot \cup {x.rx : x \in Transceiver}
      /\ r \notin {"DCDC_STATUS"} \cup Range(Adc) /\ r \notin {"HRADC_INT_STS", "SPI_STE_C28"}
      /\ \A d \in DOMAIN Loopback : Loopback[d].sense = r => d = c
  BY LoopbackLines
<1>2. Source(r) = l
  <2>1. ~(\E d \in DOMAIN Adc : Adc[d] = r)
    BY <1>1 DEF Range
  <2>2. \A w \in Range(Loopback) : w.sense = r => w = Loopback[c]
    BY <1>1 DEF Range
  <2>3. Loopback[c] \in Range(Loopback) /\ Loopback[c].sense = r
    BY DEF Range
  <2>4. (CHOOSE w \in Range(Loopback) : w.sense = r) = Loopback[c]
    <3> HIDE DEF r
    <3> QED BY <2>2, <2>3
  <2> QED BY <2>1, <2>4 DEF Source
<1> HIDE DEF l, r
<1>3. Carried(r) = {Actual(Source(r))}
  BY <1>1 DEF Carried
<1> QED BY <1>1, <1>2, <1>3 DEF l, r

LEMMA AdcCarries ==
    ASSUME NEW c \in DOMAIN Pwm
    PROVE  Carried(Adc[c]) = {Actual(Pwm[c])} /\ Pwm[c] \notin I2cPin
<1> DEFINE r == Adc[c]
<1>1. /\ Pwm[c] \notin I2cPin /\ r \notin Cells \cup AtBoot \cup {x.rx : x \in Transceiver}
      /\ r \notin {"DCDC_STATUS", "HRADC_INT_STS", "SPI_STE_C28"}
      /\ c \in DOMAIN Adc /\ \A d \in DOMAIN Adc : Adc[d] = r => d = c
  BY AdcLines
<1>2. (CHOOSE d \in DOMAIN Adc : Adc[d] = r) = c
  BY <1>1
<1>3. Source(r) = Pwm[c]
  BY <1>1, <1>2 DEF Source
<1> HIDE DEF r
<1>4. Carried(r) = {Actual(Source(r))}
  BY <1>1 DEF Carried
<1> QED BY <1>1, <1>3, <1>4 DEF r

LEMMA CellCarries ==
    ASSUME NEW l \in Cells PROVE Carried(l) = {Actual(l)} /\ l \notin I2cPin
BY CellLines DEF Carried

LEMMA BusCarries ==
    ASSUME NEW s, NEW i, NEW x \in Transceiver, NEW y \in Transceiver, Followed(level, s, i),
           Commanded(s, i, x.rd, ON),
           \A z \in Transceiver \ {x} : Commanded(s, i, z.rd, OFF),
           \A z \in Transceiver : fault[1] # z.rd
    PROVE  Carried(y.rx) = {Actual(x.tx)} /\ x.tx \notin I2cPin
<1>1. \A z \in Transceiver : z.rd \notin I2cPin /\ z.tx \notin I2cPin
  BY DEF Transceiver, I2cPin
<1>2. \A z \in Transceiver : Actual(z.rd) = level[z.rd]
  BY <1>1 DEF Actual
<1>3. /\ level[x.rd] = ON /\ \A z \in Transceiver \ {x} : level[z.rd] = OFF
  BY DEF Followed, Line
<1>4. Talking = {x}
  BY <1>2, <1>3 DEF Talking, ON, OFF
<1>5. Cardinality(Talking) = 1
  BY <1>4, FS_Singleton
<1>6. BusLevels = {Actual(x.tx)}
  BY <1>4, <1>5 DEF BusLevels
<1>7. y.rx \in {z.rx : z \in Transceiver}
  OBVIOUS
<1>8. /\ y.rx \notin Cells \cup AtBoot
      /\ y.rx \notin {"DCDC_STATUS", "HRADC_INT_STS", "SPI_STE_C28"}
  BY <1>7, CellLines
<1>9. Carried(y.rx) = BusLevels
  BY <1>7, <1>8 DEF Carried
<1> QED BY <1>1, <1>6, <1>9

\* What is on the line that leads to r is what r reads.
LEMMA LeadsSays ==
    ASSUME NEW s, NEW i, NEW l, NEW r, Leads(s, i, l, r), Followed(level, s, i), fault[1] # r,
           /\ \E x \in Transceiver : l = x.tx
           /\ \A z \in Transceiver : Commanded(s, i, z.rd, ON) \/ Commanded(s, i, z.rd, OFF)
           => \A z \in Transceiver : fault[1] # z.rd
    PROVE  Readings(r) = {IF fault[1] = l THEN fault[2] ELSE level[l]}
<1>1. Carried(r) = {Actual(l)} /\ l \notin I2cPin
  <2>1. CASE l = r /\ r \in Cells
    BY <2>1, CellCarries
  <2>2. CASE \E c \in DOMAIN Pwm : l = Pwm[c] /\ r = Adc[c]
    BY <2>2, AdcCarries
  <2>3. CASE \E c \in DOMAIN Loopback \ {17, 18, 19, 20, 29, 32} :
                l = Loopback[c].drive /\ r = Loopback[c].sense
    BY <2>3, WireCarries
  <2>4. CASE \E x, y \in Transceiver :
                /\ l = x.tx /\ r = y.rx /\ Commanded(s, i, x.rd, ON)
                /\ \A z \in Transceiver \ {x} : Commanded(s, i, z.rd, OFF)
    <3>1. PICK x, y \in Transceiver :
                /\ l = x.tx /\ r = y.rx /\ Commanded(s, i, x.rd, ON)
                /\ \A z \in Transceiver \ {x} : Commanded(s, i, z.rd, OFF)
      BY <2>4
    <3>2. \A z \in Transceiver : Commanded(s, i, z.rd, ON) \/ Commanded(s, i, z.rd, OFF)
      BY <3>1
    <3>3. \A z \in Transceiver : fault[1] # z.rd
      BY <3>1, <3>2
    <3> QED BY <3>1, <3>3, BusCarries
  <2> QED BY <2>1, <2>2, <2>3, <2>4 DEF Leads
<1>2. Actual(l) = IF fault[1] = l THEN fault[2] ELSE level[l]
  BY <1>1 DEF Actual
<1> QED BY <1>1, <1>2 DEF Readings

LEMMA CommandedIsDriven ==
    ASSUME NEW t, NEW i \in 1 .. Len(Script(t)), DOMAIN Script(t) = 1 .. Len(Script(t)),
           NEW l, NEW v, Commanded(Script(t), i, l, v)
    PROVE  l \in Driven(t)
<1>1. PICK k \in 1 .. i - 1 : Script(t)[k] = Put(l, v)
  BY DEF Commanded
<1>2. k \in DOMAIN Script(t) /\ Script(t)[k].op = "put" /\ Script(t)[k].line = l
  BY <1>1, PutSays
<1> QED BY <1>2, UsesSay

LEMMA LevelOfDriven ==
    ASSUME NEW t \in OneReading, Boot, fault[1] \notin Read(t), ~Misleading(t, fault),
           NEW w \in Wanted(t)
    PROVE  Readings(w[1]) = {w[2]}
<1>1. fault[1] # w[1]
  BY ReadingsFind
<1>2. CASE t = <<"LOOPBACK_TEST", 29>>
  <2>1. w = <<"SPI_STE_C28", ON>>
    BY <1>2 DEF Wanted
  <2>2. Carried("SPI_STE_C28") = {ON}
    BY CellLines DEF Carried
  <2> QED BY <1>1, <2>1, <2>2 DEF Readings
<1>3. CASE t = <<"EXIO_TEST", 0>>
  <2>1. w \in Configured
    BY <1>3 DEF Wanted
  <2>2. w[1] \in AtBoot /\ w[1] \in {"EXIO1_CONFIG", "EXIO2_CONFIG"}
    BY <2>1 DEF AtBoot, Configured
  <2>3. w[1] \notin {x.rx : x \in Transceiver}
    BY <2>2 DEF Transceiver
  <2>4. Carried(w[1]) = {Actual(w[1])}
    BY <2>2, <2>3, CellLines DEF Carried
  <2>5. Actual(w[1]) = w[2]
    BY <1>1, <2>1, <2>2 DEF Actual, I2cPin, Boot
  <2> QED BY <1>1, <2>4, <2>5 DEF Readings
<1>4. CASE t = <<"ISO_PS_TEST", 0>>
  <2>1. w = <<"DCDC_STATUS", OFF>>
    BY <1>4 DEF Wanted
  <2>2. Carried("DCDC_STATUS") = {Actual("DCDC_CONTROL")}
    BY CellLines DEF Carried
  <2>3. Actual("DCDC_CONTROL") = OFF
    <3>1. fault[1] = "DCDC_CONTROL" => fault[2] = OFF
      BY <1>4 DEF Misleading
    <3> QED BY <3>1 DEF Actual, I2cPin, Boot
  <2> QED BY <1>1, <2>1, <2>2, <2>3 DEF Readings
<1> QED BY <1>2, <1>3, <1>4 DEF OneReading

\* A board without a fault the test could find gives the levels it wants.
LEMMA GoodReads ==
    ASSUME NEW t \in Test \ Useless, DOMAIN Script(t) = 1 .. Len(Script(t)),
           NEW i \in DOMAIN Script(t), Script(t)[i].op = "expect",
           Followed(level, Script(t), i), Boot, NEW w \in Script(t)[i].want,
           fault[1] \notin Driven(t) \cup Read(t), ~Misleading(t, fault)
    PROVE  Readings(w[1]) = {w[2]}
<1>0. t \in JigTest
  BY CampaignAssumption DEF Test
<1>1. CASE t \in OneReading
  <2>1. i = 1 /\ w \in Wanted(t)
    BY <1>1, ReadingScripts
  <2> QED BY <1>1, <2>1, LevelOfDriven
<1>2. CASE t \notin OneReading
  <2>1. Conclusive(t, Script(t))
    BY <1>0, <1>2, TestsAreConclusive
  <2>2. PICK l \in Driven(t) : Leads(Script(t), i, l, w[1]) /\ Commanded(Script(t), i, l, w[2])
    BY <2>1 DEF Conclusive
  <2>3. level[l] = w[2]
    BY <2>2 DEF Followed, Line
  <2>4. w[1] \in Read(t)
    BY UsesSay
  <2>5. \A z \in Transceiver :
            Commanded(Script(t), i, z.rd, ON) \/ Commanded(Script(t), i, z.rd, OFF)
                => fault[1] # z.rd
    BY CommandedIsDriven
  <2>6. Readings(w[1]) = {IF fault[1] = l THEN fault[2] ELSE level[l]}
    BY <2>2, <2>4, <2>5, LeadsSays
  <2> QED BY <2>3, <2>6
<1> QED BY <1>1, <1>2

\* A reading that finds the fault differs, whatever the bus does.
LEMMA FaultReads ==
    ASSUME NEW s, NEW i, Finds(s, i, fault), Followed(level, s, i)
    PROVE  \E w \in s[i].want : w[2] \notin Readings(w[1])
<1>1. PICK w \in s[i].want : /\ fault[2] # w[2]
                             /\ fault[1] = w[1] \/ Leads(s, i, fault[1], w[1])
  BY DEF Finds
<1>2. CASE fault[1] = w[1]
  BY <1>1, <1>2 DEF Readings
<1>3. CASE fault[1] # w[1]
  <2>1. (\E x \in Transceiver : fault[1] = x.tx) => \A z \in Transceiver : fault[1] # z.rd
    BY DEF Transceiver
  <2>2. Leads(s, i, fault[1], w[1])
    BY <1>1, <1>3
  <2>3. Readings(w[1]) = {IF fault[1] = fault[1] THEN fault[2] ELSE level[fault[1]]}
    BY <1>3, <2>1, <2>2, LeadsSays
  <2> QED BY <1>1, <2>3
<1> QED BY <1>2, <1>3

-----------------------------------------------------------------------------
(***************************************************************************)
(* The handler keeps to its script: step i of s comes next, the lines have *)
(* the levels of the steps before it, and a fault that the test should     *)
(* find and that has been there from the start is found at a step ahead.   *)
(***************************************************************************)
Ahead(st, s, i) ==
    /\ i \in DOMAIN s /\ Len(st) = Len(s) + 1 - i
    /\ \A k \in 1 .. Len(st) : st[k] = s[i + k - 1]

Keeps(t, i) ==
    /\ Ahead(step, Script(t), i) /\ Followed(level, Script(t), i)
    /\ steady /\ fault[1] \in Driven(t) \cup Read(t) =>
          \E j \in DOMAIN Script(t) : j >= i /\ Finds(Script(t), j, fault)

KeepsToScript == Testing => \E i \in DOMAIN Script(run) : Keeps(run, i)

\* The host asks for the tests of its campaign.
AsksInCampaign ==
    /\ campaign \in Campaign /\ fault \in campaign.faults \cup {Good}
    /\ raised \subseteq Kind /\ channel \in [Kind -> Channel]
    /\ \A k \in raised : <<k, channel[k]>> \in Test => <<k, channel[k]>> \in campaign.tests
    /\ run \in campaign.tests \cup {Idle}

VerdictInv ==
    /\ AsksInCampaign /\ Boot /\ KeepsToScript
    /\ truth \in [Test -> {0, 1, Unknown}]
    /\ AnswerTellsTheFault

LEMMA AheadGoesOn ==
    ASSUME NEW S, NEW st \in Seq(S), NEW s, NEW n \in Nat, Len(s) = n, DOMAIN s = 1 .. n,
           NEW i, Ahead(st, s, i), Len(st) # 1, st # << >>
    PROVE  Ahead(Tail(st), s, i + 1)
<1>1. i \in 1 .. n /\ Len(st) = n + 1 - i /\ \A k \in 1 .. Len(st) : st[k] = s[i + k - 1]
  BY DEF Ahead
<1>2. Tail(st) \in Seq(S) /\ Len(Tail(st)) = Len(st) - 1
  OBVIOUS
<1>3. \A k \in 1 .. Len(st) - 1 : Tail(st)[k] = st[k + 1]
  BY <1>2
<1>4. i + 1 \in 1 .. n /\ Len(Tail(st)) = n + 1 - (i + 1)
  BY <1>1, <1>2
<1>5. ASSUME NEW k \in 1 .. Len(Tail(st)) PROVE Tail(st)[k] = s[(i + 1) + k - 1]
  <2>1. k + 1 \in 1 .. Len(st) /\ i + (k + 1) - 1 = (i + 1) + k - 1
    BY <1>1, <1>2
  <2> QED BY <1>1, <1>2, <1>3, <2>1
<1> QED BY <1>4, <1>5 DEF Ahead

LEMMA NextAhead ==
    ASSUME NEW st, NEW s, NEW i \in Nat, Ahead(st, s, i), 1 \in 1 .. Len(st)
    PROVE  st[1] = s[i]
<1>1. \A k \in 1 .. Len(st) : st[k] = s[i + k - 1]
  BY DEF Ahead
<1>2. i + 1 - 1 = i
  OBVIOUS
<1> QED BY <1>1, <1>2

LEMMA FollowedPut ==
    ASSUME NEW s, NEW i \in Nat \ {0}, NEW a, s[i] = a, a = Put(a.line, a.val), a.line \in Line,
           NEW lv, NEW lw, \A l \in Line : lw[l] = IF l = a.line THEN a.val ELSE lv[l],
           Followed(lv, s, i)
    PROVE  Followed(lw, s, i + 1)
<1> SUFFICES ASSUME NEW l \in Line, NEW v, Commanded(s, i + 1, l, v) PROVE lw[l] = v
  BY DEF Followed
<1>1. PICK k \in 1 .. i :
          s[k] = Put(l, v) /\ \A h \in k + 1 .. i : ~(s[h].op = "put" /\ s[h].line = l)
  BY DEF Commanded
<1>2. CASE k = i
  <2>1. a.line = l /\ a.val = v
    BY <1>1, <1>2, PutSays
  <2> QED BY <2>1
<1>3. CASE k # i
  <2>1. k \in 1 .. i - 1 /\ i \in k + 1 .. i
    BY <1>3
  <2>2. a.op = "put"
    BY PutSays
  <2>3. a.line # l
    BY <1>1, <2>1, <2>2
  <2>4. \A h \in k + 1 .. i - 1 : h \in k + 1 .. i
    BY <2>1
  <2>5. Commanded(s, i, l, v)
    BY <1>1, <2>1, <2>4 DEF Commanded
  <2> QED BY <2>3, <2>5 DEF Followed
<1> QED BY <1>2, <1>3

LEMMA FollowedRead ==
    ASSUME NEW s, NEW i \in Nat \ {0}, s[i].op # "put", NEW lv, Followed(lv, s, i)
    PROVE  Followed(lv, s, i + 1)
<1> SUFFICES ASSUME NEW l \in Line, NEW v, Commanded(s, i + 1, l, v) PROVE lv[l] = v
  BY DEF Followed
<1>1. PICK k \in 1 .. i :
          s[k] = Put(l, v) /\ \A h \in k + 1 .. i : ~(s[h].op = "put" /\ s[h].line = l)
  BY DEF Commanded
<1>2. k # i
  BY <1>1, PutSays
<1>3. k \in 1 .. i - 1 /\ \A h \in k + 1 .. i - 1 : h \in k + 1 .. i
  BY <1>2
<1>4. Commanded(s, i, l, v)
  BY <1>1, <1>3 DEF Commanded
<1> QED BY <1>4 DEF Followed

LEMMA ScriptIsSequence ==
    ASSUME NEW t \in Test
    PROVE  /\ Len(Script(t)) \in Nat \ {0} /\ DOMAIN Script(t) = 1 .. Len(Script(t))
           /\ t \in JigTest
<1>1. WellMade(Script(t), Rest(t))
  BY TestsAreWellMade
<1>2. Script(t) \in Seq(Range(Script(t))) /\ Script(t) # << >>
  BY <1>1 DEF WellMade
<1>3. Len(Script(t)) \in Nat \ {0} /\ DOMAIN Script(t) = 1 .. Len(Script(t))
  BY <1>2, EmptySeq
<1> QED BY <1>3, CampaignAssumption DEF Test

LEMMA NotBoth == ~(Testing /\ Concluding)
<1> SUFFICES ASSUME Testing, Concluding PROVE FALSE
  OBVIOUS
<1>1. run \in Test /\ WellMade(Script(run), Rest(run))
  BY TestsAreWellMade DEF Testing
<1>2. step \in Seq(Range(Rest(run))) /\ step # << >> /\ step[Len(step)].op = "expect"
  BY DEF Testing, Concluding
<1>3. step[Len(step)] \in Range(Rest(run))
  BY <1>2
<1> QED BY <1>1, <1>2, <1>3 DEF WellMade

LEMMA IdleIsNotTesting == run = Idle => ~Testing
  BY NoTestIsIdle DEF Testing

\* What is assumed of the campaigns, for one of them.
LEMMA CampaignTells ==
    ASSUME \A k \in Campaign : Tellable(k), AsksInCampaign, NEW t \in campaign.tests
    PROVE  /\ t \in Test /\ t \in Test \ Useless /\ ~Misleading(t, fault)
           /\ t \in JigTest \ Useless
<1>1. campaign \in Campaign /\ Tellable(campaign)
  BY DEF AsksInCampaign
<1>2. t \in Test /\ t \notin Useless
  BY <1>1 DEF Test, Tellable
<1>3. ~Misleading(t, Good)
  <2>1. /\ \A c \in DOMAIN RtcSram : RtcSram[c] # "no line"
        /\ \A c \in DOMAIN Sdram : Sdram[c] # "no line"
    <3>1. Cells \subseteq {"SRAM0", "SRAM1", "SRAM2", "SRAM3", "SRAM4", "SRAM5", "SRAM6",
                           "RAM0", "RAM4", "RAM8", "RAM12"}
      BY DEF Cells, Range, RtcSram, Sdram
    <3>2. "no line" \notin Cells
      BY <3>1
    <3> QED BY <3>2, RtcScript, RamScript
  <2>2. /\ \A w \in Configured : w[1] # "no line"
        /\ \A x \in Transceiver : x.rd # "no line"
    BY DEF Configured, Transceiver
  <2>3. Good[1] = "no line"
    BY DEF Good
  <2> QED BY <2>1, <2>2, <2>3 DEF Misleading
<1>4. fault \in campaign.faults \/ fault = Good
  BY DEF AsksInCampaign
<1> QED BY <1>1, <1>2, <1>3, <1>4, ScriptIsSequence DEF Tellable

LEMMA InitVerdicts == Init => VerdictInv
<1> SUFFICES ASSUME Init PROVE VerdictInv
  OBVIOUS
<1>1. AsksInCampaign
  <2>1. ASSUME NEW k \in Kind PROVE 0 \in Channel
    <3>1. <<k, 0>> \in Askable /\ <<k, 0>>[2] = 0
      BY DEF Askable, NoChannel
    <3> QED BY <3>1 DEF Channel
  <2> QED BY <2>1 DEF Init, AsksInCampaign
<1>2. Boot
  <2>1. \A l \in AtBoot : l \in Line
    BY DEF Line
  <2>2. "EXIO1_CONFIG" \in Line /\ "EXIO2_CONFIG" \in Line /\ "DCDC_CONTROL" \in Line
    BY <2>1 DEF AtBoot, Configured, DcdcOn
  <2>3. /\ level["EXIO1_CONFIG"] = 181 /\ level["EXIO2_CONFIG"] = 193
        /\ level["DCDC_CONTROL"] = OFF
    BY <2>2 DEF Init
  <2> QED BY <2>3 DEF Boot, Configured
<1>3. KeepsToScript
  BY IdleIsNotTesting DEF Init, KeepsToScript
<1>4. truth \in [Test -> {0, 1, Unknown}] /\ AnswerTellsTheFault
  BY DEF Init, AnswerTellsTheFault
<1> QED BY <1>1, <1>2, <1>3, <1>4 DEF VerdictInv

\* The host asks.
LEMMA RequestVerdicts ==
    ASSUME VerdictInv, NEW t \in Askable, Request(t) PROVE VerdictInv'
<1>1. /\ run = Idle /\ raised' = raised \cup {t[1]}
      /\ channel' = [channel EXCEPT ![t[1]] = t[2]]
      /\ UNCHANGED <<campaign, run, step, level, result, fault, steady, truth>>
  BY DEF Request
<1>2. t[1] \in Kind /\ t[2] \in Channel
  BY DEF Askable, Kind, Channel
<1>3. \A k \in Kind : channel'[k] = IF k = t[1] THEN t[2] ELSE channel[k]
  BY <1>1, <1>2 DEF VerdictInv, AsksInCampaign
<1>4. <<t[1], t[2]>> \in Test => <<t[1], t[2]>> \in campaign.tests
  <2> SUFFICES ASSUME <<t[1], t[2]>> \in Test PROVE <<t[1], t[2]>> \in campaign.tests
    OBVIOUS
  <2>1. PICK u \in campaign.tests : t[1] = u[1] /\ t[2] \in {u[2], NoChannel}
    BY DEF Request, AskableIn
  <2>2. u \in JigTest /\ <<t[1], t[2]>> \in JigTest
    BY CampaignAssumption DEF Test, VerdictInv, AsksInCampaign
  <2>3. u = <<u[1], u[2]>>
    BY <2>2 DEF JigTest
  <2>4. CASE t[2] = u[2]
    BY <2>1, <2>3, <2>4
  <2>5. CASE t[2] = 0
    <3>1. t[1] \in OneHandler \cup {"RS485_TEST"}
      <4>1. 0 \notin DOMAIN Loopback /\ 0 \notin DOMAIN Pwm
        BY LoopbackDomain DEF Pwm
      <4> QED BY <2>2, <2>5, <4>1 DEF JigTest
    <3>2. u[2] = 0
      BY <2>1, <2>2, <3>1 DEF JigTest, OneHandler
    <3> QED BY <2>1, <2>3, <2>5, <3>2
  <2> QED BY <2>1, <2>4, <2>5 DEF NoChannel
<1>5. AsksInCampaign'
  BY <1>1, <1>2, <1>3, <1>4 DEF VerdictInv, AsksInCampaign
<1>6. KeepsToScript'
  BY <1>1, IdleIsNotTesting DEF KeepsToScript, Testing
<1> QED BY <1>1, <1>5, <1>6 DEF VerdictInv, Boot, AnswerTellsTheFault, Answer

\* A handler is called: a fault that it should find is found ahead.
LEMMA StartVerdicts ==
    ASSUME \A k \in Campaign : Tellable(k), VerdictInv, LineInv, Start PROVE VerdictInv'
<1> PICK k \in raised :
        /\ run = Idle /\ raised' = raised \ {k}
        /\ run' = IF <<k, channel[k]>> \in Test THEN <<k, channel[k]>> ELSE Idle
        /\ step' = IF <<k, channel[k]>> \in Test THEN Script(<<k, channel[k]>>) ELSE << >>
        /\ steady' = TRUE
        /\ UNCHANGED <<campaign, channel, level, result, fault, truth>>
  BY DEF Start
<1> DEFINE t == <<k, channel[k]>>
<1>1. t \in Test => t \in campaign.tests
  BY DEF VerdictInv, AsksInCampaign
<1>2. AsksInCampaign'
  BY <1>1 DEF VerdictInv, AsksInCampaign
<1>3. KeepsToScript'
  <2>1. CASE t \notin Test
    BY <2>1, NoTestIsIdle DEF KeepsToScript, Testing
  <2>2. CASE t \in Test
    <3> HIDE DEF t
    <3>1. run' = t /\ step' = Script(t)
      BY <2>2 DEF t
    <3>2. Len(Script(t)) \in Nat \ {0} /\ DOMAIN Script(t) = 1 .. Len(Script(t))
      BY <2>2, ScriptIsSequence
    <3>3. 1 \in DOMAIN Script(t) /\ Ahead(Script(t), Script(t), 1)
      BY <3>2 DEF Ahead
    <3>4. Followed(level, Script(t), 1)
      BY DEF Followed, Commanded
    <3>5. fault[1] \in Driven(t) \cup Read(t) =>
              \E j \in DOMAIN Script(t) : j >= 1 /\ Finds(Script(t), j, fault)
      <4>1. t \in JigTest \ Useless /\ ~Misleading(t, fault)
        BY <1>1, <2>2, CampaignTells DEF VerdictInv
      <4>2. \A j \in DOMAIN Script(t) : j >= 1
        BY <3>2
      <4> QED BY <4>1, <4>2, EveryFaultIsFound
    <3>6. Keeps(run, 1)'
      BY <3>1, <3>3, <3>4, <3>5 DEF Keeps
    <3> QED BY <3>1, <3>3, <3>6 DEF KeepsToScript
  <2> QED BY <2>1, <2>2
<1> QED BY <1>2, <1>3 DEF VerdictInv, Boot, AnswerTellsTheFault, Answer

\* A test that runs is one of the campaign's, and its script goes on.
LEMMA Running ==
    ASSUME VerdictInv, LineInv, Testing
    PROVE  /\ run \in Test /\ run \in campaign.tests
           /\ \E i \in DOMAIN Script(run) :
                 /\ Keeps(run, i) /\ i \in Nat \ {0} /\ step[1] = Script(run)[i]
                 /\ i = Len(Script(run)) <=> Len(step) = 1
                 /\ Len(step) # 1 => /\ i + 1 \in DOMAIN Script(run)
                                     /\ Ahead(Tail(step), Script(run), i + 1)
<1>1. run \in Test /\ run \in campaign.tests
  BY NoTestIsIdle DEF Testing, VerdictInv, AsksInCampaign
<1>2. Len(Script(run)) \in Nat \ {0} /\ DOMAIN Script(run) = 1 .. Len(Script(run))
  BY <1>1, ScriptIsSequence
<1>3. PICK i \in DOMAIN Script(run) : Keeps(run, i)
  BY DEF VerdictInv, KeepsToScript
<1>4. Ahead(step, Script(run), i)
  BY <1>3 DEF Keeps
<1>5. step \in Seq(Range(Script(run))) /\ step # << >>
  BY DEF Testing
<1>6. Len(step) # 1 => Ahead(Tail(step), Script(run), i + 1)
  BY <1>2, <1>4, <1>5, AheadGoesOn
<1>7. Len(step) = Len(Script(run)) + 1 - i /\ 1 \in 1 .. Len(step) /\ i \in Nat \ {0}
  <2>1. Len(step) = Len(Script(run)) + 1 - i
    BY <1>4 DEF Ahead
  <2>2. i \in Nat \ {0}
    BY <1>2
  <2>3. Len(step) \in Nat /\ Len(step) # 0
    BY <1>5, EmptySeq
  <2>4. 1 \in 1 .. Len(step)
    BY <2>3
  <2> QED BY <2>1, <2>2, <2>4
<1>8. step[1] = Script(run)[i]
  <2>1. i \in Nat
    BY <1>7
  <2> QED BY <1>4, <1>7, <2>1, NextAhead, Zenon
<1>9. i = Len(Script(run)) <=> Len(step) = 1
  <2>1. \A n, m \in Nat : m = n + 1 - i => (i = n <=> m = 1)
    BY <1>7
  <2>2. Len(step) \in Nat
    BY <1>5
  <2> QED BY <1>2, <1>7, <2>1, <2>2
<1>10. Len(step) # 1 => i + 1 \in DOMAIN Script(run)
  BY <1>6 DEF Ahead
<1> QED BY <1>1, <1>3, <1>6, <1>7, <1>8, <1>9, <1>10

\* A line is written, by the script or in the end.
LEMMA PutVerdicts ==
    ASSUME \A k \in Campaign : Tellable(k), VerdictInv, LineInv, PutLine PROVE VerdictInv'
<1> DEFINE a == Head(step)
<1>1. /\ step # << >> /\ a.op = "put" /\ step' = Tail(step)
      /\ level' = [level EXCEPT ![a.line] = a.val]
      /\ UNCHANGED <<campaign, raised, channel, run, result, fault, steady, truth, asked>>
  BY DEF PutLine
<1>2. run \in Test /\ run \in campaign.tests /\ (Testing \/ Concluding)
  BY <1>1, NoTestIsIdle DEF LineInv, NoTestRuns, Testing, Concluding, VerdictInv, AsksInCampaign
<1>3. WellMade(Script(run), Rest(run))
  BY <1>2, TestsAreWellMade
<1>4. a \in Range(Script(run)) \/ (Concluding /\ a \in Range(Rest(run)))
  BY <1>1, <1>2 DEF Testing, Concluding
<1>5. a = Put(a.line, a.val) /\ a.line \in Line
  BY <1>1, <1>2, <1>3, <1>4, LinesDriven DEF WellMade
<1>6. a.line \notin AtBoot
  <2>1. Driven(run) \cap AtBoot = {}
    BY <1>2, CampaignTells, SetUpIsNotDriven DEF VerdictInv
  <2>2. \A l : Drives(Script(run), l) => l \in Driven(run)
    BY UsesSay DEF Drives, Range
  <2>3. \A x \in Transceiver : x.rd \notin AtBoot /\ x.tx \notin AtBoot
    BY DEF Transceiver, AtBoot, Configured, DcdcOn
  <2>4. CASE a \in Range(Script(run))
    BY <1>1, <2>1, <2>2, <2>4 DEF Drives
  <2>5. CASE a \in Range(Rest(run))
    <3>1. Drives(Script(run), a.line)
            \/ a.line \in {x.rd : x \in Transceiver} \cup {x.tx : x \in Transceiver}
      BY <1>3, <2>5 DEF WellMade
    <3> QED BY <2>1, <2>2, <2>3, <3>1
  <2> QED BY <1>4, <2>4, <2>5
<1>7. \A l \in Line : level'[l] = IF l = a.line THEN a.val ELSE level[l]
  BY <1>1, <1>5 DEF LineInv
<1>8. Boot'
  <2>1. \A l \in AtBoot : l \in Line /\ level'[l] = level[l]
    BY <1>6, <1>7 DEF Line
  <2>2. \A w \in Configured : w[1] \in AtBoot
    BY DEF AtBoot
  <2>3. "DCDC_CONTROL" \in AtBoot
    <3>1. DcdcOn \in Configured \cup {DcdcOn} /\ DcdcOn[1] = "DCDC_CONTROL"
      BY DEF DcdcOn
    <3> QED BY <3>1 DEF AtBoot
  <2> QED BY <2>1, <2>2, <2>3 DEF VerdictInv, Boot
<1>9. CASE Testing
  <2>1. PICK i \in DOMAIN Script(run) :
          /\ Keeps(run, i) /\ i \in Nat \ {0} /\ step[1] = Script(run)[i]
          /\ i = Len(Script(run)) <=> Len(step) = 1
          /\ Len(step) # 1 => /\ i + 1 \in DOMAIN Script(run)
                              /\ Ahead(Tail(step), Script(run), i + 1)
    BY <1>9, Running
  <2>2. Len(step) # 1 /\ step[1] = a
    BY <1>1, <1>9 DEF Testing
  <2>3. Followed(level', Script(run), i + 1)
    <3>1. Script(run)[i] = a /\ Followed(level, Script(run), i)
      BY <2>1, <2>2 DEF Keeps
    <3> HIDE DEF a
    <3> QED BY <2>1, <3>1, <1>5, <1>7, FollowedPut
  <2>4. ASSUME steady, fault[1] \in Driven(run) \cup Read(run)
        PROVE  \E j \in DOMAIN Script(run) : j >= i + 1 /\ Finds(Script(run), j, fault)
    <3>1. PICK j \in DOMAIN Script(run) : j >= i /\ Finds(Script(run), j, fault)
      BY <2>1, <2>4 DEF Keeps
    <3>2. j # i
      BY <1>1, <2>1, <2>2, <3>1 DEF Finds
    <3>3. j \in Nat
      BY <1>2, ScriptIsSequence
    <3> QED BY <2>1, <3>1, <3>2, <3>3
  <2>5. Keeps(run, i + 1)'
    BY <1>1, <2>1, <2>2, <2>3, <2>4 DEF Keeps
  <2>6. KeepsToScript'
    BY <1>1, <2>1, <2>2, <2>5 DEF KeepsToScript
  <2> QED BY <1>1, <1>8, <2>6 DEF VerdictInv, AsksInCampaign, AnswerTellsTheFault, Answer
<1>10. CASE Concluding
  <2>1. Concluding'
    BY <1>1, <1>10 DEF Concluding
  <2>2. (~Testing)'
    BY <2>1, NotBoth, PTL
  <2> QED BY <1>1, <1>8, <2>2 DEF VerdictInv, AsksInCampaign, KeepsToScript,
                                 AnswerTellsTheFault, Answer
<1> QED BY <1>2, <1>9, <1>10

\* The verdict of a test is what the fault of the board says, when that has
\* not changed: wrong for a fault among its lines, and right for none.
LEMMA VerdictIsRight ==
    ASSUME \A k \in Campaign : Tellable(k), VerdictInv, LineInv, Testing,
           NEW v \in {0, 1}, Conclude(run, v),
           v = 1 /\ steady => fault[1] \in Driven(run) \cup Read(run),
           v = 0 /\ steady => fault[1] \notin Driven(run) \cup Read(run)
    PROVE  truth' \in [Test -> {0, 1, Unknown}] /\ AnswerTellsTheFault'
<1>1. run \in Test /\ run \notin Useless
  BY Running, CampaignTells DEF VerdictInv
<1>2. PassTo(run) = run
  BY <1>1 DEF PassTo, Useless
<1>3. /\ result' = [x \in Test |-> IF x = run THEN v ELSE result[x]]
      /\ truth' = [truth EXCEPT ![run] = IF ~steady THEN Unknown
                                         ELSE IF fault[1] \in Driven(run) \cup Read(run)
                                              THEN 1 ELSE 0]
  BY <1>2 DEF Conclude
<1>4. truth \in [Test -> {0, 1, Unknown}] /\ AnswerTellsTheFault
  BY DEF VerdictInv
<1>5. truth' \in [Test -> {0, 1, Unknown}]
  BY <1>1, <1>3, <1>4
<1>6. ASSUME NEW t \in Test, truth'[t] # Unknown PROVE result'[t] = truth'[t]
  <2>1. CASE t = run
    BY <1>1, <1>3, <1>4, <1>6, <2>1
  <2>2. CASE t # run
    BY <1>1, <1>3, <1>4, <1>6, <2>2 DEF AnswerTellsTheFault, Answer
  <2> QED BY <2>1, <2>2
<1> QED BY <1>5, <1>6 DEF AnswerTellsTheFault, Answer

\* A line is read: the script goes on past a step that did not find the
\* fault, or the verdict is there.
LEMMA ReadVerdicts ==
    ASSUME \A k \in Campaign : Tellable(k), VerdictInv, LineInv, ReadLine PROVE VerdictInv'
<1>1. /\ run # Idle /\ step # << >> /\ Head(step).op = "expect"
      /\ UNCHANGED <<campaign, raised, channel, level, fault, steady, asked>>
  BY DEF ReadLine
<1>2. Testing
  <2>1. ~Concluding
    <3>1. Concluding => run \in Test /\ Head(step) \in Range(Rest(run))
      BY <1>1 DEF Concluding
    <3> QED BY <1>1, <3>1, TestsAreWellMade DEF WellMade
  <2> QED BY <1>1, <2>1 DEF LineInv, NoTestRuns
<1>3. run \in Test \ Useless /\ run \in campaign.tests /\ ~Misleading(run, fault)
  BY <1>2, Running, CampaignTells DEF VerdictInv
<1>4. Len(Script(run)) \in Nat \ {0} /\ DOMAIN Script(run) = 1 .. Len(Script(run))
  BY <1>3, ScriptIsSequence
<1>5. PICK i \in DOMAIN Script(run) :
        /\ Keeps(run, i) /\ i \in Nat \ {0} /\ step[1] = Script(run)[i]
        /\ i = Len(Script(run)) <=> Len(step) = 1
        /\ Len(step) # 1 => /\ i + 1 \in DOMAIN Script(run)
                            /\ Ahead(Tail(step), Script(run), i + 1)
  BY <1>2, Running
<1>6. Head(step) = Script(run)[i] /\ Script(run)[i].op = "expect"
  BY <1>1, <1>2, <1>5 DEF Testing
<1>7. Followed(level, Script(run), i)
  BY <1>5 DEF Keeps
<1>8. Boot' /\ AsksInCampaign /\ Boot
  BY <1>1 DEF VerdictInv, Boot
<1>9. ASSUME \A w \in Head(step).want : w[2] \in Readings(w[1]),
             steady, fault[1] \in Driven(run) \cup Read(run)
      PROVE  \E j \in DOMAIN Script(run) : j >= i + 1 /\ Finds(Script(run), j, fault)
  <2>1. PICK j \in DOMAIN Script(run) : j >= i /\ Finds(Script(run), j, fault)
    BY <1>5, <1>9 DEF Keeps
  <2>2. j # i
    BY <1>6, <1>7, <1>9, <2>1, FaultReads
  <2>3. j \in Nat
    BY <1>4
  <2> QED BY <1>5, <2>1, <2>2, <2>3
<1>10. CASE /\ \A w \in Head(step).want : w[2] \in Readings(w[1])
            /\ Len(step) # 1 /\ step' = Tail(step) /\ UNCHANGED <<run, result, truth>>
  <2>1. Followed(level, Script(run), i + 1)
    BY <1>5, <1>6, <1>7, FollowedRead
  <2>2. Keeps(run, i + 1)'
    BY <1>1, <1>5, <1>9, <1>10, <2>1 DEF Keeps
  <2>3. KeepsToScript'
    BY <1>5, <1>10, <2>2 DEF KeepsToScript
  <2> QED BY <1>1, <1>8, <1>10, <2>3 DEF VerdictInv, AsksInCampaign, AnswerTellsTheFault, Answer
<1>11. ASSUME NEW v \in {0, 1}, Conclude(run, v),
              v = 1 /\ steady => fault[1] \in Driven(run) \cup Read(run),
              v = 0 /\ steady => fault[1] \notin Driven(run) \cup Read(run)
       PROVE  VerdictInv'
  <2>1. truth' \in [Test -> {0, 1, Unknown}] /\ AnswerTellsTheFault'
    BY <1>2, <1>11, VerdictIsRight
  <2>2. step' = Rest(run) /\ run' = IF Rest(run) = << >> THEN Idle ELSE run
    BY <1>11 DEF Conclude
  <2>3. AsksInCampaign'
    BY <1>1, <1>8, <2>2 DEF AsksInCampaign
  <2>4. (~Testing)'
    <3>1. CASE Rest(run) = << >>
      BY <2>2, <3>1, NoTestIsIdle DEF Testing
    <3>2. CASE Rest(run) # << >>
      <4>1. Concluding'
        BY <1>3, <2>2, <3>2, TestsAreWellMade DEF Concluding, WellMade
      <4> QED BY <4>1, NotBoth, PTL
    <3> QED BY <3>1, <3>2
  <2> QED BY <1>8, <2>1, <2>3, <2>4 DEF VerdictInv, KeepsToScript
<1>12. CASE /\ \A w \in Head(step).want : w[2] \in Readings(w[1])
            /\ Len(step) = 1 /\ Conclude(run, 0)
  <2>1. steady => fault[1] \notin Driven(run) \cup Read(run)
    BY <1>4, <1>5, <1>9, <1>12
  <2> QED BY <1>11, <1>12, <2>1
<1>13. CASE /\ \E w \in Head(step).want : Readings(w[1]) \ {w[2]} # {}
            /\ Conclude(run, 1)
  <2>1. fault[1] \in Driven(run) \cup Read(run)
    BY <1>3, <1>4, <1>6, <1>7, <1>8, <1>13, GoodReads
  <2> QED BY <1>11, <1>13, <2>1
<1> QED BY <1>10, <1>12, <1>13 DEF ReadLine

LEMMA VerdictStep ==
    ASSUME \A k \in Campaign : Tellable(k), VerdictInv, LineInv, [Next]_vars PROVE VerdictInv'
<1>1. CASE Return
  <2>1. run' = Idle /\ step' = << >> /\ UNCHANGED <<campaign, raised, channel, level, result,
                                                    fault, steady, truth>>
    BY <1>1 DEF Return
  <2>2. (~Testing)'
    BY <2>1 DEF Testing
  <2> QED BY <2>1, <2>2 DEF VerdictInv, AsksInCampaign, Boot, KeepsToScript,
                           AnswerTellsTheFault, Answer
<1>2. CASE BoardChanges
  <2>1. /\ UNCHANGED <<campaign, raised, channel, run, step, level, result, truth>>
        /\ steady' = FALSE /\ fault' \in campaign.faults \cup {Good}
    BY <1>2 DEF BoardChanges
  <2>2. Testing' <=> Testing
    BY <2>1 DEF Testing
  <2>3. \A i : Keeps(run, i) => Keeps(run, i)'
    BY <2>1 DEF Keeps
  <2> QED BY <2>1, <2>2, <2>3 DEF VerdictInv, AsksInCampaign, Boot, KeepsToScript,
                                 AnswerTellsTheFault, Answer
<1>3. CASE UNCHANGED vars
  BY <1>3 DEF vars, VerdictInv, AsksInCampaign, Boot, KeepsToScript, Keeps, Testing,
              AnswerTellsTheFault, Answer
<1> QED BY <1>1, <1>2, <1>3, RequestVerdicts, StartVerdicts, PutVerdicts, ReadVerdicts
        DEF Next

(***************************************************************************)
(* Every test tells the fault: its answer is an error exactly when a line  *)
(* it uses is at fault, if the board did not change during its last run.   *)
(* For all campaigns without the tests and the faults that cannot be told. *)
(***************************************************************************)
THEOREM AnswersTellTheFault ==
    ASSUME \A k \in Campaign : Tellable(k) PROVE Spec => []AnswerTellsTheFault
<1>1. Init => LineInv /\ VerdictInv
  BY InitLines, InitVerdicts
<1>2. (LineInv /\ VerdictInv) /\ [Next]_vars => (LineInv /\ VerdictInv)'
  BY LineStep, VerdictStep
<1>3. VerdictInv => AnswerTellsTheFault
  BY DEF VerdictInv
<1> QED BY <1>1, <1>2, <1>3, PTL DEF Spec

=============================================================================
