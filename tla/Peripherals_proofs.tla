-------------------------- MODULE Peripherals_proofs --------------------------
(***************************************************************************)
(* Proofs about Peripherals: the registers hold what was set except where  *)
(* the library takes no lock, the bytes of a uart_write stay together and  *)
(* meet no full FIFO, and a spi_transaction gets its own answer.           *)
(*                                                                         *)
(* The scripts are a finite list, so what every access of one may do is    *)
(* proved from their definitions first (SerialScript, BareScript). Each    *)
(* step of a program is then reduced to one of a few forms (Moves), and    *)
(* the parts of the invariant are shown to survive each form: who holds    *)
(* which lock (OwnerInv), where a script is (ScriptInv), what a program    *)
(* knows of a register it has read (AgreeInv), why CTRL0 may be disabled   *)
(* or in reset (OnInv, ResetInv), what the SPI controller is doing         *)
(* (SpiInv), that a FIFO status still holds (FifoInv) and that a call's    *)
(* bytes are the last ones (BytesInv).                                     *)
(*                                                                         *)
(* Then about NamedLock, and at last about I2cBus, whose transactions use  *)
(* the same locks: its part begins with what the proofs call things.       *)
(***************************************************************************)
EXTENDS Peripherals, NamedLock, I2cBus, SequenceTheorems, WellFoundedInduction, TLAPS

-----------------------------------------------------------------------------
(* The scripts. *)

\* An access is to a register's own fields; a write without a read gives all.
StepOK(s) ==
    /\ s.kind \in {"rmw", "put", "test"} /\ s.reg \in Registers
    /\ s.set \in [DOMAIN s.set -> {0, 1}] /\ DOMAIN s.set \subseteq Fields[s.reg]
    /\ s.kind = "put" => DOMAIN s.set = Fields[s.reg]

\* Whether uart_configure is between setting and clearing the reset bits.
Resets(steps, n) == n \in {2, 3} /\ Len(steps) = 7

\* What an access under uart_lock does to CTRL0: reset bits are set only by
\* uart_configure, which clears them with its next access, and the last access
\* enables the port, unless the operation has only one.
SerialStep(steps, n) ==
    LET s == steps[n] IN
    /\ StepOK(s) /\ s.kind # "test"
    /\ s.reg = "ctrl0" /\ s.kind = "put" => n = 2 /\ Len(steps) = 7
    /\ s.reg = "ctrl0" /\ s.kind = "rmw" /\ "reset" \in DOMAIN s.set => s.set["reset"] = 0
    /\ n = 2 /\ Len(steps) = 7 => s.reg = "ctrl0" /\ s.kind = "put"
    /\ n = 3 /\ Len(steps) = 7 => s.reg = "ctrl0" /\ s.kind = "rmw" /\ "reset" \in DOMAIN s.set
    /\ n = Len(steps) => s.reg = "ctrl0" /\ s.kind = "rmw" /\ "reset" \notin DOMAIN s.set
    /\ n = Len(steps) /\ n # 1 => "on" \in DOMAIN s.set /\ s.set["on"] = 1
    /\ Len(steps) = 1 => "on" \notin DOMAIN s.set

SerialScript(steps) ==
    Len(steps) \in Nat \ {0} /\ \A n \in 1..Len(steps) : SerialStep(steps, n)

LEMMA FieldsOf ==
    /\ Fields["ctrl0"] = {"on", "tx_en", "rx_en", "format", "flow", "loop", "reset"}
    /\ Fields["ctrl1"] = {"baud"} /\ Enables = {"on", "tx_en", "rx_en"}
    /\ Fields["dir"] = Pins \cup {"p8", "p11"} /\ Fields["out"] = Pins
    /\ Fields["mux"] = {"p9", "vsync"}
    /\ Registers = {"ctrl0", "ctrl1", "dir", "out", "mux"}
BY DEF Fields, Registers, Enables

(* The elements of a concatenation. *)
LEMMA ConcatFacts ==
    ASSUME NEW S, NEW s \in Seq(S), NEW t \in Seq(S)
    PROVE  /\ s \o t \in Seq(S) /\ Len(s \o t) = Len(s) + Len(t)
           /\ \A i \in 1..Len(s \o t) :
                 (s \o t)[i] = IF i <= Len(s) THEN s[i] ELSE t[i - Len(s)]
OBVIOUS

Joined3(a, b, c) == (a \o b) \o c
Joined4(a, b, c, d) == (a \o b) \o c \o d

\* An access, then three, then two, then one.
LEMMA Concat1321 ==
    ASSUME NEW s1, NEW s2, NEW s3, NEW s4, NEW s5, NEW s6, NEW s7,
           NEW c, c = Joined4(<<s1>>, <<s2, s3, s4>>, <<s5, s6>>, <<s7>>)
    PROVE  Len(c) = 7 /\ c[1] = s1 /\ c[2] = s2 /\ c[3] = s3 /\ c[4] = s4 /\ c[5] = s5
           /\ c[6] = s6 /\ c[7] = s7
<1>0. PICK S : S = {s1, s2, s3, s4, s5, s6, s7}
  OBVIOUS
<1>1. PICK t1, t2, t3, t4 : t1 = <<s1>> /\ t2 = <<s2, s3, s4>> /\ t3 = <<s5, s6>> /\ t4 = <<s7>>
  OBVIOUS
<1>2. PICK a, b : a = t1 \o t2 /\ b = a \o t3
  OBVIOUS
<1>3. PICK e : e = b \o t4
  OBVIOUS
<1>4. /\ t1 \in Seq(S) /\ Len(t1) = 1 /\ t1[1] = s1
      /\ t2 \in Seq(S) /\ Len(t2) = 3 /\ t2[1] = s2 /\ t2[2] = s3 /\ t2[3] = s4
      /\ t3 \in Seq(S) /\ Len(t3) = 2 /\ t3[1] = s5 /\ t3[2] = s6
      /\ t4 \in Seq(S) /\ Len(t4) = 1 /\ t4[1] = s7
  BY <1>0, <1>1
<1>t. t1 \in Seq(S) /\ t2 \in Seq(S) /\ t3 \in Seq(S)
  BY <1>4
<1>5. /\ a \in Seq(S) /\ Len(a) = Len(t1) + Len(t2)
      /\ \A i \in 1..Len(a) : a[i] = IF i <= Len(t1) THEN t1[i] ELSE t2[i - Len(t1)]
  BY <1>2, <1>t, ConcatFacts
<1>a. a \in Seq(S)
  BY <1>5
<1>6. Len(a) = 4 /\ a[1] = s1 /\ a[2] = s2 /\ a[3] = s3 /\ a[4] = s4
  BY <1>4, <1>5
<1>7. /\ b \in Seq(S) /\ Len(b) = Len(a) + Len(t3)
      /\ \A i \in 1..Len(b) : b[i] = IF i <= Len(a) THEN a[i] ELSE t3[i - Len(a)]
  BY <1>2, <1>t, <1>a, ConcatFacts
<1>b. b \in Seq(S)
  BY <1>7
<1>u. t4 \in Seq(S)
  BY <1>4
<1>8. Len(b) = 6 /\ b[1] = s1 /\ b[2] = s2 /\ b[3] = s3 /\ b[4] = s4 /\ b[5] = s5 /\ b[6] = s6
  BY <1>4, <1>6, <1>7
<1>9. /\ Len(e) = Len(b) + Len(t4)
      /\ \A i \in 1..Len(e) : e[i] = IF i <= Len(b) THEN b[i] ELSE t4[i - Len(b)]
  BY <1>3, <1>u, <1>b, ConcatFacts
<1>10. Len(e) = 7 /\ e[1] = s1 /\ e[2] = s2 /\ e[3] = s3 /\ e[4] = s4 /\ e[5] = s5
       /\ e[6] = s6 /\ e[7] = s7
  BY <1>4, <1>8, <1>9
<1>11. c = e
  BY <1>1, <1>2, <1>3 DEF Joined3, Joined4
<1> QED
  BY <1>10, <1>11

\* An access, then another, then one.
LEMMA Concat111 ==
    ASSUME NEW s1, NEW s2, NEW s3, NEW c, c = Joined3(<<s1>>, <<s2>>, <<s3>>)
    PROVE  Len(c) = 3 /\ c[1] = s1 /\ c[2] = s2 /\ c[3] = s3
<1>0. PICK S : S = {s1, s2, s3}
  OBVIOUS
<1>1. PICK t1, t2, t3 : t1 = <<s1>> /\ t2 = <<s2>> /\ t3 = <<s3>>
  OBVIOUS
<1>2. PICK a : a = t1 \o t2
  OBVIOUS
<1>3. PICK e : e = a \o t3
  OBVIOUS
<1>4. /\ t1 \in Seq(S) /\ Len(t1) = 1 /\ t1[1] = s1 /\ t2 \in Seq(S) /\ Len(t2) = 1 /\ t2[1] = s2
      /\ t3 \in Seq(S) /\ Len(t3) = 1 /\ t3[1] = s3
  BY <1>0, <1>1
<1>t. t1 \in Seq(S) /\ t2 \in Seq(S) /\ t3 \in Seq(S)
  BY <1>4
<1>5. /\ a \in Seq(S) /\ Len(a) = Len(t1) + Len(t2)
      /\ \A i \in 1..Len(a) : a[i] = IF i <= Len(t1) THEN t1[i] ELSE t2[i - Len(t1)]
  BY <1>2, <1>t, ConcatFacts
<1>a. a \in Seq(S)
  BY <1>5
<1>6. Len(a) = 2 /\ a[1] = s1 /\ a[2] = s2
  BY <1>4, <1>5
<1>7. /\ Len(e) = Len(a) + Len(t3)
      /\ \A i \in 1..Len(e) : e[i] = IF i <= Len(a) THEN a[i] ELSE t3[i - Len(a)]
  BY <1>3, <1>t, <1>a, ConcatFacts
<1>8. Len(e) = 3 /\ e[1] = s1 /\ e[2] = s2 /\ e[3] = s3
  BY <1>4, <1>6, <1>7
<1>9. c = e
  BY <1>1, <1>2, <1>3 DEF Joined3, Joined4
<1> QED
  BY <1>8, <1>9

\* An access, then another, then two, then one.
LEMMA Concat1121 ==
    ASSUME NEW s1, NEW s2, NEW s3, NEW s4, NEW s5,
           NEW c, c = Joined4(<<s1>>, <<s2>>, <<s3, s4>>, <<s5>>)
    PROVE  Len(c) = 5 /\ c[1] = s1 /\ c[2] = s2 /\ c[3] = s3 /\ c[4] = s4 /\ c[5] = s5
<1>0. PICK S : S = {s1, s2, s3, s4, s5}
  OBVIOUS
<1>1. PICK t1, t2, t3, t4 : t1 = <<s1>> /\ t2 = <<s2>> /\ t3 = <<s3, s4>> /\ t4 = <<s5>>
  OBVIOUS
<1>2. PICK a, b : a = t1 \o t2 /\ b = a \o t3
  OBVIOUS
<1>3. PICK e : e = b \o t4
  OBVIOUS
<1>4. /\ t1 \in Seq(S) /\ Len(t1) = 1 /\ t1[1] = s1 /\ t2 \in Seq(S) /\ Len(t2) = 1 /\ t2[1] = s2
      /\ t3 \in Seq(S) /\ Len(t3) = 2 /\ t3[1] = s3 /\ t3[2] = s4
      /\ t4 \in Seq(S) /\ Len(t4) = 1 /\ t4[1] = s5
  BY <1>0, <1>1
<1>t. t1 \in Seq(S) /\ t2 \in Seq(S) /\ t3 \in Seq(S)
  BY <1>4
<1>5. /\ a \in Seq(S) /\ Len(a) = Len(t1) + Len(t2)
      /\ \A i \in 1..Len(a) : a[i] = IF i <= Len(t1) THEN t1[i] ELSE t2[i - Len(t1)]
  BY <1>2, <1>t, ConcatFacts
<1>a. a \in Seq(S)
  BY <1>5
<1>6. Len(a) = 2 /\ a[1] = s1 /\ a[2] = s2
  BY <1>4, <1>5
<1>7. /\ b \in Seq(S) /\ Len(b) = Len(a) + Len(t3)
      /\ \A i \in 1..Len(b) : b[i] = IF i <= Len(a) THEN a[i] ELSE t3[i - Len(a)]
  BY <1>2, <1>t, <1>a, ConcatFacts
<1>b. b \in Seq(S)
  BY <1>7
<1>u. t4 \in Seq(S)
  BY <1>4
<1>8. Len(b) = 4 /\ b[1] = s1 /\ b[2] = s2 /\ b[3] = s3 /\ b[4] = s4
  BY <1>4, <1>6, <1>7
<1>9. /\ Len(e) = Len(b) + Len(t4)
      /\ \A i \in 1..Len(e) : e[i] = IF i <= Len(b) THEN b[i] ELSE t4[i - Len(b)]
  BY <1>3, <1>u, <1>b, ConcatFacts
<1>10. Len(e) = 5 /\ e[1] = s1 /\ e[2] = s2 /\ e[3] = s3 /\ e[4] = s4 /\ e[5] = s5
  BY <1>4, <1>8, <1>9
<1>11. c = e
  BY <1>1, <1>2, <1>3 DEF Joined3, Joined4
<1> QED
  BY <1>10, <1>11

LEMMA ConfigureSerial == ASSUME NEW v \in {0, 1} PROVE SerialScript(uart_configure(v))
<1>1. PICK c : c = uart_configure(v)
  OBVIOUS
<1>2. PICK s1, s2, s3, s4, s5, s6, s7 :
         /\ s1 = Rmw("ctrl0", [f \in Enables |-> 0])
         /\ s2 = Put("ctrl0", [f \in Fields.ctrl0 |-> IF f = "reset" THEN 1 ELSE 0])
         /\ s3 = Rmw("ctrl0", [format |-> v, flow |-> v, reset |-> 0])
         /\ s4 = Rmw("ctrl1", [baud |-> v]) /\ s5 = Rmw("dir", [p8 |-> v, p11 |-> 1])
         /\ s6 = Rmw("mux", [p9 |-> 1]) /\ s7 = Rmw("ctrl0", [f \in Enables |-> 1])
  OBVIOUS
<1>3. c = Joined4(<<s1>>, <<s2, s3, s4>>, <<s5, s6>>, <<s7>>)
  BY <1>1, <1>2 DEF Joined4, uart_configure, uart_disable, uart_enable, FlowPins
<1>4. Len(c) = 7 /\ c[1] = s1 /\ c[2] = s2 /\ c[3] = s3 /\ c[4] = s4 /\ c[5] = s5
      /\ c[6] = s6 /\ c[7] = s7
  BY <1>3, Concat1321, SMT
<1>5. SerialStep(c, 1) /\ SerialStep(c, 2) /\ SerialStep(c, 3) /\ SerialStep(c, 4)
  BY <1>2, <1>4, FieldsOf DEF SerialStep, StepOK, Rmw, Put
<1>6. SerialStep(c, 5) /\ SerialStep(c, 6) /\ SerialStep(c, 7)
  BY <1>2, <1>4, FieldsOf DEF SerialStep, StepOK, Rmw, Put
<1>7. \A n \in 1..Len(c) : n = 1 \/ n = 2 \/ n = 3 \/ n = 4 \/ n = 5 \/ n = 6 \/ n = 7
  BY <1>4
<1> QED
  BY <1>1, <1>4, <1>5, <1>6, <1>7 DEF SerialScript

LEMMA FlowControlSerial == ASSUME NEW v \in {0, 1} PROVE SerialScript(uart_set_flow_control(v))
<1>1. PICK c : c = uart_set_flow_control(v)
  OBVIOUS
<1>2. PICK s1, s2, s3, s4, s5 :
         /\ s1 = Rmw("ctrl0", [f \in Enables |-> 0]) /\ s2 = Rmw("ctrl0", [flow |-> v])
         /\ s3 = Rmw("dir", [p8 |-> v, p11 |-> 1]) /\ s4 = Rmw("mux", [p9 |-> 1])
         /\ s5 = Rmw("ctrl0", [f \in Enables |-> 1])
  OBVIOUS
<1>3. c = Joined4(<<s1>>, <<s2>>, <<s3, s4>>, <<s5>>)
  BY <1>1, <1>2 DEF Joined4, uart_set_flow_control, uart_disable, uart_enable, FlowPins
<1>4. Len(c) = 5 /\ c[1] = s1 /\ c[2] = s2 /\ c[3] = s3 /\ c[4] = s4 /\ c[5] = s5
  BY <1>3, Concat1121, SMT
<1>5. SerialStep(c, 1) /\ SerialStep(c, 2) /\ SerialStep(c, 3) /\ SerialStep(c, 4) /\ SerialStep(c, 5)
  BY <1>2, <1>4, FieldsOf DEF SerialStep, StepOK, Rmw
<1>6. \A n \in 1..Len(c) : n = 1 \/ n = 2 \/ n = 3 \/ n = 4 \/ n = 5
  BY <1>4
<1> QED
  BY <1>1, <1>4, <1>5, <1>6 DEF SerialScript

LEMMA FormatSerial == ASSUME NEW v \in {0, 1} PROVE SerialScript(uart_set_format(v))
<1>1. PICK c : c = uart_set_format(v)
  OBVIOUS
<1>2. PICK s1, s2, s3 :
         /\ s1 = Rmw("ctrl0", [f \in Enables |-> 0]) /\ s2 = Rmw("ctrl0", [format |-> v])
         /\ s3 = Rmw("ctrl0", [f \in Enables |-> 1])
  OBVIOUS
<1>3. c = Joined3(<<s1>>, <<s2>>, <<s3>>)
  BY <1>1, <1>2 DEF Joined3, uart_set_format, uart_disable, uart_enable
<1>4. Len(c) = 3 /\ c[1] = s1 /\ c[2] = s2 /\ c[3] = s3
  BY <1>3, Concat111, SMT
<1>5. SerialStep(c, 1) /\ SerialStep(c, 2) /\ SerialStep(c, 3)
  BY <1>2, <1>4, FieldsOf DEF SerialStep, StepOK, Rmw
<1>6. \A n \in 1..Len(c) : n = 1 \/ n = 2 \/ n = 3
  BY <1>4
<1> QED
  BY <1>1, <1>4, <1>5, <1>6 DEF SerialScript

LEMMA BaudRateSerial == ASSUME NEW v \in {0, 1} PROVE SerialScript(uart_set_baud_rate(v))
<1>1. PICK c : c = uart_set_baud_rate(v)
  OBVIOUS
<1>2. PICK s1, s2, s3 :
         /\ s1 = Rmw("ctrl0", [f \in Enables |-> 0]) /\ s2 = Rmw("ctrl1", [baud |-> v])
         /\ s3 = Rmw("ctrl0", [f \in Enables |-> 1])
  OBVIOUS
<1>3. c = Joined3(<<s1>>, <<s2>>, <<s3>>)
  BY <1>1, <1>2 DEF Joined3, uart_set_baud_rate, uart_disable, uart_enable
<1>4. Len(c) = 3 /\ c[1] = s1 /\ c[2] = s2 /\ c[3] = s3
  BY <1>3, Concat111, SMT
<1>5. SerialStep(c, 1) /\ SerialStep(c, 2) /\ SerialStep(c, 3)
  BY <1>2, <1>4, FieldsOf DEF SerialStep, StepOK, Rmw
<1>6. \A n \in 1..Len(c) : n = 1 \/ n = 2 \/ n = 3
  BY <1>4
<1> QED
  BY <1>1, <1>4, <1>5, <1>6 DEF SerialScript

LEMMA TxEnableSerial == ASSUME NEW v \in {0, 1} PROVE SerialScript(uart_tx_enable(v))
<1>1. PICK c : c = uart_tx_enable(v)
  OBVIOUS
<1>2. Len(c) = 1 /\ c[1] = Rmw("ctrl0", [tx_en |-> v])
  BY <1>1 DEF uart_tx_enable
<1>3. SerialStep(c, 1)
  BY <1>2, FieldsOf DEF SerialStep, StepOK, Rmw
<1>4. \A n \in 1..Len(c) : n = 1
  BY <1>2
<1> QED
  BY <1>1, <1>2, <1>3, <1>4 DEF SerialScript

LEMMA RxEnableSerial == ASSUME NEW v \in {0, 1} PROVE SerialScript(uart_rx_enable(v))
<1>1. PICK c : c = uart_rx_enable(v)
  OBVIOUS
<1>2. Len(c) = 1 /\ c[1] = Rmw("ctrl0", [rx_en |-> v])
  BY <1>1 DEF uart_rx_enable
<1>3. SerialStep(c, 1)
  BY <1>2, FieldsOf DEF SerialStep, StepOK, Rmw
<1>4. \A n \in 1..Len(c) : n = 1
  BY <1>2
<1> QED
  BY <1>1, <1>2, <1>3, <1>4 DEF SerialScript

LEMMA LoopbackSerial == ASSUME NEW v \in {0, 1} PROVE SerialScript(uart_set_loopback(v))
<1>1. PICK c : c = uart_set_loopback(v)
  OBVIOUS
<1>2. Len(c) = 1 /\ c[1] = Rmw("ctrl0", [loop |-> v])
  BY <1>1 DEF uart_set_loopback
<1>3. SerialStep(c, 1)
  BY <1>2, FieldsOf DEF SerialStep, StepOK, Rmw
<1>4. \A n \in 1..Len(c) : n = 1
  BY <1>2
<1> QED
  BY <1>1, <1>2, <1>3, <1>4 DEF SerialScript

LEMMA SerializedScripts == \A steps \in Serialized : SerialScript(steps)
<1> SUFFICES ASSUME NEW steps \in Serialized PROVE SerialScript(steps)
  OBVIOUS
<1>1. PICK v \in {0, 1} : steps \in {uart_configure(v), uart_set_flow_control(v), uart_set_format(v),
                                     uart_set_baud_rate(v), uart_tx_enable(v), uart_rx_enable(v),
                                     uart_set_loopback(v)}
  BY DEF Serialized
<1> QED
  BY <1>1, ConfigureSerial, FlowControlSerial, FormatSerial, BaudRateSerial, TxEnableSerial,
     RxEnableSerial, LoopbackSerial, Zenon

\* What the operations without a lock do to the UART: only uart_enable and
\* uart_disable write to it, and they write the reset bits as they read them.
BareStep(steps, n) ==
    LET s == steps[n] IN
    /\ StepOK(s) /\ s.reg # "ctrl1"
    /\ s.reg = "ctrl0" => /\ s.kind = "rmw" /\ "reset" \notin DOMAIN s.set
                          /\ steps \in {uart_enable, uart_disable}

BareScript(steps) ==
    Len(steps) \in Nat \ {0} /\ \A n \in 1..Len(steps) : BareStep(steps, n)

LEMMA SingleBare ==
    ASSUME NEW c, NEW s, Len(c) = 1, c[1] = s, StepOK(s), s.reg # "ctrl1",
           s.reg = "ctrl0" => s.kind = "rmw" /\ "reset" \notin DOMAIN s.set
                              /\ c \in {uart_enable, uart_disable}
    PROVE  BareScript(c)
<1>1. BareStep(c, 1)
  BY DEF BareStep
<1>2. \A n \in 1..Len(c) : n = 1
  OBVIOUS
<1> QED
  BY <1>1, <1>2 DEF BareScript

LEMMA EnableBare == BareScript(uart_enable) /\ BareScript(uart_disable)
<1>1. PICK c, s : c = uart_enable /\ s = Rmw("ctrl0", [f \in Enables |-> 1])
  OBVIOUS
<1>2. Len(c) = 1 /\ c[1] = s /\ StepOK(s) /\ s.reg = "ctrl0" /\ s.kind = "rmw"
      /\ "reset" \notin DOMAIN s.set
  BY <1>1, FieldsOf DEF uart_enable, StepOK, Rmw
<1>3. PICK d, t : d = uart_disable /\ t = Rmw("ctrl0", [f \in Enables |-> 0])
  OBVIOUS
<1>4. Len(d) = 1 /\ d[1] = t /\ StepOK(t) /\ t.reg = "ctrl0" /\ t.kind = "rmw"
      /\ "reset" \notin DOMAIN t.set
  BY <1>3, FieldsOf DEF uart_disable, StepOK, Rmw
<1>5. BareScript(c)
  BY <1>1, <1>2, SingleBare
<1>6. BareScript(d)
  BY <1>3, <1>4, SingleBare
<1> QED
  BY <1>1, <1>3, <1>5, <1>6

LEMMA GpioBare ==
    ASSUME NEW pin \in Pins, NEW v \in {0, 1}
    PROVE  BareScript(set_direction(pin, v)) /\ BareScript(set_value(pin, v))
<1>1. PICK c, s : c = set_direction(pin, v) /\ s = Rmw("dir", [f \in {pin} |-> v])
  OBVIOUS
<1>2. Len(c) = 1 /\ c[1] = s /\ StepOK(s) /\ s.reg = "dir"
  BY <1>1, FieldsOf DEF set_direction, StepOK, Rmw
<1>3. BareScript(c)
  BY <1>2, SingleBare
<1>4. PICK d, t1, t2 : /\ d = set_value(pin, v) /\ t1 = Test("dir", [f \in {pin} |-> 0])
                       /\ t2 = Rmw("out", [f \in {pin} |-> v])
  OBVIOUS
<1>5. Len(d) = 2 /\ d[1] = t1 /\ d[2] = t2
  BY <1>4 DEF set_value
<1>6. StepOK(t1) /\ StepOK(t2) /\ t1.reg = "dir" /\ t2.reg = "out"
  BY <1>4, FieldsOf DEF StepOK, Rmw, Test
<1>7. BareStep(d, 1) /\ BareStep(d, 2)
  BY <1>5, <1>6 DEF BareStep
<1>8. \A n \in 1..Len(d) : n = 1 \/ n = 2
  BY <1>5
<1>9. BareScript(d)
  BY <1>5, <1>7, <1>8 DEF BareScript
<1> QED
  BY <1>1, <1>3, <1>4, <1>9

LEMMA PtpBare == BareScript(ptp_setup)
<1>1. PICK c, s : c = ptp_setup /\ s = Put("mux", [p9 |-> 0, vsync |-> 1])
  OBVIOUS
<1>2. Len(c) = 1 /\ c[1] = s /\ StepOK(s) /\ s.reg = "mux"
  BY <1>1, FieldsOf DEF ptp_setup, StepOK, Put
<1>3. BareScript(c)
  BY <1>2, SingleBare
<1> QED
  BY <1>1, <1>3

LEMMA UnserializedScripts == \A steps \in Unserialized : BareScript(steps)
<1> SUFFICES ASSUME NEW steps \in Unserialized PROVE BareScript(steps)
  OBVIOUS
<1>1. \/ steps \in {uart_enable, uart_disable, ptp_setup}
      \/ \E pin \in Pins, v \in {0, 1} : steps \in {set_direction(pin, v), set_value(pin, v)}
  BY DEF Unserialized
<1> QED
  BY <1>1, EnableBare, GpioBare, PtpBare, Zenon

-----------------------------------------------------------------------------
(* What a program does, and how a step changes it. *)

Scripts == Serialized \cup Unserialized
Vals == {<<>>} \cup UNION {[Fields[r] -> {0, 1}] : r \in Registers}
Activity == [op : {"idle", "script", "uart_write", "uart_read", "spi"}, id : Nat,
             steps : Scripts \cup {<<>>}, phase : Phases, val : Vals, n : Nat]

ProgType == prog \in [Programs -> Activity]

Others(p) == \A q \in Programs : q # p => prog'[q] = prog[q]

\* An operation begins, with its lock if it has one.
Began(p, op) ==
    /\ Others(p) /\ prog[p].op = "idle" /\ ops < MaxOps /\ ops' = ops + 1
    /\ prog'[p].op = op /\ prog'[p].id = ops + 1 /\ prog'[p].n = 1
    /\ repeated' = repeated /\ failed' = failed
LocksUart(p) == uart_lock = None /\ uart_lock' = p /\ spi_lock' = spi_lock
BeganScript(p) ==
    /\ Began(p, "script") /\ prog'[p].phase = Enter(prog'[p].steps, 1)
    /\ \/ prog'[p].steps \in Serialized /\ LocksUart(p) /\ bare' = bare
       \/ /\ prog'[p].steps \in Unserialized /\ UNCHANGED lockVars
          /\ bare' = (bare \/ prog'[p].steps \in {uart_enable, uart_disable})
BeganUart(p) ==
    /\ Began(p, "uart_write") \/ Began(p, "uart_read")
    /\ prog'[p].phase = "status" /\ LocksUart(p) /\ bare' = bare
BeganSpi(p) ==
    /\ Began(p, "spi") /\ prog'[p].phase = "busy" /\ bare' = bare
    /\ uart_lock' = uart_lock /\ spi_lock = None /\ spi_lock' = p
\* It ends,
Ended(p) == Others(p) /\ prog[p].op # "idle" /\ prog'[p] = Idle /\ Release(p)
\* goes on within itself,
Goes(p) ==
    /\ Others(p) /\ UNCHANGED lockVars
    /\ prog'[p].op = prog[p].op /\ prog'[p].id = prog[p].id /\ prog'[p].steps = prog[p].steps
Turned(p, phase) ==
    /\ Goes(p) /\ prog[p].op \in {"uart_write", "uart_read", "spi"}
    /\ prog'[p].n = prog[p].n /\ prog'[p].phase = phase
NextOne(p) ==
    /\ Goes(p) /\ prog[p].op \in {"uart_write", "uart_read"}
    /\ prog[p].n # MsgLen /\ prog'[p].n = prog[p].n + 1 /\ prog'[p].phase = "status"
Fetched(p) ==
    /\ Goes(p) /\ prog[p].op = "script" /\ prog[p].phase = "read"
    /\ StepOf(p).kind = "rmw" /\ prog'[p].n = prog[p].n
    /\ prog'[p].val \in Shown(StepOf(p).reg) /\ prog'[p].phase = "write"
    /\ leaked' = leaked \cup Inputs(p)
Stepped(p) ==
    /\ Goes(p) /\ prog[p].op = "script"
    /\ prog[p].n # Len(prog[p].steps) /\ prog'[p].n = prog[p].n + 1
    /\ prog'[p].phase = Enter(prog[p].steps, prog[p].n + 1)
\* or stays where it is.
Stays == UNCHANGED <<prog, lockVars>>

\* The fields of an activity.
LEMMA ActivityOf ==
    ASSUME ProgType, NEW p \in Programs
    PROVE  /\ prog[p] \in Activity /\ prog[p].id \in Nat /\ prog[p].n \in Nat /\ prog[p].phase \in Phases
           /\ prog[p].op \in {"idle", "script", "uart_write", "uart_read", "spi"}
           /\ prog[p].steps \in Scripts \cup {<<>>} /\ prog[p].val \in Vals
<1>1. prog[p] \in Activity
  BY DEF ProgType
<1> QED
  BY <1>1 DEF Activity

LEMMA FinishFacts ==
    ASSUME ProgType, NEW p \in Programs, Finish(p), prog[p].op # "idle"
    PROVE  Ended(p) /\ ProgType'
<1>1. prog' = [prog EXCEPT ![p] = Idle] /\ Release(p)
  BY DEF Finish
<1>2. Idle \in Activity
  BY DEF Idle, Activity, Vals, Phases
<1>3. prog' \in [Programs -> Activity] /\ prog'[p] = Idle /\ Others(p)
  BY <1>1, <1>2 DEF ProgType, Others
<1> QED
  BY <1>1, <1>3 DEF Ended, ProgType

LEMMA GoFacts ==
    ASSUME ProgType, NEW p \in Programs, NEW phase \in Phases, Go(p, phase),
           prog[p].op \in {"uart_write", "uart_read", "spi"}
    PROVE  Turned(p, phase) /\ ProgType'
<1>1. prog' = [prog EXCEPT ![p].phase = phase] /\ UNCHANGED lockVars
  BY DEF Go
<1>2. prog[p] \in Activity
  BY ActivityOf
<1>3. prog'[p] = [prog[p] EXCEPT !.phase = phase] /\ Others(p)
  BY <1>1 DEF ProgType, Others
<1>4. [prog[p] EXCEPT !.phase = phase] \in Activity
  BY <1>2 DEF Activity
<1>5. ProgType'
  BY <1>1, <1>3, <1>4 DEF ProgType
<1>6. /\ prog'[p].op = prog[p].op /\ prog'[p].id = prog[p].id /\ prog'[p].steps = prog[p].steps
      /\ prog'[p].n = prog[p].n /\ prog'[p].phase = phase
  BY <1>2, <1>3 DEF Activity
<1> QED
  BY <1>1, <1>3, <1>5, <1>6 DEF Turned, Goes

LEMMA NextByteFacts ==
    ASSUME ProgType, NEW p \in Programs, NextByte(p), prog[p].op \in {"uart_write", "uart_read"}
    PROVE  (Ended(p) \/ NextOne(p)) /\ ProgType'
<1>0. prog[p] \in Activity /\ prog[p].n \in Nat /\ prog[p].op # "idle"
  BY ActivityOf
<1>1. CASE prog[p].n = MsgLen
  BY <1>0, <1>1, FinishFacts DEF NextByte
<1>2. CASE prog[p].n # MsgLen
  <2>1. PICK k \in Nat : k = prog[p].n + 1
    BY <1>0
  <2>2. prog' = [prog EXCEPT ![p].n = k, ![p].phase = "status"] /\ UNCHANGED lockVars
    BY <1>2, <2>1 DEF NextByte
  <2>3. "status" \in Phases
    BY DEF Phases
  <2>4. /\ prog' \in [Programs -> Activity]
        /\ prog'[p].op = prog[p].op /\ prog'[p].id = prog[p].id /\ prog'[p].steps = prog[p].steps
        /\ prog'[p].n = k /\ prog'[p].phase = "status"
        /\ \A q \in Programs : q # p => prog'[q] = prog[q]
    BY <2>2, <2>3 DEF ProgType, Activity
  <2> QED
    BY <1>2, <2>1, <2>2, <2>4 DEF NextOne, Goes, Others, ProgType
<1> QED
  BY <1>1, <1>2

LEMMA AdvanceFacts ==
    ASSUME ProgType, NEW p \in Programs, Advance(p), prog[p].op = "script"
    PROVE  ((Ended(p) /\ prog[p].n = Len(prog[p].steps)) \/ Stepped(p)) /\ ProgType'
<1>0. prog[p] \in Activity /\ prog[p].n \in Nat
  BY ActivityOf
<1>1. CASE prog[p].n = Len(prog[p].steps)
  BY <1>0, <1>1, FinishFacts DEF Advance
<1>2. CASE prog[p].n # Len(prog[p].steps)
  <2>1. PICK k \in Nat : k = prog[p].n + 1
    BY <1>0
  <2>2. PICK v \in Vals : v = <<>>
    BY DEF Vals
  <2>3. PICK ph \in Phases : ph = Enter(prog[p].steps, prog[p].n + 1)
    BY DEF Enter, Phases
  <2>4. prog' = [prog EXCEPT ![p].n = k, ![p].val = v, ![p].phase = ph] /\ UNCHANGED lockVars
    BY <1>2, <2>1, <2>2, <2>3 DEF Advance
  <2>a. PICK a : a = [prog[p] EXCEPT !.n = k, !.val = v, !.phase = ph]
    OBVIOUS
  <2>b. /\ a \in Activity /\ a.op = prog[p].op /\ a.id = prog[p].id /\ a.steps = prog[p].steps
        /\ a.n = k /\ a.phase = ph
    BY <1>0, <2>a DEF Activity
  <2>c. prog' = [prog EXCEPT ![p] = a]
    BY <2>4, <2>a DEF ProgType
  <2>5. /\ prog' \in [Programs -> Activity]
        /\ prog'[p].op = prog[p].op /\ prog'[p].id = prog[p].id /\ prog'[p].steps = prog[p].steps
        /\ prog'[p].n = k /\ prog'[p].phase = ph
        /\ \A q \in Programs : q # p => prog'[q] = prog[q]
    BY <2>b, <2>c DEF ProgType
  <2> QED
    BY <1>2, <2>1, <2>3, <2>4, <2>5 DEF Stepped, Goes, Others, ProgType
<1> QED
  BY <1>1, <1>2

LEMMA BeginFacts ==
    ASSUME ProgType, ops \in Nat, NEW p \in Programs,
           NEW op \in {"script", "uart_write", "uart_read", "spi"}, NEW steps \in Scripts \cup {<<>>},
           NEW phase \in Phases, Begin(p, op, steps, phase)
    PROVE  Began(p, op) /\ prog'[p].steps = steps /\ prog'[p].phase = phase /\ ProgType'
<1>1. PICK k \in Nat, v \in Vals : k = ops + 1 /\ v = <<>>
  BY DEF Vals
<1>2. PICK a : a = [op |-> op, id |-> k, steps |-> steps, phase |-> phase, val |-> v, n |-> 1]
  OBVIOUS
<1>3. /\ a \in Activity /\ a.op = op /\ a.id = k /\ a.steps = steps /\ a.phase = phase /\ a.n = 1
  BY <1>2 DEF Activity
<1>4. /\ prog' = [prog EXCEPT ![p] = a] /\ prog[p].op = "idle" /\ ops < MaxOps /\ ops' = k
      /\ repeated' = repeated /\ failed' = failed
  BY <1>1, <1>2 DEF Begin
<1>5. prog' \in [Programs -> Activity] /\ prog'[p] = a /\ \A q \in Programs : q # p => prog'[q] = prog[q]
  BY <1>3, <1>4 DEF ProgType
<1> QED
  BY <1>1, <1>3, <1>4, <1>5 DEF Began, Others, ProgType

LEMMA BeginScriptFacts ==
    ASSUME ProgType, ops \in Nat, NEW p \in Programs, BeginSerialized(p) \/ BeginUnserialized(p)
    PROVE  BeganScript(p) /\ ProgType'
<1>1. ASSUME NEW steps \in Scripts, BeginScript(p, steps)
      PROVE  /\ Began(p, "script") /\ prog'[p].steps = steps /\ ProgType'
             /\ prog'[p].phase = Enter(prog'[p].steps, 1)
  <2>1. PICK ph \in Phases : ph = Enter(steps, 1)
    BY DEF Enter, Phases
  <2>2. Begin(p, "script", steps, ph) /\ steps \in Scripts \cup {<<>>}
    BY <1>1, <2>1 DEF BeginScript
  <2> QED
    BY <2>1, <2>2, BeginFacts
<1>2. CASE BeginSerialized(p)
  <2>1. PICK steps \in Serialized : BeginScript(p, steps) /\ LockUart(p)
    BY <1>2 DEF BeginSerialized
  <2>2. steps \in Scripts
    BY DEF Scripts
  <2>3. LocksUart(p) /\ bare' = bare
    BY <2>1 DEF LocksUart, LockUart
  <2>4. /\ Began(p, "script") /\ prog'[p].steps = steps /\ ProgType'
        /\ prog'[p].phase = Enter(prog'[p].steps, 1)
    BY <1>1, <2>1, <2>2
  <2> QED
    BY <2>3, <2>4 DEF BeganScript
<1>3. CASE BeginUnserialized(p)
  <2>1. PICK steps \in Unserialized :
            /\ BeginScript(p, steps) /\ bare' = (bare \/ steps \in {uart_enable, uart_disable})
            /\ UNCHANGED lockVars
    BY <1>3 DEF BeginUnserialized
  <2>2. steps \in Scripts
    BY DEF Scripts
  <2>3. /\ Began(p, "script") /\ prog'[p].steps = steps /\ ProgType'
        /\ prog'[p].phase = Enter(prog'[p].steps, 1)
    BY <1>1, <2>1, <2>2
  <2> QED
    BY <2>1, <2>3 DEF BeganScript
<1> QED
  BY <1>2, <1>3

LEMMA BeginUartFacts ==
    ASSUME ProgType, ops \in Nat, NEW p \in Programs, BeginWrite(p) \/ BeginRead(p)
    PROVE  BeganUart(p) /\ ProgType'
<1>1. PICK op \in {"uart_write", "uart_read"}, steps \in Scripts \cup {<<>>}, ph \in Phases :
         ph = "status" /\ Begin(p, op, steps, ph) /\ LockUart(p)
  BY DEF BeginWrite, BeginRead, Phases
<1>2. Began(p, op) /\ prog'[p].phase = ph /\ ProgType'
  BY <1>1, BeginFacts
<1> QED
  BY <1>1, <1>2 DEF BeganUart, LockUart, LocksUart

LEMMA BeginSpiFacts ==
    ASSUME ProgType, ops \in Nat, NEW p \in Programs, BeginSpi(p)
    PROVE  BeganSpi(p) /\ ProgType'
<1>1. PICK steps \in Scripts \cup {<<>>}, ph \in Phases :
         /\ ph = "busy" /\ Begin(p, "spi", steps, ph)
         /\ spi_lock = None /\ spi_lock' = p /\ UNCHANGED <<uart_lock, bare>>
  BY DEF BeginSpi, Phases
<1>2. Began(p, "spi") /\ prog'[p].phase = ph /\ ProgType'
  BY <1>1, BeginFacts
<1> QED
  BY <1>1, <1>2 DEF BeganSpi

-----------------------------------------------------------------------------
(* Which program steps take which of these forms. *)

\* A script's registers are the device's.
ScriptInv(p) ==
    prog[p].op = "script" =>
        /\ prog[p].steps \in Scripts /\ prog[p].n \in 1..Len(prog[p].steps)
        /\ prog[p].phase \in {"read", "write"}
        /\ IF uart_lock = p THEN prog[p].steps \in Serialized
           ELSE /\ prog[p].steps \in Unserialized
                /\ prog[p].steps \in {uart_enable, uart_disable} => bare
        /\ prog[p].phase = "write" =>
              /\ StepOf(p).kind # "test"
              /\ StepOf(p).kind = "rmw" => prog[p].val \in [Fields[StepOf(p).reg] -> {0, 1}]

RegType ==
    /\ DOMAIN reg = Registers /\ DOMAIN intended = Registers
    /\ \A r \in Registers : reg[r] \in [Fields[r] -> {0, 1}] /\ intended[r] \in [Fields[r] -> {0, 1}]

\* The facts about the access a script is at.
LEMMA StepFacts ==
    ASSUME NEW p \in Programs, ScriptInv(p), prog[p].op = "script"
    PROVE  /\ StepOK(StepOf(p)) /\ Len(prog[p].steps) \in Nat /\ prog[p].n \in 1..Len(prog[p].steps)
           /\ uart_lock = p => SerialStep(prog[p].steps, prog[p].n)
           /\ uart_lock # p => BareStep(prog[p].steps, prog[p].n)
<1>1. prog[p].n \in 1..Len(prog[p].steps)
  BY DEF ScriptInv
<1>2. CASE uart_lock = p
  <2>1. prog[p].steps \in Serialized
    BY <1>2 DEF ScriptInv
  <2>2. SerialScript(prog[p].steps)
    BY <2>1, SerializedScripts
  <2>3. Len(prog[p].steps) \in Nat /\ SerialStep(prog[p].steps, prog[p].n)
    BY <1>1, <2>2 DEF SerialScript
  <2>4. StepOK(StepOf(p))
    BY <2>3 DEF SerialStep, StepOf
  <2> QED
    BY <1>1, <1>2, <2>3, <2>4
<1>3. CASE uart_lock # p
  <2>1. prog[p].steps \in Unserialized
    BY <1>3 DEF ScriptInv
  <2>2. BareScript(prog[p].steps)
    BY <2>1, UnserializedScripts
  <2>3. Len(prog[p].steps) \in Nat /\ BareStep(prog[p].steps, prog[p].n)
    BY <1>1, <2>2 DEF BareScript
  <2>4. StepOK(StepOf(p))
    BY <2>3 DEF BareStep, StepOf
  <2> QED
    BY <1>1, <1>3, <2>3, <2>4
<1> QED
  BY <1>2, <1>3

\* What a read shows is a value of the register; on the fields that are not
\* about to be set it is the register's own, but for the input pins.
LEMMA ShownFacts ==
    ASSUME RegType, NEW p \in Programs, NEW r \in Registers, r = StepOf(p).reg, NEW v \in Shown(r)
    PROVE  /\ v \in [Fields[r] -> {0, 1}]
           /\ \A f \in Fields[r] : f \notin DOMAIN StepOf(p).set =>
                 v[f] = reg[r][f] \/ (r = "out" /\ f \in Inputs(p))
<1>1. CASE r = "out"
  <2>1. v \in [Pins -> {0, 1}] /\ \A f \in Pins : reg["dir"][f] = 0 => v[f] = reg["out"][f]
    BY <1>1 DEF Shown
  <2>2. Fields[r] = Pins /\ "dir" \in Registers /\ Pins \subseteq Fields["dir"]
    BY <1>1, FieldsOf
  <2>3. \A f \in Pins : reg["dir"][f] = 0 \/ reg["dir"][f] = 1
    BY <2>2 DEF RegType
  <2>4. \A f \in Pins : f \notin DOMAIN StepOf(p).set /\ reg["dir"][f] = 1 => f \in Inputs(p)
    BY <1>1 DEF Inputs
  <2> QED
    BY <1>1, <2>1, <2>2, <2>3, <2>4
<1>2. CASE r # "out"
  <2>1. v = reg[r]
    BY <1>2 DEF Shown
  <2> QED
    BY <2>1 DEF RegType
<1> QED
  BY <1>1, <1>2

LEMMA InputsArePins == ASSUME NEW p PROVE Inputs(p) \subseteq Pins
BY DEF Inputs

LEMMA ReadRegisterFacts ==
    ASSUME ProgType, RegType, NEW p \in Programs, ScriptInv(p), ReadRegister(p)
    PROVE  /\ Fetched(p) \/ ((Ended(p) \/ Stepped(p)) /\ StepOf(p).kind = "test")
           /\ ProgType' /\ UNCHANGED <<fifoVars, reg, intended, disturbed, spiVars>> /\ NoFault /\ Quiet
           /\ leaked \subseteq leaked' /\ leaked' \subseteq leaked \cup Pins
           /\ prog[p].op = "script" /\ prog[p].phase = "read"
<1>0. /\ prog[p].op = "script" /\ prog[p].phase = "read"
      /\ UNCHANGED <<fifoVars, reg, intended, disturbed, spiVars>> /\ NoFault /\ Quiet
  BY DEF ReadRegister
<1>1. StepOK(StepOf(p))
  BY <1>0, StepFacts
<1>2. ASSUME StepOf(p).kind = "rmw", NEW seen \in Shown(StepOf(p).reg), UNCHANGED lockVars,
             prog' = [prog EXCEPT ![p].val = seen, ![p].phase = "write"], leaked' = leaked \cup Inputs(p)
      PROVE  Fetched(p) /\ ProgType'
  <2>1. StepOf(p).reg \in Registers
    BY <1>1 DEF StepOK
  <2>a. seen \in [Fields[StepOf(p).reg] -> {0, 1}]
    BY <2>1, ShownFacts
  <2>2. PICK v \in Vals : v = seen
    BY <2>1, <2>a DEF Vals
  <2>3. PICK ph \in Phases : ph = "write"
    BY DEF Phases
  <2>4. prog' = [prog EXCEPT ![p].val = v, ![p].phase = ph]
    BY <1>2, <2>2, <2>3
  <2>5. /\ prog' \in [Programs -> Activity]
        /\ prog'[p].op = prog[p].op /\ prog'[p].id = prog[p].id /\ prog'[p].steps = prog[p].steps
        /\ prog'[p].n = prog[p].n /\ prog'[p].phase = ph /\ prog'[p].val = v
        /\ \A q \in Programs : q # p => prog'[q] = prog[q]
    BY <2>4 DEF ProgType, Activity
  <2> QED
    BY <1>0, <1>2, <2>2, <2>3, <2>5 DEF Fetched, Goes, Others, ProgType
<1>3. ASSUME StepOf(p).kind = "test", Advance(p) \/ Finish(p)
      PROVE  (Ended(p) \/ Stepped(p)) /\ ProgType'
  BY <1>0, <1>3, AdvanceFacts, FinishFacts
<1>4. \/ /\ StepOf(p).kind = "rmw" /\ UNCHANGED lockVars /\ leaked' = leaked \cup Inputs(p)
         /\ \E seen \in Shown(StepOf(p).reg) :
                prog' = [prog EXCEPT ![p].val = seen, ![p].phase = "write"]
      \/ StepOf(p).kind = "test" /\ (Advance(p) \/ Finish(p)) /\ leaked' = leaked
  BY DEF ReadRegister
<1>5. leaked \subseteq leaked' /\ leaked' \subseteq leaked \cup Pins
  BY <1>4, InputsArePins
<1> QED
  BY <1>0, <1>2, <1>3, <1>4, <1>5

LEMMA WriteRegisterFacts ==
    ASSUME ProgType, NEW p \in Programs, WriteRegister(p)
    PROVE  /\ \/ ((Ended(p) /\ prog[p].n = Len(prog[p].steps)) \/ Stepped(p)) /\ NoFault
              \/ Stays /\ repeated' = TRUE /\ faults < MaxFaults /\ faults' = faults + 1
           /\ ProgType' /\ prog[p].op = "script" /\ prog[p].phase = "write" /\ Quiet
           /\ UNCHANGED <<arrived, wrote, overflow, garbage, spiVars>>
<1>1. /\ prog[p].op = "script" /\ prog[p].phase = "write" /\ Quiet
      /\ UNCHANGED <<arrived, wrote, overflow, garbage, spiVars>>
      /\ (Advance(p) /\ NoFault) \/ Repeat(p)
  BY DEF WriteRegister
<1>2. CASE Advance(p) /\ NoFault
  BY <1>1, <1>2, AdvanceFacts
<1>3. CASE Repeat(p)
  BY <1>1, <1>3 DEF Repeat, Stays, ProgType
<1> QED
  BY <1>1, <1>2, <1>3

\* Looking at a status register.
Looks(p) ==
    \/ WriteStatus(p) \/ WriteGiveUp(p) \/ ReadStatus(p)
    \/ SpiBusy(p) \/ SpiCheck(p) \/ SpiPoll(p) \/ SpiGiveUp(p)

LEMMA LooksFacts ==
    ASSUME ProgType, NEW p \in Programs, Looks(p)
    PROVE  /\ UNCHANGED <<fifoVars, regVars, spiVars>> /\ NoFault /\ Quiet /\ ProgType'
           /\ \/ Ended(p)
              \/ prog[p].op = "uart_write" /\ tx < FifoSize /\ Turned(p, "data")
              \/ prog[p].op = "uart_read" /\ rx # 0 /\ Turned(p, "data")
              \/ prog[p].op = "uart_read" /\ Turned(p, "stale")
              \/ SpiPhase(p, "busy") /\ ~spi.busy /\ Turned(p, "clear")
              \/ SpiPhase(p, "check") /\ ~spi.done /\ Turned(p, "start")
              \/ SpiPhase(p, "poll") /\ spi.done /\ Turned(p, "unlatch")
<1>0. UNCHANGED <<fifoVars, regVars, spiVars>> /\ NoFault /\ Quiet
  BY DEF Looks, WriteStatus, WriteGiveUp, ReadStatus, SpiBusy, SpiCheck, SpiPoll, SpiGiveUp
<1>1. PICK ph1 \in Phases, ph2 \in Phases, ph3 \in Phases, ph4 \in Phases, ph5 \in Phases :
         ph1 = "data" /\ ph2 = "clear" /\ ph3 = "start" /\ ph4 = "unlatch" /\ ph5 = "stale"
  BY DEF Phases
<1>2. \/ prog[p].op # "idle" /\ Finish(p)
      \/ prog[p].op = "uart_write" /\ tx < FifoSize /\ Go(p, ph1)
      \/ prog[p].op = "uart_read" /\ rx > 0 /\ Go(p, ph1)
      \/ prog[p].op = "uart_read" /\ Go(p, ph5)
      \/ SpiPhase(p, "busy") /\ ~spi.busy /\ Go(p, ph2)
      \/ SpiPhase(p, "check") /\ ~spi.done /\ Go(p, ph3)
      \/ SpiPhase(p, "poll") /\ spi.done /\ Go(p, ph4)
  BY <1>1 DEF Looks, WriteStatus, WriteGiveUp, ReadStatus, SpiBusy, SpiCheck, SpiPoll, SpiGiveUp, SpiPhase
<1>3. CASE prog[p].op # "idle" /\ Finish(p)
  BY <1>0, <1>3, FinishFacts
<1>4. ASSUME NEW ph \in Phases, Go(p, ph), prog[p].op \in {"uart_write", "uart_read", "spi"}
      PROVE  Turned(p, ph) /\ ProgType'
  BY <1>4, GoFacts
<1>5. SpiPhase(p, "busy") \/ SpiPhase(p, "check") \/ SpiPhase(p, "poll") => prog[p].op = "spi"
  BY DEF SpiPhase
<1> QED
  BY <1>0, <1>1, <1>2, <1>3, <1>4, <1>5

\* Giving a byte to the FIFO or taking one from it.
LEMMA ByteFacts ==
    ASSUME ProgType, NEW p \in Programs, WriteByte(p) \/ ReadByte(p)
    PROVE  /\ \/ (Ended(p) \/ NextOne(p)) /\ NoFault
              \/ Stays /\ repeated' = TRUE /\ faults < MaxFaults /\ faults' = faults + 1
           /\ ProgType' /\ prog[p].op \in {"uart_write", "uart_read"} /\ prog[p].phase \in {"data", "stale"}
           /\ Quiet /\ UNCHANGED <<arrived, regVars, spiVars>>
<1>1. /\ prog[p].op \in {"uart_write", "uart_read"} /\ prog[p].phase \in {"data", "stale"}
      /\ Quiet /\ UNCHANGED <<arrived, regVars, spiVars>>
      /\ (NextByte(p) /\ NoFault) \/ Repeat(p)
  BY DEF WriteByte, ReadByte
<1>2. CASE NextByte(p) /\ NoFault
  BY <1>1, <1>2, NextByteFacts
<1>3. CASE Repeat(p)
  BY <1>1, <1>3 DEF Repeat, Stays, ProgType
<1> QED
  BY <1>1, <1>2, <1>3

\* An access to the SPI controller.
LEMMA SpiFacts ==
    ASSUME ProgType, NEW p \in Programs, SpiClear(p) \/ SpiStart(p) \/ SpiData(p)
    PROVE  /\ UNCHANGED <<fifoVars, regVars>> /\ Quiet /\ ProgType' /\ prog[p].op = "spi"
           /\ \/ SpiClear(p) /\ SpiPhase(p, "clear") /\ Turned(p, "check") /\ NoFault
              \/ SpiClear(p) /\ SpiPhase(p, "unlatch") /\ Turned(p, "data") /\ NoFault
              \/ SpiClear(p) /\ SpiPhase(p, "reset") /\ Ended(p) /\ NoFault
              \/ SpiStart(p) /\ SpiPhase(p, "start") /\ Turned(p, "poll") /\ NoFault
              \/ SpiStart(p) /\ SpiPhase(p, "start") /\ Stays /\ repeated' = TRUE
                 /\ faults < MaxFaults /\ faults' = faults + 1
              \/ SpiData(p) /\ SpiPhase(p, "data") /\ Turned(p, "reset") /\ NoFault
<1>0. UNCHANGED <<fifoVars, regVars>> /\ Quiet
  BY DEF SpiClear, SpiStart, SpiData
<1>1. PICK ph1 \in Phases, ph2 \in Phases, ph3 \in Phases, ph4 \in Phases :
         ph1 = "check" /\ ph2 = "data" /\ ph3 = "poll" /\ ph4 = "reset"
  BY DEF Phases
<1>2. \/ SpiClear(p) /\ SpiPhase(p, "clear") /\ Go(p, ph1) /\ NoFault
      \/ SpiClear(p) /\ SpiPhase(p, "unlatch") /\ Go(p, ph2) /\ NoFault
      \/ SpiClear(p) /\ SpiPhase(p, "reset") /\ Finish(p) /\ NoFault
      \/ SpiStart(p) /\ SpiPhase(p, "start") /\ Go(p, ph3) /\ NoFault
      \/ SpiStart(p) /\ SpiPhase(p, "start") /\ Repeat(p)
      \/ SpiData(p) /\ SpiPhase(p, "data") /\ Go(p, ph4) /\ NoFault
  BY <1>1 DEF SpiClear, SpiStart, SpiData
<1>3. prog[p].op = "spi"
  BY <1>2 DEF SpiPhase
<1>4. ASSUME NEW ph \in Phases, Go(p, ph) PROVE Turned(p, ph) /\ ProgType'
  BY <1>3, <1>4, GoFacts
<1>5. ASSUME Finish(p) PROVE Ended(p) /\ ProgType'
  BY <1>3, <1>5, FinishFacts
<1>6. ASSUME Repeat(p)
      PROVE  Stays /\ repeated' = TRUE /\ faults < MaxFaults /\ faults' = faults + 1 /\ ProgType'
  BY <1>6 DEF Repeat, Stays, ProgType
<1> QED
  BY <1>0, <1>1, <1>2, <1>3, <1>4, <1>5, <1>6

\* All forms of a program's step.
Moves(p) ==
    \/ BeganScript(p) \/ BeganUart(p) \/ BeganSpi(p)
    \/ /\ ops' = ops /\ bare' = bare
       /\ \/ Ended(p) \/ NextOne(p) \/ Fetched(p) \/ Stepped(p)
          \/ \E phase \in Phases : Turned(p, phase)
          \/ Stays

Steps(p) ==
    \/ BeginSerialized(p) \/ BeginUnserialized(p) \/ BeginWrite(p) \/ BeginRead(p) \/ BeginSpi(p)
    \/ Proceed(p) \/ Fail(p)

LEMMA FailFacts ==
    ASSUME ProgType, NEW p \in Programs, Fail(p)
    PROVE  /\ Ended(p) /\ ProgType' /\ UNCHANGED <<fifoVars, regVars, spiVars, ops, repeated, bare>>
           /\ faults < MaxFaults /\ faults' = faults + 1 /\ failed' = (failed \/ uart_lock = p)
  BY FinishFacts DEF Fail

LEMMA StepsMove ==
    ASSUME ProgType, RegType, ops \in Nat, NEW p \in Programs, ScriptInv(p), Steps(p)
    PROVE  Moves(p) /\ ProgType'
<1>0. \A ph \in {"data", "stale", "clear", "start", "unlatch", "check", "poll", "reset"} : ph \in Phases
  BY DEF Phases
<1>1. CASE BeginSerialized(p) \/ BeginUnserialized(p)
  BY <1>1, BeginScriptFacts DEF Moves
<1>2. CASE BeginWrite(p) \/ BeginRead(p)
  BY <1>2, BeginUartFacts DEF Moves
<1>3. CASE BeginSpi(p)
  BY <1>3, BeginSpiFacts DEF Moves
<1>4. CASE ReadRegister(p)
  BY <1>4, ReadRegisterFacts DEF Moves, Quiet
<1>5. CASE WriteRegister(p)
  BY <1>5, WriteRegisterFacts DEF Moves, Quiet
<1>6. CASE Looks(p)
  BY <1>0, <1>6, LooksFacts DEF Moves, Quiet
<1>7. CASE WriteByte(p) \/ ReadByte(p)
  BY <1>7, ByteFacts DEF Moves, Quiet
<1>8. CASE SpiClear(p) \/ SpiStart(p) \/ SpiData(p)
  BY <1>0, <1>8, SpiFacts DEF Moves, Quiet
<1>9. CASE Fail(p)
  BY <1>9, FailFacts DEF Moves
<1> QED
  BY <1>1, <1>2, <1>3, <1>4, <1>5, <1>6, <1>7, <1>8, <1>9 DEF Steps, Proceed, Looks

-----------------------------------------------------------------------------
(* The locks. *)

\* Who uses the FIFOs or the SPI controller holds its lock.
OwnerInv(p) ==
    /\ prog[p].op \in {"uart_write", "uart_read"} => uart_lock = p /\ prog[p].n \in 1..MsgLen
    /\ prog[p].op = "spi" => spi_lock = p
    /\ prog[p].op = "idle" => uart_lock # p /\ spi_lock # p
    /\ prog[p].id \in 0..ops /\ (prog[p].op # "idle" => prog[p].id # 0)

\* What a step of p leaves to q.
Keeps(q) ==
    /\ prog'[q] = prog[q]
    /\ (uart_lock' = q) <=> (uart_lock = q)
    /\ (spi_lock' = q) <=> (spi_lock = q)

LEMMA OthersKeep ==
    ASSUME NEW p \in Programs, NEW q \in Programs, q # p, Moves(p)
    PROVE  Keeps(q)
<1>0. p # None /\ q # None
  BY PeripheralsAssumption
<1>1. CASE BeganScript(p)
  <2>1. prog'[q] = prog[q] /\ (LocksUart(p) \/ UNCHANGED lockVars)
    BY <1>1 DEF BeganScript, Began, Others
  <2> QED
    BY <1>0, <2>1 DEF Keeps, LocksUart, lockVars
<1>2. CASE BeganUart(p)
  <2>1. prog'[q] = prog[q] /\ LocksUart(p)
    BY <1>2 DEF BeganUart, Began, Others
  <2> QED
    BY <1>0, <2>1 DEF Keeps, LocksUart
<1>3. CASE BeganSpi(p)
  <2>1. prog'[q] = prog[q] /\ uart_lock' = uart_lock /\ spi_lock = None /\ spi_lock' = p
    BY <1>3 DEF BeganSpi, Began, Others
  <2> QED
    BY <1>0, <2>1 DEF Keeps
<1>4. CASE Ended(p)
  <2>1. /\ prog'[q] = prog[q] /\ uart_lock' = (IF uart_lock = p THEN None ELSE uart_lock)
        /\ spi_lock' = (IF spi_lock = p THEN None ELSE spi_lock)
    BY <1>4 DEF Ended, Others, Release
  <2> QED
    BY <1>0, <2>1 DEF Keeps
<1>5. CASE Goes(p)
  <2>1. prog'[q] = prog[q] /\ uart_lock' = uart_lock /\ spi_lock' = spi_lock
    BY <1>5 DEF Goes, Others, lockVars
  <2> QED
    BY <2>1 DEF Keeps
<1>6. CASE Stays
  <2>1. prog'[q] = prog[q] /\ uart_lock' = uart_lock /\ spi_lock' = spi_lock
    BY <1>6 DEF Stays, lockVars
  <2> QED
    BY <2>1 DEF Keeps
<1>7. NextOne(p) \/ Fetched(p) \/ Stepped(p) \/ (\E phase \in Phases : Turned(p, phase)) => Goes(p)
  BY DEF NextOne, Fetched, Stepped, Turned
<1> QED
  BY <1>1, <1>2, <1>3, <1>4, <1>5, <1>6, <1>7 DEF Moves

\* The fields of Idle.
LEMMA IdleFields == Idle.op = "idle" /\ Idle.id = 0 /\ Idle.n = 0 /\ Idle.phase = "none"
BY DEF Idle

LEMMA MovesCount ==
    ASSUME ops \in Nat, NEW p \in Programs, Moves(p)
    PROVE  ops' \in Nat /\ ops <= ops' /\ (ops' = ops \/ (ops < MaxOps /\ ops' = ops + 1))
<1>1. ops' = ops \/ (ops < MaxOps /\ ops' = ops + 1)
  BY DEF Moves, BeganScript, BeganUart, BeganSpi, Began
<1> QED
  BY <1>1

LEMMA OwnerStep ==
    ASSUME ProgType, ops \in Nat, NEW p \in Programs, Moves(p), ProgType', \A q \in Programs : OwnerInv(q)
    PROVE  \A q \in Programs : OwnerInv(q)'
<1>0. ops' \in Nat /\ ops <= ops'
  BY MovesCount
<1>1. ASSUME NEW q \in Programs, q # p PROVE OwnerInv(q)'
  <2>1. Keeps(q) /\ OwnerInv(q)
    BY <1>1, OthersKeep
  <2>2. prog[q].id \in Nat
    BY ActivityOf
  <2>3. prog'[q].id \in 0..ops'
    BY <1>0, <2>1, <2>2 DEF Keeps, OwnerInv
  <2> QED
    BY <2>1, <2>3 DEF Keeps, OwnerInv
<1>2. OwnerInv(p)'
  <2>0. /\ OwnerInv(p) /\ prog[p].n \in Nat /\ prog[p].id \in Nat /\ MsgLen \in Nat \ {0}
        /\ p # None
    BY ActivityOf, PeripheralsAssumption
  <2>1. CASE BeganScript(p)
    <3>1. prog'[p].op = "script" /\ prog'[p].id = ops + 1 /\ ops' = ops + 1
      BY <2>1 DEF BeganScript, Began
    <3> QED
      BY <3>1 DEF OwnerInv
  <2>2. CASE BeganUart(p)
    <3>1. /\ prog'[p].op \in {"uart_write", "uart_read"} /\ prog'[p].id = ops + 1 /\ ops' = ops + 1
          /\ prog'[p].n = 1 /\ uart_lock' = p
      BY <2>2 DEF BeganUart, Began, LocksUart
    <3> QED
      BY <2>0, <3>1 DEF OwnerInv
  <2>3. CASE BeganSpi(p)
    <3>1. /\ prog'[p].op = "spi" /\ prog'[p].id = ops + 1 /\ ops' = ops + 1 /\ spi_lock' = p
      BY <2>3 DEF BeganSpi, Began
    <3> QED
      BY <3>1 DEF OwnerInv
  <2>4. CASE Ended(p)
    <3>1. prog'[p].op = "idle" /\ prog'[p].id = 0 /\ uart_lock' # p /\ spi_lock' # p
      BY <2>0, <2>4, IdleFields DEF Ended, Release
    <3> QED
      BY <1>0, <3>1 DEF OwnerInv
  <2>5. CASE ops' = ops /\ NextOne(p)
    <3>1. /\ prog'[p].op = prog[p].op /\ prog'[p].id = prog[p].id /\ uart_lock' = uart_lock
          /\ prog[p].op \in {"uart_write", "uart_read"} /\ prog[p].n # MsgLen
          /\ prog'[p].n = prog[p].n + 1
      BY <2>5 DEF NextOne, Goes, lockVars
    <3>2. prog'[p].n \in 1..MsgLen
      BY <2>0, <3>1 DEF OwnerInv
    <3> QED
      BY <2>0, <2>5, <3>1, <3>2 DEF OwnerInv
  <2>6. CASE ops' = ops /\ (Fetched(p) \/ Stepped(p))
    <3>1. prog'[p].op = "script" /\ prog'[p].id = prog[p].id /\ prog[p].op = "script"
      BY <2>6 DEF Fetched, Stepped, Goes
    <3> QED
      BY <2>0, <2>6, <3>1 DEF OwnerInv
  <2>7. CASE ops' = ops /\ \E phase \in Phases : Turned(p, phase)
    <3>1. /\ prog'[p].op = prog[p].op /\ prog'[p].id = prog[p].id /\ prog'[p].n = prog[p].n
          /\ uart_lock' = uart_lock /\ spi_lock' = spi_lock
      BY <2>7 DEF Turned, Goes, lockVars
    <3> QED
      BY <2>0, <2>7, <3>1 DEF OwnerInv
  <2>8. CASE ops' = ops /\ Stays
    BY <2>0, <2>8 DEF OwnerInv, Stays, lockVars
  <2> QED
    BY <2>1, <2>2, <2>3, <2>4, <2>5, <2>6, <2>7, <2>8 DEF Moves
<1> QED
  BY <1>1, <1>2

\* Entering an access of a script.
LEMMA EnterFacts ==
    ASSUME NEW steps, NEW n
    PROVE  /\ Enter(steps, n) \in {"read", "write"}
           /\ Enter(steps, n) = "write" => steps[n].kind = "put"
<1>1. "read" # "write"
  OBVIOUS
<1> QED
  BY <1>1 DEF Enter

LEMMA ScriptStep ==
    ASSUME ProgType, RegType, NEW p \in Programs, Moves(p), OwnerInv(p),
           bare \in BOOLEAN, \A q \in Programs : ScriptInv(q)
    PROVE  \A q \in Programs : ScriptInv(q)'
<1>0. bare => bare'
  BY DEF Moves, BeganScript, BeganUart, BeganSpi
<1>1. ASSUME NEW q \in Programs, q # p PROVE ScriptInv(q)'
  <2>1. Keeps(q) /\ ScriptInv(q)
    BY <1>1, OthersKeep
  <2>2. prog'[q] = prog[q] /\ StepOf(q)' = StepOf(q)
    BY <2>1 DEF Keeps, StepOf
  <2> QED
    BY <1>0, <2>1, <2>2 DEF Keeps, ScriptInv
<1>2. ScriptInv(p)'
  <2>0. ScriptInv(p)
    OBVIOUS
  <2>1. CASE BeganScript(p)
    <3>1. /\ prog'[p].n = 1 /\ prog'[p].phase = Enter(prog'[p].steps, 1)
          /\ \/ prog'[p].steps \in Serialized /\ uart_lock' = p
             \/ /\ prog'[p].steps \in Unserialized /\ uart_lock' = uart_lock /\ prog[p].op = "idle"
                /\ prog'[p].steps \in {uart_enable, uart_disable} => bare'
      BY <2>1 DEF BeganScript, Began, LocksUart, lockVars
    <3>2. \/ prog'[p].steps \in Serialized /\ uart_lock' = p
          \/ /\ prog'[p].steps \in Unserialized /\ uart_lock' # p
             /\ prog'[p].steps \in {uart_enable, uart_disable} => bare'
      BY <3>1 DEF OwnerInv
    <3>3. Len(prog'[p].steps) \in Nat \ {0}
      BY <3>2, SerializedScripts, UnserializedScripts DEF SerialScript, BareScript
    <3>4. 1 \in 1..Len(prog'[p].steps) /\ prog'[p].steps \in Scripts
      BY <3>2, <3>3 DEF Scripts
    <3>5. prog'[p].phase \in {"read", "write"} /\ (prog'[p].phase = "write" => StepOf(p)'.kind = "put")
      BY <3>1, EnterFacts DEF StepOf
    <3> QED
      BY <3>1, <3>2, <3>4, <3>5 DEF ScriptInv
  <2>2. CASE BeganUart(p) \/ BeganSpi(p) \/ Ended(p) \/ NextOne(p) \/ \E phase \in Phases : Turned(p, phase)
    <3>1. prog'[p].op # "script"
      BY <2>2, IdleFields DEF BeganUart, BeganSpi, Began, Ended, NextOne, Turned, Goes
    <3> QED
      BY <3>1 DEF ScriptInv
  <2>3. CASE Fetched(p)
    <3>1. /\ prog'[p].op = "script" /\ prog[p].op = "script" /\ prog'[p].steps = prog[p].steps
          /\ prog'[p].n = prog[p].n /\ uart_lock' = uart_lock /\ StepOf(p).kind = "rmw"
          /\ prog'[p].val \in Shown(StepOf(p).reg) /\ prog'[p].phase = "write"
      BY <2>3 DEF Fetched, Goes, lockVars
    <3>2. StepOf(p)' = StepOf(p)
      BY <3>1 DEF StepOf
    <3>3. StepOf(p).reg \in Registers
      BY <2>0, <3>1, StepFacts DEF StepOK
    <3>4. prog'[p].val \in [Fields[StepOf(p).reg] -> {0, 1}]
      BY <3>1, <3>3, ShownFacts
    <3> QED
      BY <1>0, <2>0, <3>1, <3>2, <3>4 DEF ScriptInv
  <2>4. CASE Stepped(p)
    <3>1. /\ prog'[p].op = "script" /\ prog[p].op = "script" /\ prog'[p].steps = prog[p].steps
          /\ prog'[p].n = prog[p].n + 1 /\ uart_lock' = uart_lock /\ prog[p].n # Len(prog[p].steps)
          /\ prog'[p].phase = Enter(prog[p].steps, prog[p].n + 1)
      BY <2>4 DEF Stepped, Goes, lockVars
    <3>2. Len(prog[p].steps) \in Nat /\ prog[p].n \in 1..Len(prog[p].steps)
      BY <2>0, <3>1, StepFacts
    <3>3. prog'[p].n \in 1..Len(prog'[p].steps)
      BY <3>1, <3>2
    <3>4. prog'[p].phase \in {"read", "write"} /\ (prog'[p].phase = "write" => StepOf(p)'.kind = "put")
      BY <3>1, EnterFacts DEF StepOf
    <3> QED
      BY <1>0, <2>0, <3>1, <3>3, <3>4 DEF ScriptInv
  <2>5. CASE Stays
    <3>1. prog' = prog /\ uart_lock' = uart_lock /\ StepOf(p)' = StepOf(p)
      BY <2>5 DEF Stays, lockVars, StepOf
    <3> QED
      BY <1>0, <2>0, <3>1 DEF ScriptInv
  <2> QED
    BY <2>1, <2>2, <2>3, <2>4, <2>5 DEF Moves
<1> QED
  BY <1>1, <1>2

-----------------------------------------------------------------------------
(* The registers. *)

LEMMA ChangedFacts ==
    ASSUME NEW F, NEW set, set \in [DOMAIN set -> {0, 1}], DOMAIN set \subseteq F, NEW old \in [F -> {0, 1}]
    PROVE  /\ Changed(set, old) \in [F -> {0, 1}]
           /\ \A f \in F : Changed(set, old)[f] = IF f \in DOMAIN set THEN set[f] ELSE old[f]
<1>1. DOMAIN set \cup DOMAIN old = F
  OBVIOUS
<1>2. Changed(set, old) = [f \in F |-> IF f \in DOMAIN set THEN set[f] ELSE old[f]]
  BY <1>1 DEF Changed
<1>3. \A f \in F : (IF f \in DOMAIN set THEN set[f] ELSE old[f]) \in {0, 1}
  OBVIOUS
<1> QED
  BY <1>2, <1>3

\* A program that has read a register, and has yet to write it, agrees with the
\* register on the fields it does not set, unless the register was disturbed or
\* the field is a pin whose level it read.
AgreeInv(p) ==
    prog[p].op = "script" /\ prog[p].phase = "write" /\ StepOf(p).kind = "rmw"
        /\ StepOf(p).reg \notin disturbed =>
            \A f \in Fields[StepOf(p).reg] :
                f \notin DOMAIN StepOf(p).set =>
                    \/ prog[p].val[f] = reg[StepOf(p).reg][f]
                    \/ StepOf(p).reg = "out" /\ f \in leaked

\* What a write does.
LEMMA WriteFacts ==
    ASSUME ProgType, RegType, NEW p \in Programs, ScriptInv(p), AgreeInv(p), WriteRegister(p), NEW r, r = StepOf(p).reg
    PROVE  /\ RegType' /\ r \in Registers /\ disturbed \subseteq disturbed'
           /\ disturbed' \subseteq disturbed \cup {r}
           /\ r \notin disturbed' => r \notin disturbed /\ ~Overlapped(p, r)
           /\ \A s \in Registers : s # r => reg'[s] = reg[s] /\ intended'[s] = intended[s]
           /\ reg'[r] = Value(p)
           /\ \A f \in Fields[r] :
                 intended'[r][f] = IF f \in DOMAIN StepOf(p).set THEN StepOf(p).set[f] ELSE intended[r][f]
           /\ \A f \in Fields[r] :
                 f \in DOMAIN StepOf(p).set => reg'[r][f] = StepOf(p).set[f]
           /\ \A f \in Fields[r] :
                 f \notin DOMAIN StepOf(p).set =>
                    /\ StepOf(p).kind = "rmw" /\ reg'[r][f] = prog[p].val[f]
                    /\ r \notin disturbed => reg'[r][f] = reg[r][f] \/ (r = "out" /\ f \in leaked)
<1>0. /\ prog[p].op = "script" /\ prog[p].phase = "write"
      /\ reg' = [reg EXCEPT ![r] = Value(p)]
      /\ intended' = [intended EXCEPT ![r] = Changed(StepOf(p).set, intended[r])]
      /\ disturbed' = IF Overlapped(p, r) THEN disturbed \cup {r} ELSE disturbed
  BY DEF WriteRegister
<1>1. StepOK(StepOf(p))
  BY <1>0, StepFacts
<1>2. PICK set : set = StepOf(p).set
  OBVIOUS
<1>3. /\ r \in Registers /\ set \in [DOMAIN set -> {0, 1}] /\ DOMAIN set \subseteq Fields[r]
      /\ StepOf(p).kind \in {"rmw", "put", "test"} /\ (StepOf(p).kind = "put" => DOMAIN set = Fields[r])
  BY <1>1, <1>2 DEF StepOK
<1>4. reg[r] \in [Fields[r] -> {0, 1}] /\ intended[r] \in [Fields[r] -> {0, 1}]
  BY <1>3 DEF RegType
<1>5. /\ Changed(set, intended[r]) \in [Fields[r] -> {0, 1}]
      /\ \A f \in Fields[r] :
            Changed(set, intended[r])[f] = IF f \in DOMAIN set THEN set[f] ELSE intended[r][f]
  <2>1. PICK old \in [Fields[r] -> {0, 1}] : old = intended[r]
    BY <1>4
  <2>2. /\ Changed(set, old) \in [Fields[r] -> {0, 1}]
        /\ \A f \in Fields[r] : Changed(set, old)[f] = IF f \in DOMAIN set THEN set[f] ELSE old[f]
    BY <1>3, ChangedFacts
  <2> QED
    BY <2>1, <2>2
<1>6. /\ Value(p) \in [Fields[r] -> {0, 1}]
      /\ \A f \in Fields[r] : f \in DOMAIN set => Value(p)[f] = set[f]
      /\ \A f \in Fields[r] : f \notin DOMAIN set =>
            StepOf(p).kind = "rmw" /\ Value(p)[f] = prog[p].val[f]
  <2>1. CASE StepOf(p).kind = "put"
    <3>1. Value(p) = set /\ DOMAIN set = Fields[r]
      BY <1>2, <1>3, <2>1 DEF Value
    <3> QED
      BY <1>3, <3>1
  <2>2. CASE StepOf(p).kind = "rmw"
    <3>1. Value(p) = Changed(set, prog[p].val)
      BY <1>2, <2>2 DEF Value
    <3>2. prog[p].val \in [Fields[r] -> {0, 1}]
      BY <1>0, <2>2 DEF ScriptInv
    <3>3. /\ Changed(set, prog[p].val) \in [Fields[r] -> {0, 1}]
          /\ \A f \in Fields[r] :
                Changed(set, prog[p].val)[f] = IF f \in DOMAIN set THEN set[f] ELSE prog[p].val[f]
      BY <1>3, <3>2, ChangedFacts
    <3> QED
      BY <2>2, <3>1, <3>3
  <2>3. StepOf(p).kind # "test"
    BY <1>0 DEF ScriptInv
  <2> QED
    BY <1>3, <2>1, <2>2, <2>3
<1>7. /\ DOMAIN reg' = Registers /\ DOMAIN intended' = Registers
      /\ reg'[r] = Value(p) /\ intended'[r] = Changed(set, intended[r])
      /\ \A s \in Registers : s # r => reg'[s] = reg[s] /\ intended'[s] = intended[s]
  BY <1>0, <1>2, <1>3 DEF RegType
<1>8. RegType'
  <2>1. ASSUME NEW s \in Registers
        PROVE  reg'[s] \in [Fields[s] -> {0, 1}] /\ intended'[s] \in [Fields[s] -> {0, 1}]
    <3>1. CASE s = r
      BY <1>5, <1>6, <1>7, <3>1
    <3>2. CASE s # r
      BY <1>7, <3>2 DEF RegType
    <3> QED
      BY <3>1, <3>2
  <2> QED
    BY <1>7, <2>1 DEF RegType
<1>9. /\ disturbed \subseteq disturbed' /\ disturbed' \subseteq disturbed \cup {r}
      /\ r \notin disturbed' => r \notin disturbed /\ ~Overlapped(p, r)
  BY <1>0
<1>10. ASSUME NEW f \in Fields[r], f \notin DOMAIN set, r \notin disturbed
       PROVE  prog[p].val[f] = reg[r][f] \/ (r = "out" /\ f \in leaked)
  <2>1. StepOf(p).kind = "rmw"
    BY <1>6, <1>10
  <2> QED
    BY <1>0, <1>2, <1>10, <2>1 DEF AgreeInv
<1>11. \A f \in Fields[r] : f \notin DOMAIN set =>
           /\ StepOf(p).kind = "rmw" /\ reg'[r][f] = prog[p].val[f]
           /\ r \notin disturbed => reg'[r][f] = reg[r][f] \/ (r = "out" /\ f \in leaked)
  BY <1>6, <1>7, <1>10
<1>12. \A f \in Fields[r] : f \in DOMAIN set => reg'[r][f] = set[f]
  BY <1>6, <1>7
<1>13. \A f \in Fields[r] :
          intended'[r][f] = IF f \in DOMAIN set THEN set[f] ELSE intended[r][f]
  BY <1>5, <1>7
<1>14. /\ RegType' /\ r \in Registers /\ reg'[r] = Value(p)
       /\ \A s \in Registers : s # r => reg'[s] = reg[s] /\ intended'[s] = intended[s]
  BY <1>3, <1>7, <1>8
<1> QED
  BY <1>2, <1>9, <1>11, <1>12, <1>13, <1>14, Zenon

\* The holder of uart_lock is in uart_configure, between setting and clearing
\* the reset bits.
ResetBusy(p) == uart_lock = p /\ prog[p].op = "script" /\ Resets(prog[p].steps, prog[p].n)

\* The holder of uart_lock is in an operation that disables the port first.
Disabling(p) == uart_lock = p /\ prog[p].op = "script" /\ Len(prog[p].steps) # 1

ResetInv ==
    reg["ctrl0"]["reset"] = 1 =>
        failed \/ "ctrl0" \in disturbed \/ \E p \in Programs : ResetBusy(p)

OnInv == ~failed /\ ~bare => reg["ctrl0"]["on"] = 1 \/ \E p \in Programs : Disabling(p)

SettingsInv ==
    /\ OnlyOverlapsLose /\ UartSerialized /\ ResetInv /\ OnInv
    /\ \A p \in Programs : AgreeInv(p)

\* Steps that write no register, and end no operation under uart_lock half-way
\* without leaving a trace.
Harmless(p) ==
    /\ Moves(p) /\ UNCHANGED <<reg, intended, disturbed>> /\ (failed => failed')
    /\ leaked \subseteq leaked' /\ leaked' \subseteq leaked \cup Pins
    /\ uart_lock = p /\ prog[p].op = "script" /\ (Ended(p) \/ Stepped(p)) => failed'

LEMMA AgreeOwn ==
    ASSUME RegType, NEW p \in Programs, Harmless(p), ScriptInv(p), AgreeInv(p)
    PROVE  AgreeInv(p)'
<1>0. reg' = reg /\ disturbed' = disturbed /\ leaked \subseteq leaked' /\ Moves(p)
  BY DEF Harmless
<1>1. CASE BeganScript(p) \/ Stepped(p)
  <2>1. prog'[p].phase = Enter(prog'[p].steps, prog'[p].n)
    BY <1>1 DEF BeganScript, Began, Stepped, Goes
  <2>2. prog'[p].phase = "write" => StepOf(p)'.kind = "put"
    BY <2>1, EnterFacts DEF StepOf
  <2>3. "put" # "rmw"
    OBVIOUS
  <2> QED
    BY <2>2, <2>3 DEF AgreeInv
<1>2. CASE BeganUart(p) \/ BeganSpi(p) \/ Ended(p) \/ NextOne(p) \/ \E phase \in Phases : Turned(p, phase)
  <2>1. prog'[p].op # "script"
    BY <1>2, IdleFields DEF BeganUart, BeganSpi, Began, Ended, NextOne, Turned, Goes
  <2> QED
    BY <2>1 DEF AgreeInv
<1>3. CASE Fetched(p)
  <2>0. PICK r : r = StepOf(p).reg
    OBVIOUS
  <2>1. /\ prog'[p].val \in Shown(r) /\ leaked' = leaked \cup Inputs(p)
        /\ prog[p].op = "script" /\ StepOf(p)' = StepOf(p)
    BY <1>3, <2>0 DEF Fetched, Goes, StepOf
  <2>2. r \in Registers
    BY <2>0, <2>1, StepFacts DEF StepOK
  <2>3. \A f \in Fields[r] : f \notin DOMAIN StepOf(p).set =>
           prog'[p].val[f] = reg[r][f] \/ (r = "out" /\ f \in Inputs(p))
    BY <2>0, <2>1, <2>2, ShownFacts
  <2>4. Inputs(p) \subseteq leaked'
    BY <2>1
  <2> QED
    BY <1>0, <2>0, <2>1, <2>3, <2>4 DEF AgreeInv
<1>4. CASE Stays
  <2>1. prog' = prog /\ StepOf(p)' = StepOf(p)
    BY <1>4 DEF Stays, StepOf
  <2> QED
    BY <1>0, <2>1 DEF AgreeInv
<1> QED
  BY <1>0, <1>1, <1>2, <1>3, <1>4 DEF Moves

LEMMA HarmlessSettings ==
    ASSUME ProgType, RegType, NEW p \in Programs, Harmless(p), ScriptInv(p), SettingsInv, bare \in BOOLEAN, failed \in BOOLEAN
    PROVE  SettingsInv'
<1>0. /\ reg' = reg /\ disturbed' = disturbed /\ intended' = intended /\ Moves(p)
      /\ (bare => bare') /\ (failed => failed') /\ leaked \subseteq leaked'
  BY DEF Harmless, Moves, BeganScript, BeganUart, BeganSpi
<1>1. ASSUME NEW q \in Programs PROVE AgreeInv(q)'
  <2>1. CASE q = p
    BY <2>1, AgreeOwn DEF SettingsInv
  <2>2. CASE q # p
    <3>1. prog'[q] = prog[q] /\ StepOf(q)' = StepOf(q) /\ AgreeInv(q)
      BY <1>0, <2>2, OthersKeep DEF Keeps, StepOf, SettingsInv
    <3> QED
      BY <1>0, <3>1 DEF AgreeInv
  <2> QED
    BY <2>1, <2>2
<1>2. ASSUME NEW h \in Programs, uart_lock = h, prog[h].op = "script", ~failed'
      PROVE  /\ uart_lock' = h /\ prog'[h].op = "script"
             /\ prog'[h].steps = prog[h].steps /\ prog'[h].n = prog[h].n
  <2>1. CASE h # p
    BY <1>0, <1>2, <2>1, OthersKeep DEF Keeps
  <2>2. CASE h = p
    <3>1. ~Ended(p) /\ ~Stepped(p)
      BY <1>2, <2>2 DEF Harmless
    <3>2. prog[p].op = "script"
      BY <1>2, <2>2
    <3>3. ~BeganScript(p) /\ ~BeganUart(p) /\ ~BeganSpi(p)
      BY <3>2 DEF BeganScript, BeganUart, BeganSpi, Began
    <3>4. ~NextOne(p) /\ ~\E phase \in Phases : Turned(p, phase)
      BY <3>2 DEF NextOne, Turned
    <3>5. Fetched(p) \/ Stays
      BY <1>0, <3>1, <3>3, <3>4 DEF Moves
    <3> QED
      BY <1>2, <2>2, <3>5 DEF Fetched, Goes, Stays, lockVars
  <2> QED
    BY <2>1, <2>2
<1>3. ResetInv'
  <2>1. SUFFICES ASSUME reg["ctrl0"]["reset"] = 1, ~failed', "ctrl0" \notin disturbed
                 PROVE  \E q \in Programs : ResetBusy(q)'
    BY <1>0 DEF ResetInv
  <2>2. ~failed
    BY <1>0, <2>1
  <2>3. PICK h \in Programs : ResetBusy(h)
    BY <2>1, <2>2 DEF SettingsInv, ResetInv
  <2>4. ResetBusy(h)'
    BY <1>2, <2>1, <2>3 DEF ResetBusy
  <2> QED
    BY <2>4
<1>4. OnInv'
  <2>1. SUFFICES ASSUME ~failed', ~bare', reg["ctrl0"]["on"] # 1 PROVE \E q \in Programs : Disabling(q)'
    BY <1>0 DEF OnInv
  <2>2. ~failed /\ ~bare
    BY <1>0, <2>1
  <2>3. PICK h \in Programs : Disabling(h)
    BY <2>1, <2>2 DEF SettingsInv, OnInv
  <2>4. Disabling(h)'
    BY <1>2, <2>1, <2>3 DEF Disabling
  <2> QED
    BY <2>4
<1>5. OnlyOverlapsLose' /\ UartSerialized'
  BY <1>0 DEF SettingsInv, OnlyOverlapsLose, UartSerialized
<1> QED
  BY <1>1, <1>3, <1>4, <1>5 DEF SettingsInv

\* The write of a register.
LEMMA WriteSettings ==
    ASSUME ProgType, RegType, NEW p \in Programs, WriteRegister(p), SettingsInv,
           \A q \in Programs : ScriptInv(q), bare \in BOOLEAN, failed \in BOOLEAN,
           disturbed \subseteq Registers
    PROVE  SettingsInv'
<1>0. PICK r : r = StepOf(p).reg
  OBVIOUS
<1>1. /\ \/ ((Ended(p) /\ prog[p].n = Len(prog[p].steps)) \/ Stepped(p))
         \/ Stays
      /\ ProgType' /\ prog[p].op = "script" /\ prog[p].phase = "write" /\ bare' = bare /\ failed' = failed
      /\ ops' = ops
  BY WriteRegisterFacts DEF Quiet
<1>2. Moves(p)
  BY <1>1 DEF Moves
<1>3. ScriptInv(p) /\ AgreeInv(p)
  BY DEF SettingsInv
<1>4. /\ RegType' /\ r \in Registers /\ disturbed \subseteq disturbed'
      /\ disturbed' \subseteq disturbed \cup {r}
      /\ r \notin disturbed' => r \notin disturbed /\ ~Overlapped(p, r)
      /\ \A s \in Registers : s # r => reg'[s] = reg[s] /\ intended'[s] = intended[s]
  BY <1>0, <1>3, WriteFacts
<1>5. /\ \A f \in Fields[r] :
            intended'[r][f] = IF f \in DOMAIN StepOf(p).set THEN StepOf(p).set[f] ELSE intended[r][f]
      /\ \A f \in Fields[r] :
            f \in DOMAIN StepOf(p).set => reg'[r][f] = StepOf(p).set[f]
      /\ \A f \in Fields[r] :
            f \notin DOMAIN StepOf(p).set =>
               /\ StepOf(p).kind = "rmw" /\ reg'[r][f] = prog[p].val[f]
               /\ r \notin disturbed => reg'[r][f] = reg[r][f] \/ (r = "out" /\ f \in leaked)
  BY <1>0, <1>3, WriteFacts
<1>l. leaked' = IF r = "out" THEN leaked \ DOMAIN StepOf(p).set ELSE leaked
  BY <1>0 DEF WriteRegister
<1>6. OnlyOverlapsLose'
  <2>1. ASSUME NEW s \in Registers, s \notin disturbed', NEW f \in Fields[s]
        PROVE  reg'[s][f] = intended'[s][f] \/ (s = "out" /\ f \in leaked')
    <3>1. s \notin disturbed /\ (reg[s][f] = intended[s][f] \/ (s = "out" /\ f \in leaked))
      BY <1>4, <2>1 DEF SettingsInv, OnlyOverlapsLose
    <3>2. CASE s # r
      <4>1. reg'[s] = reg[s] /\ intended'[s] = intended[s]
        BY <1>4, <3>2
      <4>2. s = "out" => leaked' = leaked
        BY <1>l, <3>2
      <4> QED
        BY <3>1, <4>1, <4>2
    <3>3. CASE s = r
      <4>1. CASE f \in DOMAIN StepOf(p).set
        BY <1>5, <3>3, <4>1
      <4>2. CASE f \notin DOMAIN StepOf(p).set
        <5>1. intended'[r][f] = intended[r][f]
          BY <1>5, <3>3, <4>2
        <5>2. reg'[r][f] = reg[r][f] \/ (r = "out" /\ f \in leaked)
          BY <1>5, <3>1, <3>3, <4>2
        <5>3. r = "out" /\ f \in leaked => f \in leaked'
          BY <1>l, <4>2
        <5> QED
          BY <3>1, <3>3, <5>1, <5>2, <5>3
      <4> QED
        BY <4>1, <4>2
    <3> QED
      BY <3>2, <3>3
  <2> QED
    BY <2>1 DEF OnlyOverlapsLose
<1>7. ASSUME NEW q \in Programs PROVE AgreeInv(q)'
  <2>1. CASE q # p
    <3>1. prog'[q] = prog[q] /\ StepOf(q)' = StepOf(q) /\ AgreeInv(q) /\ ScriptInv(q)
      BY <1>2, <2>1, OthersKeep DEF Keeps, StepOf, SettingsInv
    <3>2. SUFFICES ASSUME prog[q].op = "script", prog[q].phase = "write", StepOf(q).kind = "rmw",
                          StepOf(q).reg \notin disturbed'
                   PROVE  \A f \in Fields[StepOf(q).reg] :
                             f \notin DOMAIN StepOf(q).set =>
                                \/ prog[q].val[f] = reg'[StepOf(q).reg][f]
                                \/ StepOf(q).reg = "out" /\ f \in leaked'
      BY <3>1 DEF AgreeInv
    <3>3. StepOf(q).reg # r
      BY <1>4, <2>1, <3>2 DEF Overlapped
    <3>4. StepOf(q).reg \in Registers
      BY <3>1, <3>2, StepFacts DEF StepOK
    <3>5. reg'[StepOf(q).reg] = reg[StepOf(q).reg] /\ StepOf(q).reg \notin disturbed
      BY <1>4, <3>2, <3>3, <3>4
    <3>6. StepOf(q).reg = "out" => leaked' = leaked
      BY <1>l, <3>3
    <3> QED
      BY <3>1, <3>2, <3>5, <3>6 DEF AgreeInv
  <2>2. CASE q = p
    <3>1. CASE Ended(p)
      BY <2>2, <3>1, IdleFields DEF Ended, AgreeInv
    <3>2. CASE Stepped(p)
      <4>1. prog'[p].phase = Enter(prog'[p].steps, prog'[p].n)
        BY <3>2 DEF Stepped, Goes
      <4>2. prog'[p].phase = "write" => StepOf(p)'.kind = "put"
        BY <4>1, EnterFacts DEF StepOf
      <4>3. "put" # "rmw"
        OBVIOUS
      <4> QED
        BY <2>2, <4>2, <4>3 DEF AgreeInv
    <3>3. CASE Stays
      <4>1. prog' = prog /\ StepOf(p)' = StepOf(p)
        BY <3>3 DEF Stays, StepOf
      <4> QED
        BY <1>0, <1>5, <2>2, <4>1 DEF AgreeInv
    <3> QED
      BY <1>1, <3>1, <3>2, <3>3
  <2> QED
    BY <2>1, <2>2
<1>8. "ctrl1" \notin disturbed' /\ ("ctrl0" \in disturbed' => bare)
  <2>1. ASSUME r \in {"ctrl0", "ctrl1"}, Overlapped(p, r), ~(r = "ctrl0" /\ bare) PROVE FALSE
    <3>1. PICK q \in Programs : q # p /\ prog[q].op = "script" /\ StepOf(q).reg = r
      BY <2>1 DEF Overlapped
    <3>2. ASSUME NEW s \in Programs, prog[s].op = "script", StepOf(s).reg = r PROVE uart_lock = s
      <4>1. SUFFICES ASSUME uart_lock # s PROVE FALSE
        OBVIOUS
      <4>2. ScriptInv(s) /\ BareStep(prog[s].steps, prog[s].n)
        BY <3>2, <4>1, StepFacts
      <4>3. r # "ctrl1" /\ (r = "ctrl0" => prog[s].steps \in {uart_enable, uart_disable})
        BY <3>2, <4>2 DEF BareStep, StepOf
      <4>4. r = "ctrl0" => bare
        BY <3>2, <4>1, <4>2, <4>3 DEF ScriptInv
      <4> QED
        BY <2>1, <4>3, <4>4
    <3>3. uart_lock = p /\ uart_lock = q
      BY <1>0, <1>1, <3>1, <3>2
    <3> QED
      BY <3>1, <3>3
  <2>2. disturbed' = IF Overlapped(p, r) THEN disturbed \cup {r} ELSE disturbed
    BY <1>0 DEF WriteRegister
  <2>3. "ctrl1" \notin disturbed /\ ("ctrl0" \in disturbed => bare)
    BY DEF SettingsInv, UartSerialized
  <2> QED
    BY <2>1, <2>2, <2>3
<1>9. UartSerialized'
  BY <1>1, <1>8 DEF UartSerialized
<1>10. ASSUME NEW h \in Programs, h # p, uart_lock = h
       PROVE  uart_lock' = h /\ prog'[h] = prog[h]
  BY <1>2, <1>10, OthersKeep DEF Keeps
<1>11. /\ uart_lock = p => SerialStep(prog[p].steps, prog[p].n)
       /\ uart_lock # p => BareStep(prog[p].steps, prog[p].n)
       /\ Len(prog[p].steps) \in Nat /\ prog[p].n \in 1..Len(prog[p].steps)
  BY <1>1, <1>3, StepFacts
<1>12. StepOf(p) = prog[p].steps[prog[p].n]
  BY DEF StepOf
<1>13. "reset" \in Fields["ctrl0"] /\ "on" \in Fields["ctrl0"] /\ "ctrl0" \in Registers
  BY FieldsOf
<1>14. ~Ended(p) => prog'[p].op = "script" /\ prog'[p].steps = prog[p].steps /\ uart_lock' = uart_lock
                    /\ (prog'[p].n = prog[p].n \/ prog'[p].n = prog[p].n + 1)
  BY <1>1 DEF Stepped, Goes, Stays, lockVars
<1>15. ResetInv'
  <2>1. SUFFICES ASSUME reg'["ctrl0"]["reset"] = 1, ~failed', "ctrl0" \notin disturbed'
                 PROVE  \E q \in Programs : ResetBusy(q)'
    BY DEF ResetInv
  <2>2. ~failed /\ "ctrl0" \notin disturbed
    BY <1>1, <1>4, <2>1
  <2>3. ASSUME reg["ctrl0"]["reset"] = 1 PROVE \E h \in Programs : ResetBusy(h)
    BY <2>2, <2>3 DEF SettingsInv, ResetInv
  <2>4. ASSUME NEW h \in Programs, h # p, ResetBusy(h) PROVE ResetBusy(h)'
    BY <1>10, <2>4 DEF ResetBusy
  <2>5. CASE uart_lock = p
    <3>1. SerialStep(prog[p].steps, prog[p].n)
      BY <1>11, <2>5
    <3>2. CASE r = "ctrl0" /\ StepOf(p).kind = "put"
      <4>1. prog[p].n = 2 /\ Len(prog[p].steps) = 7
        BY <1>0, <1>12, <3>1, <3>2 DEF SerialStep
      <4>2. ~Ended(p)
        <5>1. ~(Ended(p) /\ prog[p].n = Len(prog[p].steps))
          BY <4>1
        <5>2. Stepped(p) \/ Stays => prog'[p].op = "script"
          BY <1>1 DEF Stepped, Goes, Stays
        <5>3. Ended(p) => prog'[p].op = "idle"
          BY IdleFields DEF Ended
        <5> QED
          BY <1>1, <5>1, <5>2, <5>3
      <4>3. ResetBusy(p)'
        BY <1>14, <2>5, <4>1, <4>2 DEF ResetBusy, Resets
      <4> QED
        BY <4>3
    <3>3. CASE ~(r = "ctrl0" /\ StepOf(p).kind = "put")
      <4>1. reg["ctrl0"]["reset"] = 1
        <5>1. CASE r # "ctrl0"
          BY <1>4, <1>13, <2>1, <5>1
        <5>2. CASE r = "ctrl0"
          <6>1. StepOf(p).kind = "rmw"
            BY <1>0, <1>12, <3>1, <3>3, <5>2 DEF SerialStep, StepOK
          <6>2. "reset" \in DOMAIN StepOf(p).set => StepOf(p).set["reset"] = 0
            BY <1>0, <1>12, <3>1, <5>2, <6>1 DEF SerialStep
          <6>3. "reset" \notin DOMAIN StepOf(p).set
            BY <1>5, <1>13, <2>1, <5>2, <6>2
          <6> QED
            BY <1>5, <1>13, <2>1, <2>2, <5>2, <6>3
        <5> QED
          BY <5>1, <5>2
      <4>2. PICK h \in Programs : ResetBusy(h)
        BY <2>3, <4>1
      <4>3. h = p /\ prog[p].n \in {2, 3} /\ Len(prog[p].steps) = 7
        BY <2>5, <4>2 DEF ResetBusy, Resets
      <4>4. r = "ctrl0" /\ (prog[p].n = 2 => StepOf(p).kind = "put")
            /\ (prog[p].n = 3 => StepOf(p).kind = "rmw" /\ "reset" \in DOMAIN StepOf(p).set)
        BY <1>0, <1>12, <3>1, <4>3 DEF SerialStep
      <4>5. StepOf(p).kind = "rmw" /\ "reset" \in DOMAIN StepOf(p).set
        BY <3>3, <4>3, <4>4
      <4>6. StepOf(p).set["reset"] = 0
        BY <1>0, <1>12, <3>1, <4>4, <4>5 DEF SerialStep
      <4>7. reg'["ctrl0"]["reset"] = 0
        BY <1>5, <1>13, <4>4, <4>5, <4>6
      <4> QED
        BY <2>1, <4>7
    <3> QED
      BY <3>2, <3>3
  <2>6. CASE uart_lock # p
    <3>1. BareStep(prog[p].steps, prog[p].n)
      BY <1>11, <2>6
    <3>2. r = "ctrl0" => "reset" \notin DOMAIN StepOf(p).set
      BY <1>0, <1>12, <3>1 DEF BareStep
    <3>3. reg["ctrl0"]["reset"] = 1
      <4>1. CASE r = "ctrl0"
        BY <1>5, <1>13, <2>1, <2>2, <3>2, <4>1
      <4>2. CASE r # "ctrl0"
        BY <1>4, <1>13, <2>1, <4>2
      <4> QED
        BY <4>1, <4>2
    <3>4. PICK h \in Programs : ResetBusy(h)
      BY <2>3, <3>3
    <3>5. h # p
      BY <2>6, <3>4 DEF ResetBusy
    <3> QED
      BY <2>4, <3>4, <3>5
  <2> QED
    BY <2>5, <2>6
<1>16. OnInv'
  <2>1. SUFFICES ASSUME ~failed', ~bare', reg'["ctrl0"]["on"] # 1
                 PROVE  \E q \in Programs : Disabling(q)'
    BY DEF OnInv
  <2>2. ~failed /\ ~bare /\ "ctrl0" \notin disturbed' /\ "ctrl0" \notin disturbed
    BY <1>1, <1>4, <1>8, <2>1
  <2>3. ASSUME reg["ctrl0"]["on"] # 1 PROVE \E h \in Programs : Disabling(h)
    BY <2>2, <2>3 DEF SettingsInv, OnInv
  <2>4. ASSUME NEW h \in Programs, h # p, Disabling(h) PROVE Disabling(h)'
    BY <1>10, <2>4 DEF Disabling
  <2>5. CASE uart_lock # p
    <3>1. BareStep(prog[p].steps, prog[p].n)
      BY <1>11, <2>5
    <3>2. r = "ctrl0" => prog[p].steps \in {uart_enable, uart_disable}
      BY <1>0, <1>12, <3>1 DEF BareStep
    <3>3. prog[p].steps \in {uart_enable, uart_disable} => bare
      BY <1>1, <1>3, <2>5 DEF ScriptInv
    <3>4. r # "ctrl0"
      BY <2>2, <3>2, <3>3
    <3>5. reg["ctrl0"]["on"] # 1
      BY <1>4, <1>13, <2>1, <3>4
    <3>6. PICK h \in Programs : Disabling(h)
      BY <2>3, <3>5
    <3>7. h # p
      BY <2>5, <3>6 DEF Disabling
    <3> QED
      BY <2>4, <3>6, <3>7
  <2>6. CASE uart_lock = p
    <3>1. SerialStep(prog[p].steps, prog[p].n)
      BY <1>11, <2>6
    <3>2. CASE Len(prog[p].steps) = 1
      <4>1. prog[p].n = Len(prog[p].steps)
        BY <1>11, <3>2
      <4>2. r = "ctrl0" /\ "on" \notin DOMAIN StepOf(p).set
        BY <1>0, <1>12, <3>1, <3>2, <4>1 DEF SerialStep
      <4>3. reg["ctrl0"]["on"] # 1
        BY <1>5, <1>13, <2>1, <2>2, <4>2
      <4>4. PICK h \in Programs : Disabling(h)
        BY <2>3, <4>3
      <4> QED
        BY <2>6, <3>2, <4>4 DEF Disabling
    <3>3. CASE Len(prog[p].steps) # 1 /\ prog[p].n = Len(prog[p].steps)
      <4>1. r = "ctrl0" /\ "on" \in DOMAIN StepOf(p).set /\ StepOf(p).set["on"] = 1
        BY <1>0, <1>12, <3>1, <3>3 DEF SerialStep
      <4>2. reg'["ctrl0"]["on"] = 1
        BY <1>5, <1>13, <4>1
      <4> QED
        BY <2>1, <4>2
    <3>4. CASE Len(prog[p].steps) # 1 /\ prog[p].n # Len(prog[p].steps)
      <4>1. Stepped(p) \/ Stays
        BY <1>1, <3>4
      <4>2. prog'[p].op = "script" /\ prog'[p].steps = prog[p].steps /\ uart_lock' = uart_lock
        BY <1>1, <4>1 DEF Stepped, Goes, Stays, lockVars
      <4>3. Disabling(p)'
        BY <2>6, <3>4, <4>2 DEF Disabling
      <4> QED
        BY <4>3
    <3> QED
      BY <3>2, <3>3, <3>4
  <2> QED
    BY <2>5, <2>6
<1> QED
  BY <1>6, <1>7, <1>9, <1>15, <1>16 DEF SettingsInv

\* Every other step of a program is harmless to the registers.
LEMMA StepsHarmless ==
    ASSUME ProgType, RegType, ops \in Nat, NEW p \in Programs, ScriptInv(p), Steps(p), failed \in BOOLEAN
    PROVE  Harmless(p) \/ WriteRegister(p)
<1>0. Moves(p)
  BY StepsMove
<1>1. CASE BeginSerialized(p) \/ BeginUnserialized(p) \/ BeginWrite(p) \/ BeginRead(p) \/ BeginSpi(p)
  <2>1. prog[p].op = "idle" /\ UNCHANGED <<reg, intended, disturbed, leaked>> /\ failed' = failed
    BY <1>1 DEF regVars, BeginSerialized, BeginUnserialized, BeginWrite, BeginRead, BeginSpi, BeginScript, Begin
  <2>2. prog[p].op # "script"
    BY <2>1
  <2> QED
    BY <1>0, <2>1, <2>2 DEF Harmless
<1>2. CASE ReadRegister(p)
  <2>1. /\ Fetched(p) \/ ((Ended(p) \/ Stepped(p)) /\ StepOf(p).kind = "test")
        /\ UNCHANGED <<reg, intended, disturbed>> /\ failed' = failed /\ prog[p].op = "script"
        /\ leaked \subseteq leaked' /\ leaked' \subseteq leaked \cup Pins
    BY <1>2, ReadRegisterFacts DEF Quiet
  <2>2. uart_lock = p => StepOf(p).kind # "test"
    BY <2>1, StepFacts DEF SerialStep, StepOf
  <2>3. Fetched(p) => ~Ended(p) /\ ~Stepped(p)
    <3>1. Fetched(p) => prog'[p].op = "script" /\ prog'[p].n = prog[p].n
      BY DEF Fetched, Goes
    <3>2. Ended(p) => prog'[p].op = "idle"
      BY IdleFields DEF Ended
    <3>3. Stepped(p) => prog'[p].n = prog[p].n + 1
      BY DEF Stepped
    <3>4. prog[p].n \in Nat
      BY ActivityOf
    <3> QED
      BY <3>1, <3>2, <3>3, <3>4
  <2> QED
    BY <1>0, <2>1, <2>2, <2>3 DEF Harmless
<1>3. CASE Looks(p) \/ WriteByte(p) \/ ReadByte(p) \/ SpiClear(p) \/ SpiStart(p) \/ SpiData(p)
  <2>1. prog[p].op # "script" /\ UNCHANGED <<reg, intended, disturbed, leaked>> /\ failed' = failed
    BY <1>3 DEF regVars, Looks, WriteStatus, WriteGiveUp, ReadStatus, SpiBusy, SpiCheck, SpiPoll, SpiGiveUp,
                WriteByte, ReadByte, SpiClear, SpiStart, SpiData, SpiPhase, Quiet
  <2> QED
    BY <1>0, <2>1 DEF Harmless
<1>4. CASE Fail(p)
  <2>1. UNCHANGED <<reg, intended, disturbed, leaked>> /\ failed' = (failed \/ uart_lock = p)
    BY <1>4 DEF Fail, regVars
  <2> QED
    BY <1>0, <2>1 DEF Harmless
<1> QED
  BY <1>1, <1>2, <1>3, <1>4 DEF Steps, Proceed, Looks

-----------------------------------------------------------------------------
(* The types of the rest of the state. *)

LockType == uart_lock \in Programs \cup {None} /\ spi_lock \in Programs \cup {None}
FlagType ==
    /\ ops \in 0..MaxOps /\ faults \in 0..MaxFaults
    /\ repeated \in BOOLEAN /\ bare \in BOOLEAN /\ failed \in BOOLEAN
FifoType ==
    /\ tx \in 0..FifoSize /\ rx \in 0..MaxRx /\ arrived \in 0..MaxRx /\ rx <= arrived
    /\ wrote \in Seq([id : 1..MaxOps, byte : 1..MsgLen])
    /\ overflow \in BOOLEAN /\ garbage \in BOOLEAN
SpiType ==
    /\ spi \in [start : BOOLEAN, busy : BOOLEAN, done : BOOLEAN, cmd : 0..ops,
                pending : 0..ops, data : 0..ops]
    /\ answers \subseteq (1..MaxOps) \X (0..MaxOps)

LEMMA LockTypeStep ==
    ASSUME LockType, NEW p \in Programs, Moves(p)
    PROVE  LockType'
<1>1. /\ uart_lock' \in {uart_lock, p, None} /\ spi_lock' \in {spi_lock, p, None}
  BY DEF Moves, BeganScript, BeganUart, BeganSpi, LocksUart, lockVars, Ended, Release, NextOne, Fetched,
         Stepped, Turned, Goes, Stays
<1> QED
  BY <1>1 DEF LockType

LEMMA FlagTypeStep ==
    ASSUME ProgType, RegType, FlagType, NEW p \in Programs, ScriptInv(p), Steps(p)
    PROVE  FlagType'
<1>0. ops \in Nat /\ MaxOps \in Nat /\ MaxFaults \in Nat
  BY PeripheralsAssumption DEF FlagType
<1>1. Moves(p)
  BY <1>0, StepsMove
<1>2. ops' = ops \/ (ops < MaxOps /\ ops' = ops + 1)
  BY <1>0, <1>1, MovesCount
<1>3. ops' \in 0..MaxOps
  BY <1>0, <1>2 DEF FlagType
<1>4. bare' \in BOOLEAN
  <2>1. bare' = bare \/ bare' = (bare \/ prog'[p].steps \in {uart_enable, uart_disable})
    BY <1>1 DEF Moves, BeganScript, BeganUart, BeganSpi
  <2> QED
    BY <2>1 DEF FlagType
<1>5. faults' = faults \/ (faults < MaxFaults /\ faults' = faults + 1)
  BY DEF Steps, Proceed, BeginSerialized, BeginUnserialized, BeginWrite, BeginRead, BeginSpi, BeginScript,
         Begin, Fail, ReadRegister, WriteRegister, WriteStatus, WriteGiveUp, WriteByte, ReadStatus,
         ReadByte, SpiBusy, SpiClear, SpiCheck, SpiStart, SpiPoll, SpiGiveUp, SpiData, NoFault, Repeat
<1>6. faults' \in 0..MaxFaults
  BY <1>0, <1>5 DEF FlagType
<1>7. repeated' = repeated \/ repeated' = TRUE
  BY DEF Steps, Proceed, BeginSerialized, BeginUnserialized, BeginWrite, BeginRead, BeginSpi, BeginScript,
         Begin, Fail, ReadRegister, WriteRegister, WriteStatus, WriteGiveUp, WriteByte, ReadStatus,
         ReadByte, SpiBusy, SpiClear, SpiCheck, SpiStart, SpiPoll, SpiGiveUp, SpiData, NoFault, Repeat
<1>8. failed' = failed \/ failed' = (failed \/ uart_lock = p)
  BY DEF Steps, Proceed, BeginSerialized, BeginUnserialized, BeginWrite, BeginRead, BeginSpi, BeginScript,
         Begin, Fail, ReadRegister, WriteRegister, WriteStatus, WriteGiveUp, WriteByte, ReadStatus,
         ReadByte, SpiBusy, SpiClear, SpiCheck, SpiStart, SpiPoll, SpiGiveUp, SpiData, Quiet
<1>9. repeated' \in BOOLEAN
  BY <1>7 DEF FlagType
<1>10. failed' \in BOOLEAN
  BY <1>8 DEF FlagType
<1> QED
  BY <1>3, <1>4, <1>6, <1>9, <1>10 DEF FlagType

\* Which steps of a program touch the FIFOs and the SPI controller.
LEMMA StepFrames ==
    ASSUME NEW p \in Programs, Steps(p)
    PROVE  /\ \/ UNCHANGED fifoVars
              \/ WriteRegister(p) \/ WriteByte(p) \/ ReadByte(p)
           /\ UNCHANGED spiVars \/ SpiClear(p) \/ SpiStart(p) \/ SpiData(p)
<1>1. CASE BeginSerialized(p) \/ BeginUnserialized(p) \/ BeginWrite(p) \/ BeginRead(p) \/ BeginSpi(p)
  BY <1>1 DEF BeginSerialized, BeginUnserialized, BeginWrite, BeginRead, BeginSpi, BeginScript, Begin
<1>2. CASE Looks(p) \/ ReadRegister(p) \/ Fail(p)
  BY <1>2 DEF Looks, ReadRegister, Fail, WriteStatus, WriteGiveUp, ReadStatus, SpiBusy, SpiCheck, SpiPoll,
              SpiGiveUp
<1>3. CASE WriteRegister(p) \/ WriteByte(p) \/ ReadByte(p)
  <2>1. UNCHANGED spiVars
    BY <1>3 DEF WriteRegister, WriteByte, ReadByte
  <2> QED
    BY <1>3, <2>1
<1>4. CASE SpiClear(p) \/ SpiStart(p) \/ SpiData(p)
  <2>1. UNCHANGED fifoVars
    BY <1>4 DEF SpiClear, SpiStart, SpiData
  <2> QED
    BY <1>4, <2>1
<1> QED
  BY <1>1, <1>2, <1>3, <1>4 DEF Steps, Proceed, Looks

LEMMA FifoTypeStep ==
    ASSUME ProgType, FifoType, ops \in 0..MaxOps, NEW p \in Programs, OwnerInv(p), Steps(p)
    PROVE  FifoType'
<1>0. /\ FifoSize \in Nat /\ MaxRx \in Nat /\ MaxOps \in Nat /\ MsgLen \in Nat
      /\ tx \in Nat /\ tx <= FifoSize /\ rx \in Nat /\ rx <= MaxRx /\ arrived \in Nat /\ arrived <= MaxRx
      /\ rx <= arrived
  BY PeripheralsAssumption DEF FifoType
<1>1. CASE UNCHANGED fifoVars
  BY <1>1 DEF FifoType, fifoVars
<1>2. CASE WriteRegister(p)
  <2>1. /\ (tx' = tx /\ rx' = rx) \/ (tx' = 0 /\ rx' = 0)
        /\ UNCHANGED <<arrived, wrote, overflow, garbage>>
    BY <1>2 DEF WriteRegister
  <2>2. tx' \in 0..FifoSize /\ rx' \in 0..MaxRx /\ rx' <= arrived'
    BY <1>0, <2>1
  <2> QED
    BY <2>1, <2>2 DEF FifoType
<1>3. CASE WriteByte(p)
  <2>1. /\ tx' = (IF tx < FifoSize THEN tx + 1 ELSE tx) /\ UNCHANGED <<rx, arrived, garbage>>
        /\ overflow' = (overflow \/ tx = FifoSize) /\ prog[p].op = "uart_write"
        /\ wrote' = Append(wrote, [id |-> prog[p].id, byte |-> prog[p].n])
    BY <1>3 DEF WriteByte
  <2>2. tx' \in 0..FifoSize
    BY <1>0, <2>1
  <2>3. prog[p].n \in 1..MsgLen /\ prog[p].id \in 1..MaxOps
    <3>1. prog[p].id \in 0..ops /\ prog[p].id # 0 /\ prog[p].n \in 1..MsgLen
      BY <2>1 DEF OwnerInv
    <3> QED
      BY <1>0, <3>1
  <2>4. wrote' \in Seq([id : 1..MaxOps, byte : 1..MsgLen])
    BY <2>1, <2>3 DEF FifoType
  <2>5. overflow' \in BOOLEAN
    BY <2>1 DEF FifoType
  <2> QED
    BY <2>1, <2>2, <2>4, <2>5 DEF FifoType
<1>4. CASE ReadByte(p)
  <2>1. /\ rx' = (IF rx > 0 THEN rx - 1 ELSE 0) /\ UNCHANGED <<tx, arrived, wrote, overflow>>
        /\ garbage' = garbage \/ garbage' = (garbage \/ (rx = 0 /\ prog[p].phase = "data"))
    BY <1>4 DEF ReadByte
  <2>2. rx' \in 0..MaxRx /\ rx' <= arrived'
    BY <1>0, <2>1
  <2>3. garbage' \in BOOLEAN
    BY <2>1 DEF FifoType
  <2> QED
    BY <2>1, <2>2, <2>3 DEF FifoType
<1> QED
  BY <1>1, <1>2, <1>3, <1>4, StepFrames

LEMMA SpiTypeStep ==
    ASSUME ProgType, SpiType, FlagType, NEW p \in Programs, OwnerInv(p), Moves(p), Steps(p)
    PROVE  SpiType'
<1>0. ops \in Nat /\ MaxOps \in Nat /\ ops <= MaxOps /\ ops' \in Nat /\ ops <= ops'
  BY PeripheralsAssumption, MovesCount DEF FlagType
<1>1. PICK N : N = 0..ops
  OBVIOUS
<1>2. PICK M : M = 0..ops'
  OBVIOUS
<1>3. N \subseteq M
  BY <1>0, <1>1, <1>2
<1>4. prog[p].id \in N
  BY <1>1 DEF OwnerInv
<1>5. spi \in [start : BOOLEAN, busy : BOOLEAN, done : BOOLEAN, cmd : N, pending : N, data : N]
  BY <1>1 DEF SpiType
<1>6. ASSUME spi' \in [start : BOOLEAN, busy : BOOLEAN, done : BOOLEAN, cmd : N, pending : N, data : N],
             answers' \subseteq (1..MaxOps) \X (0..MaxOps)
      PROVE  SpiType'
  <2>1. spi' \in [start : BOOLEAN, busy : BOOLEAN, done : BOOLEAN, cmd : M, pending : M, data : M]
    BY <1>3, <1>6
  <2> QED
    BY <1>2, <1>6, <2>1 DEF SpiType
<1>7. answers \subseteq (1..MaxOps) \X (0..MaxOps)
  BY DEF SpiType
<1>8. CASE UNCHANGED spiVars
  <2>1. spi' = spi /\ answers' = answers
    BY <1>8 DEF spiVars
  <2> QED
    BY <1>5, <1>6, <1>7, <2>1
<1>9. CASE SpiClear(p)
  <2>1. /\ spi' = [spi EXCEPT !.start = FALSE, !.done = FALSE,
                              !.data = IF spi.done THEN spi.pending ELSE spi.data]
        /\ answers' = answers
    BY <1>5, <1>9 DEF SpiClear
  <2>2. spi' \in [start : BOOLEAN, busy : BOOLEAN, done : BOOLEAN, cmd : N, pending : N, data : N]
    BY <1>5, <2>1
  <2> QED
    BY <1>6, <1>7, <2>1, <2>2
<1>10. CASE SpiStart(p)
  <2>1. /\ spi' = IF spi.start \/ spi.busy THEN [spi EXCEPT !.start = TRUE]
                  ELSE [spi EXCEPT !.start = TRUE, !.busy = TRUE, !.cmd = prog[p].id]
        /\ answers' = answers
    BY <1>10 DEF SpiStart
  <2>2. spi' \in [start : BOOLEAN, busy : BOOLEAN, done : BOOLEAN, cmd : N, pending : N, data : N]
    BY <1>4, <1>5, <2>1
  <2> QED
    BY <1>6, <1>7, <2>1, <2>2
<1>11. CASE SpiData(p)
  <2>1. spi' = spi /\ answers' = answers \cup {<<prog[p].id, spi.data>>} /\ prog[p].op = "spi"
    BY <1>11 DEF SpiData, SpiPhase
  <2>2. PICK i, d : i = prog[p].id /\ d = spi.data
    OBVIOUS
  <2>3. i \in N /\ i # 0 /\ d \in N
    BY <1>4, <1>5, <2>1, <2>2 DEF OwnerInv
  <2>4. i \in 1..MaxOps /\ d \in 0..MaxOps
    BY <1>0, <1>1, <2>3
  <2>5. answers' \subseteq (1..MaxOps) \X (0..MaxOps)
    BY <1>7, <2>1, <2>2, <2>4
  <2> QED
    BY <1>5, <1>6, <2>1, <2>5
<1> QED
  BY <1>8, <1>9, <1>10, <1>11, StepFrames

-----------------------------------------------------------------------------
(* The SPI controller. *)

\* The transaction with this number has been started and has not been
\* collected: the controller is busy with it or shows it as done.
Started(id) ==
    /\ spi.start
    /\ IF spi.busy THEN spi.cmd = id /\ ~spi.done ELSE spi.done /\ spi.pending = id

\* What spi_transaction may rely on at each of its accesses.
SpiInv(p) ==
    prog[p].op = "spi" =>
        /\ prog[p].phase \in {"clear", "check"} => ~spi.busy
        /\ prog[p].phase = "check" => ~spi.start /\ ~spi.done
        /\ prog[p].phase = "start" =>
              (~spi.start /\ ~spi.busy /\ ~spi.done) \/ Started(prog[p].id)
        /\ prog[p].phase = "poll" => Started(prog[p].id)
        /\ prog[p].phase = "unlatch" => ~spi.busy /\ spi.done /\ spi.pending = prog[p].id
        /\ prog[p].phase = "data" => spi.data = prog[p].id

SpiSafe == OwnSpiAnswer /\ \A p \in Programs : SpiInv(p)

\* A step that leaves the SPI controller and a program's activity alone.
LEMMA SpiKept ==
    ASSUME NEW q \in Programs, SpiInv(q), prog'[q] = prog[q], spi' = spi
    PROVE  SpiInv(q)'
BY DEF SpiInv, Started

\* The controller after each access.
LEMMA SpiClearFields ==
    ASSUME SpiType, NEW p \in Programs, SpiClear(p)
    PROVE  /\ ~spi'.start /\ spi'.busy = spi.busy /\ ~spi'.done
           /\ spi'.data = IF spi.done THEN spi.pending ELSE spi.data
<1>1. PICK N : spi \in [start : BOOLEAN, busy : BOOLEAN, done : BOOLEAN, cmd : N, pending : N, data : N]
  BY DEF SpiType
<1>2. spi' = [spi EXCEPT !.start = FALSE, !.done = FALSE,
                         !.data = IF spi.done THEN spi.pending ELSE spi.data]
  BY <1>1 DEF SpiClear
<1> QED
  BY <1>1, <1>2

LEMMA SpiStartFields ==
    ASSUME SpiType, NEW p \in Programs, SpiStart(p)
    PROVE  /\ spi'.start /\ spi'.done = spi.done /\ spi'.pending = spi.pending
           /\ spi.start \/ spi.busy => spi'.busy = spi.busy /\ spi'.cmd = spi.cmd
           /\ ~spi.start /\ ~spi.busy => spi'.busy /\ spi'.cmd = prog[p].id
<1>1. PICK N : spi \in [start : BOOLEAN, busy : BOOLEAN, done : BOOLEAN, cmd : N, pending : N, data : N]
  BY DEF SpiType
<1>2. spi' = IF spi.start \/ spi.busy THEN [spi EXCEPT !.start = TRUE]
             ELSE [spi EXCEPT !.start = TRUE, !.busy = TRUE, !.cmd = prog[p].id]
  BY DEF SpiStart
<1>3. CASE spi.start \/ spi.busy
  BY <1>1, <1>2, <1>3
<1>4. CASE ~(spi.start \/ spi.busy)
  BY <1>1, <1>2, <1>4
<1> QED
  BY <1>3, <1>4

LEMMA SpiDoneFields ==
    ASSUME SpiType, SpiDone
    PROVE  /\ spi.busy /\ ~spi'.busy /\ spi'.done = spi.start /\ spi'.pending = spi.cmd
           /\ spi'.start = spi.start /\ spi'.data = spi.data
<1>1. PICK N : spi \in [start : BOOLEAN, busy : BOOLEAN, done : BOOLEAN, cmd : N, pending : N, data : N]
  BY DEF SpiType
<1> QED
  BY <1>1 DEF SpiDone

\* The start of a transaction, or of one whose reply was lost.
LEMMA StartedFacts ==
    ASSUME SpiType, NEW p \in Programs, SpiStart(p), SpiInv(p)
    PROVE  /\ spi'.start
           /\ IF spi'.busy THEN spi'.cmd = prog[p].id /\ ~spi'.done
              ELSE spi'.done /\ spi'.pending = prog[p].id
<1>1. /\ prog[p].op = "spi" /\ prog[p].phase = "start"
      /\ (~spi.start /\ ~spi.busy /\ ~spi.done) \/ Started(prog[p].id)
  BY DEF SpiStart, SpiPhase, SpiInv
<1>2. /\ spi'.start /\ spi'.done = spi.done /\ spi'.pending = spi.pending
      /\ spi.start \/ spi.busy => spi'.busy = spi.busy /\ spi'.cmd = spi.cmd
      /\ ~spi.start /\ ~spi.busy => spi'.busy /\ spi'.cmd = prog[p].id
  BY SpiStartFields
<1>3. CASE ~spi.start /\ ~spi.busy /\ ~spi.done
  <2>1. spi'.start /\ spi'.busy /\ spi'.cmd = prog[p].id
    BY <1>2, <1>3
  <2>2. ~spi'.done
    BY <1>2, <1>3
  <2> QED
    BY <2>1, <2>2
<1>4. CASE Started(prog[p].id)
  <2>1. spi.start /\ IF spi.busy THEN spi.cmd = prog[p].id /\ ~spi.done
                    ELSE spi.done /\ spi.pending = prog[p].id
    BY <1>4 DEF Started
  <2>2. spi'.start /\ spi'.busy = spi.busy /\ spi'.cmd = spi.cmd
    BY <1>2, <2>1
  <2>3. spi'.done = spi.done /\ spi'.pending = spi.pending
    BY <1>2
  <2> QED
    BY <2>1, <2>2, <2>3
<1> QED
  BY <1>1, <1>3, <1>4

LEMMA SpiStep ==
    ASSUME ProgType, RegType, SpiType, ops \in Nat, NEW p \in Programs, ScriptInv(p), Moves(p), Steps(p),
           \A q \in Programs : OwnerInv(q), SpiSafe
    PROVE  SpiSafe'
<1>0. ASSUME ~(SpiClear(p) \/ SpiStart(p) \/ SpiData(p)) PROVE spi' = spi /\ answers' = answers
  BY <1>0, StepFrames DEF spiVars
<1>1. SpiClear(p) \/ SpiStart(p) \/ SpiData(p) => prog[p].op = "spi"
  BY DEF SpiClear, SpiStart, SpiData, SpiPhase
<1>2. ASSUME NEW q \in Programs, q # p PROVE SpiInv(q)'
  <2>1. prog'[q] = prog[q]
    BY <1>2, OthersKeep DEF Keeps
  <2>2. CASE prog[q].op = "spi"
    <3>1. prog[p].op # "spi"
      BY <1>2, <2>2 DEF OwnerInv
    <3>2. spi' = spi /\ SpiInv(q)
      BY <1>0, <1>1, <3>1 DEF SpiSafe
    <3> QED
      BY <2>1, <3>2, SpiKept
  <2>3. CASE prog[q].op # "spi"
    BY <2>1, <2>3 DEF SpiInv
  <2> QED
    BY <2>2, <2>3
<1>3. SpiInv(p)' /\ OwnSpiAnswer'
  <2>0. SpiInv(p) /\ OwnSpiAnswer
    BY DEF SpiSafe
  <2>1. CASE SpiClear(p) \/ SpiStart(p) \/ SpiData(p)
    <3>0. prog[p].op = "spi"
      BY <1>1, <2>1
    <3>1. CASE SpiClear(p)
      <4>1. /\ ~spi'.start /\ spi'.busy = spi.busy /\ ~spi'.done
            /\ spi'.data = IF spi.done THEN spi.pending ELSE spi.data
        BY <3>1, SpiClearFields
      <4>2. OwnSpiAnswer'
        BY <2>0, <3>1 DEF SpiClear, OwnSpiAnswer
      <4>3. CASE SpiPhase(p, "clear") /\ Turned(p, "check")
        <5>1. ~spi.busy
          BY <2>0, <4>3 DEF SpiPhase, SpiInv
        <5>2. ~spi'.busy /\ ~spi'.start /\ ~spi'.done
          BY <4>1, <5>1
        <5>3. prog'[p].phase = "check"
          BY <4>3 DEF Turned
        <5> QED
          BY <4>2, <5>2, <5>3 DEF SpiInv
      <4>4. CASE SpiPhase(p, "unlatch") /\ Turned(p, "data")
        <5>1. spi.done /\ spi.pending = prog[p].id
          BY <2>0, <4>4 DEF SpiPhase, SpiInv
        <5>2. prog'[p].phase = "data" /\ prog'[p].id = prog[p].id
          BY <4>4 DEF Turned, Goes
        <5>3. spi'.data = prog'[p].id
          BY <4>1, <5>1, <5>2
        <5> QED
          BY <4>2, <5>2, <5>3 DEF SpiInv
      <4>5. CASE Ended(p)
        <5>1. prog'[p].op = "idle"
          BY <4>5, IdleFields DEF Ended
        <5> QED
          BY <4>2, <5>1 DEF SpiInv
      <4>6. SpiStart(p) => SpiPhase(p, "start")
        BY DEF SpiStart
      <4>7. SpiData(p) => SpiPhase(p, "data")
        BY DEF SpiData
      <4>8. ~SpiPhase(p, "start") /\ ~SpiPhase(p, "data")
        BY <3>1 DEF SpiClear, SpiPhase
      <4> QED
        BY <3>1, <4>3, <4>4, <4>5, <4>6, <4>7, <4>8, SpiFacts
    <3>2. CASE SpiStart(p)
      <4>1. /\ spi'.start
            /\ IF spi'.busy THEN spi'.cmd = prog[p].id /\ ~spi'.done
               ELSE spi'.done /\ spi'.pending = prog[p].id
        BY <2>0, <3>2, StartedFacts
      <4>2. OwnSpiAnswer'
        BY <2>0, <3>2 DEF SpiStart, OwnSpiAnswer
      <4>3. SpiPhase(p, "start")
        BY <3>2 DEF SpiStart
      <4>4. ~SpiClear(p) /\ ~SpiData(p)
        BY <4>3 DEF SpiClear, SpiData, SpiPhase
      <4>5. Turned(p, "poll") \/ Stays
        BY <3>2, <4>4, SpiFacts
      <4>6. prog'[p].phase \in {"poll", "start"} /\ prog'[p].id = prog[p].id
        BY <4>3, <4>5 DEF Turned, Goes, Stays, SpiPhase
      <4>7. Started(prog[p].id)'
        BY <4>1, <4>6 DEF Started
      <4> QED
        BY <4>2, <4>6, <4>7 DEF SpiInv
    <3>3. CASE SpiData(p)
      <4>1. /\ spi' = spi /\ answers' = answers \cup {<<prog[p].id, spi.data>>}
            /\ SpiPhase(p, "data")
        BY <3>3 DEF SpiData
      <4>2. spi.data = prog[p].id
        BY <2>0, <4>1 DEF SpiPhase, SpiInv
      <4>3. OwnSpiAnswer'
        BY <2>0, <4>1, <4>2 DEF OwnSpiAnswer
      <4>4. ~SpiClear(p) /\ ~SpiStart(p)
        BY <4>1 DEF SpiClear, SpiStart, SpiPhase
      <4>5. Turned(p, "reset")
        BY <3>3, <4>4, SpiFacts
      <4>6. prog'[p].phase = "reset"
        BY <4>5 DEF Turned
      <4> QED
        BY <4>3, <4>6 DEF SpiInv
    <3> QED
      BY <2>1, <3>1, <3>2, <3>3
  <2>2. CASE ~(SpiClear(p) \/ SpiStart(p) \/ SpiData(p))
    <3>0. spi' = spi /\ answers' = answers
      BY <1>0, <2>2
    <3>1. OwnSpiAnswer'
      BY <2>0, <3>0 DEF OwnSpiAnswer
    <3>2. CASE Looks(p)
      <4>1. CASE Ended(p)
        <5>1. prog'[p].op = "idle"
          BY <4>1, IdleFields DEF Ended
        <5> QED
          BY <3>1, <5>1 DEF SpiInv
      <4>2. CASE prog[p].op \in {"uart_write", "uart_read"} /\ (Turned(p, "data") \/ Turned(p, "stale"))
        BY <3>1, <4>2 DEF SpiInv, Turned, Goes
      <4>3. CASE SpiPhase(p, "busy") /\ ~spi.busy /\ Turned(p, "clear")
        BY <3>1, <3>0, <4>3 DEF SpiInv, Turned
      <4>4. CASE SpiPhase(p, "check") /\ ~spi.done /\ Turned(p, "start")
        <5>1. ~spi.start /\ ~spi.busy /\ ~spi.done
          BY <2>0, <4>4 DEF SpiInv, SpiPhase
        <5>2. prog'[p].phase = "start"
          BY <4>4 DEF Turned
        <5> QED
          BY <3>1, <3>0, <5>1, <5>2 DEF SpiInv
      <4>5. CASE SpiPhase(p, "poll") /\ spi.done /\ Turned(p, "unlatch")
        <5>1. Started(prog[p].id)
          BY <2>0, <4>5 DEF SpiInv, SpiPhase
        <5>2. ~spi.busy /\ spi.done /\ spi.pending = prog[p].id
          BY <4>5, <5>1 DEF Started
        <5>3. prog'[p].phase = "unlatch" /\ prog'[p].id = prog[p].id
          BY <4>5 DEF Turned, Goes
        <5> QED
          BY <3>1, <3>0, <5>2, <5>3 DEF SpiInv
      <4> QED
        BY <3>1, <3>2, <4>1, <4>2, <4>3, <4>4, <4>5, LooksFacts
    <3>3. CASE BeginSpi(p)
      <4>1. prog'[p].phase = "busy"
        BY <3>3, BeginSpiFacts DEF BeganSpi
      <4> QED
        BY <3>1, <4>1 DEF SpiInv
    <3>4. CASE prog'[p].op # "spi"
      BY <3>1, <3>4 DEF SpiInv
    <3>5. CASE BeginSerialized(p) \/ BeginUnserialized(p)
      BY <3>4, <3>5, BeginScriptFacts DEF BeganScript, Began
    <3>6. CASE BeginWrite(p) \/ BeginRead(p)
      BY <3>4, <3>6, BeginUartFacts DEF BeganUart, Began
    <3>7. CASE ReadRegister(p) \/ WriteRegister(p)
      <4>1. Fetched(p) \/ Ended(p) \/ Stepped(p) \/ (Stays /\ prog[p].op = "script")
        BY <3>7, ReadRegisterFacts, WriteRegisterFacts
      <4>2. prog'[p].op # "spi"
        BY <4>1, IdleFields DEF Fetched, Ended, Stepped, Stays, Goes
      <4> QED
        BY <3>4, <4>2
    <3>8. CASE WriteByte(p) \/ ReadByte(p)
      <4>1. /\ Ended(p) \/ NextOne(p) \/ Stays
            /\ prog[p].op \in {"uart_write", "uart_read"}
        BY <3>8, ByteFacts
      <4>2. prog'[p].op # "spi"
        BY <4>1, IdleFields DEF Ended, NextOne, Stays, Goes
      <4> QED
        BY <3>4, <4>2
    <3>9. CASE Fail(p)
      <4>1. Ended(p)
        BY <3>9, FailFacts
      <4>2. prog'[p].op # "spi"
        BY <4>1, IdleFields DEF Ended
      <4> QED
        BY <3>4, <4>2
    <3> QED
      BY <2>2, <3>2, <3>3, <3>5, <3>6, <3>7, <3>8, <3>9 DEF Steps, Proceed, Looks
  <2> QED
    BY <2>1, <2>2
<1> QED
  BY <1>2, <1>3 DEF SpiSafe

\* The controller completes a transaction.
LEMMA SpiDoneStep ==
    ASSUME SpiType, SpiDone, SpiSafe
    PROVE  SpiSafe'
<1>0. prog' = prog /\ answers' = answers
  BY DEF SpiDone, deviceUnchanged
<1>1. /\ spi.busy /\ ~spi'.busy /\ spi'.done = spi.start /\ spi'.pending = spi.cmd
      /\ spi'.start = spi.start /\ spi'.data = spi.data
  BY SpiDoneFields
<1>2. ASSUME NEW p \in Programs PROVE SpiInv(p)'
  <2>0. SpiInv(p) /\ prog'[p] = prog[p]
    BY <1>0 DEF SpiSafe
  <2>1. ASSUME NEW id, Started(id) PROVE spi'.start /\ ~spi'.busy /\ spi'.done /\ spi'.pending = id
    <3>1. spi.start /\ spi.cmd = id
      BY <1>1, <2>1 DEF Started
    <3> QED
      BY <1>1, <3>1
  <2>2. CASE prog[p].op = "spi" /\ prog[p].phase \in {"start", "poll"}
    <3>1. Started(prog[p].id)
      BY <1>1, <2>0, <2>2 DEF SpiInv
    <3>2. Started(prog[p].id)'
      BY <2>0, <2>1, <3>1 DEF Started
    <3> QED
      BY <2>0, <2>2, <3>2 DEF SpiInv
  <2>3. CASE prog[p].op = "spi" /\ prog[p].phase \notin {"start", "poll"}
    <3>1. prog[p].phase \notin {"clear", "check", "unlatch"}
      BY <1>1, <2>0, <2>3 DEF SpiInv
    <3> QED
      BY <1>1, <2>0, <2>3, <3>1 DEF SpiInv
  <2>4. CASE prog[p].op # "spi"
    BY <2>0, <2>4 DEF SpiInv
  <2> QED
    BY <2>2, <2>3, <2>4
<1>3. OwnSpiAnswer'
  BY <1>0 DEF SpiSafe, OwnSpiAnswer
<1> QED
  BY <1>2, <1>3 DEF SpiSafe

-----------------------------------------------------------------------------
(* The FIFOs of the UART. *)

\* Why the receive FIFO may be empty although the status said otherwise.
Excused == repeated \/ (bare /\ (failed \/ "ctrl0" \in disturbed))

\* The status a program has looked at still holds when it acts on it.
FifoInv(p) ==
    /\ prog[p].op = "uart_write" /\ prog[p].phase = "data" => tx < FifoSize \/ repeated
    /\ prog[p].op = "uart_read" /\ prog[p].phase = "data" => rx > 0 \/ Excused

FifoSafe == FifosRespected /\ \A p \in Programs : FifoInv(p)

\* What has happened stays so.
LEMMA FlagsKept ==
    ASSUME ProgType, RegType, FlagType, NEW p \in Programs, ScriptInv(p), AgreeInv(p), Steps(p)
    PROVE  (repeated => repeated') /\ (Excused => Excused')
<1>0. ops \in Nat /\ failed \in BOOLEAN
  BY PeripheralsAssumption DEF FlagType
<1>1. repeated => repeated'
  <2>1. repeated' = repeated \/ repeated' = TRUE
    BY DEF Steps, Proceed, BeginSerialized, BeginUnserialized, BeginWrite, BeginRead, BeginSpi, BeginScript,
           Begin, Fail, ReadRegister, WriteRegister, WriteStatus, WriteGiveUp, WriteByte, ReadStatus,
           ReadByte, SpiBusy, SpiClear, SpiCheck, SpiStart, SpiPoll, SpiGiveUp, SpiData, NoFault, Repeat
  <2> QED
    BY <2>1
<1>2. bare => bare'
  <2>1. Moves(p)
    BY <1>0, StepsMove
  <2> QED
    BY <2>1 DEF Moves, BeganScript, BeganUart, BeganSpi
<1>3. (failed => failed') /\ disturbed \subseteq disturbed'
  <2>1. CASE Harmless(p)
    BY <2>1 DEF Harmless
  <2>2. CASE WriteRegister(p)
    <3>1. disturbed \subseteq disturbed'
      BY <2>2, WriteFacts
    <3>2. failed' = failed
      BY <2>2 DEF WriteRegister, Quiet
    <3> QED
      BY <3>1, <3>2
  <2> QED
    BY <1>0, <2>1, <2>2, StepsHarmless
<1> QED
  BY <1>1, <1>2, <1>3 DEF Excused

\* Steps of the other programs leave a program that holds uart_lock in place.
LEMMA FifoWriteRegister ==
    ASSUME ProgType, RegType, FlagType, FifoType, NEW p \in Programs, WriteRegister(p), Moves(p),
           \A q \in Programs : OwnerInv(q), ScriptInv(p), AgreeInv(p), SettingsInv', FifoSafe,
           repeated => repeated', Excused => Excused'
    PROVE  FifoSafe'
<1>0. FifoSize \in Nat \ {0} /\ tx \in Nat /\ rx \in Nat
  BY PeripheralsAssumption DEF FifoType
<1>1. /\ prog[p].op = "script" /\ UNCHANGED <<overflow, garbage>>
      /\ (tx' = tx /\ rx' = rx) \/ (StepOf(p).reg = "ctrl0" /\ Value(p)["reset"] = 1 /\ tx' = 0)
  BY DEF WriteRegister
<1>2. FifosRespected'
  <2>1. overflow' = overflow /\ garbage' = garbage
    BY <1>1
  <2> QED
    BY <2>1 DEF FifoSafe, FifosRespected, Excused
<1>3. prog'[p].op \in {"script", "idle"}
  <2>1. Ended(p) \/ Stepped(p) \/ Stays
    BY WriteRegisterFacts
  <2> QED
    BY <1>1, <2>1, IdleFields DEF Ended, Stepped, Goes, Stays
<1>4. ASSUME NEW q \in Programs, q # p PROVE FifoInv(q)'
  <2>0. FifoInv(q) /\ Keeps(q) /\ OwnerInv(q)
    BY <1>4, OthersKeep DEF FifoSafe
  <2>1. CASE prog'[q].op = "uart_write" /\ prog'[q].phase = "data"
    <3>1. tx < FifoSize \/ repeated
      BY <2>0, <2>1 DEF FifoInv, Keeps
    <3>2. tx' < FifoSize \/ repeated'
      BY <1>0, <1>1, <3>1
    <3> QED
      BY <2>1, <3>2 DEF FifoInv
  <2>2. CASE prog'[q].op = "uart_read" /\ prog'[q].phase = "data"
    <3>0. prog[q] = prog'[q] /\ uart_lock = q /\ uart_lock' = q
      BY <2>0, <2>2 DEF Keeps, OwnerInv
    <3>1. CASE rx' = rx
      BY <2>0, <2>2, <3>0, <3>1 DEF FifoInv
    <3>2. CASE StepOf(p).reg = "ctrl0" /\ Value(p)["reset"] = 1
      <4>1. reg'["ctrl0"]["reset"] = 1
        BY <3>2, WriteFacts
      <4>2. ASSUME NEW h \in Programs PROVE ~ResetBusy(h)'
        <5>1. h # q => uart_lock' # h
          BY <3>0
        <5>2. prog'[q].op # "script"
          BY <2>2
        <5> QED
          BY <5>1, <5>2 DEF ResetBusy
      <4>3. failed' \/ "ctrl0" \in disturbed'
        BY <4>1, <4>2 DEF SettingsInv, ResetInv
      <4>4. BareStep(prog[p].steps, prog[p].n)
        BY <1>1, <1>4, <3>0, StepFacts
      <4>5. prog[p].steps \in {uart_enable, uart_disable}
        BY <3>2, <4>4 DEF BareStep, StepOf
      <4>6. bare /\ bare' = bare
        BY <1>1, <1>4, <3>0, <4>5 DEF ScriptInv, WriteRegister, Quiet
      <4>7. Excused'
        BY <4>3, <4>6 DEF Excused
      <4> QED
        BY <2>2, <4>7 DEF FifoInv
    <3> QED
      BY <1>1, <3>1, <3>2
  <2> QED
    BY <2>1, <2>2 DEF FifoInv
<1>5. FifoInv(p)'
  BY <1>3 DEF FifoInv
<1> QED
  BY <1>2, <1>4, <1>5 DEF FifoSafe

\* A byte is given to the FIFO or taken from it by the holder of uart_lock.
LEMMA FifoByte ==
    ASSUME ProgType, FlagType, FifoType, NEW p \in Programs, WriteByte(p) \/ ReadByte(p), Moves(p),
           \A q \in Programs : OwnerInv(q), FifoSafe, repeated => repeated', Excused => Excused'
    PROVE  FifoSafe'
<1>0. FifoSize \in Nat /\ tx \in Nat /\ rx \in Nat
  BY PeripheralsAssumption DEF FifoType
<1>1. /\ (Ended(p) \/ NextOne(p)) \/ (Stays /\ repeated' = TRUE)
      /\ prog[p].op \in {"uart_write", "uart_read"}
  BY ByteFacts
<1>2. FifoInv(p) /\ FifosRespected
  BY DEF FifoSafe
<1>3. FifosRespected'
  <2>1. CASE WriteByte(p)
    <3>1. /\ overflow' = (overflow \/ tx = FifoSize) /\ garbage' = garbage
          /\ prog[p].op = "uart_write" /\ prog[p].phase = "data"
      BY <2>1 DEF WriteByte
    <3>2. tx < FifoSize \/ repeated
      BY <1>2, <3>1 DEF FifoInv
    <3>3. tx = FifoSize => repeated
      BY <1>0, <3>2
    <3>4. overflow' => repeated'
      BY <1>2, <3>1, <3>3 DEF FifosRespected
    <3>5. garbage' => Excused'
      BY <1>2, <3>1 DEF FifosRespected, Excused
    <3> QED
      BY <3>4, <3>5 DEF FifosRespected, Excused
  <2>2. CASE ReadByte(p)
    <3>1. /\ overflow' = overflow
          /\ garbage' = garbage \/ garbage' = (garbage \/ (rx = 0 /\ prog[p].phase = "data"))
          /\ prog[p].op = "uart_read"
      BY <2>2 DEF ReadByte
    <3>e. garbage' => garbage \/ (rx = 0 /\ prog[p].phase = "data")
      BY <3>1
    <3>2. prog[p].phase = "data" => rx > 0 \/ Excused
      BY <1>2, <3>1 DEF FifoInv
    <3>3. rx = 0 /\ prog[p].phase = "data" => Excused
      BY <1>0, <3>2
    <3>4. garbage' => Excused'
      BY <1>2, <3>e, <3>3 DEF FifosRespected, Excused
    <3>5. overflow' => repeated'
      BY <1>2, <3>1 DEF FifosRespected
    <3> QED
      BY <3>4, <3>5 DEF FifosRespected, Excused
  <2> QED
    BY <2>1, <2>2
<1>4. ASSUME NEW q \in Programs, q # p PROVE FifoInv(q)'
  <2>1. Keeps(q) /\ OwnerInv(q) /\ OwnerInv(p)
    BY <1>4, OthersKeep
  <2>2. prog'[q].op \notin {"uart_write", "uart_read"}
    BY <1>1, <1>4, <2>1 DEF Keeps, OwnerInv
  <2> QED
    BY <2>2 DEF FifoInv
<1>5. FifoInv(p)'
  <2>1. CASE Ended(p)
    <3>1. prog'[p].op = "idle"
      BY <2>1, IdleFields DEF Ended
    <3> QED
      BY <3>1 DEF FifoInv
  <2>2. CASE NextOne(p)
    <3>1. prog'[p].phase = "status"
      BY <2>2 DEF NextOne
    <3> QED
      BY <3>1 DEF FifoInv
  <2>3. CASE repeated' = TRUE
    BY <2>3 DEF FifoInv, Excused
  <2> QED
    BY <1>1, <2>1, <2>2, <2>3
<1> QED
  BY <1>3, <1>4, <1>5 DEF FifoSafe

\* A step that leaves the FIFOs alone.
LEMMA FifoQuiet ==
    ASSUME ProgType, RegType, FlagType, FifoType, NEW p \in Programs, Steps(p), Moves(p), UNCHANGED fifoVars,
           ~(WriteRegister(p) \/ WriteByte(p) \/ ReadByte(p)),
           ScriptInv(p), FifoSafe, repeated => repeated', Excused => Excused'
    PROVE  FifoSafe'
<1>0. tx' = tx /\ rx' = rx /\ overflow' = overflow /\ garbage' = garbage /\ ops \in Nat /\ rx \in Nat
  BY PeripheralsAssumption DEF fifoVars, FlagType, FifoType
<1>1. FifosRespected'
  BY <1>0 DEF FifoSafe, FifosRespected, Excused
<1>2. ASSUME NEW q \in Programs, prog'[q] = prog[q] PROVE FifoInv(q)'
  <2>1. FifoInv(q)
    BY DEF FifoSafe
  <2> QED
    BY <1>0, <1>2, <2>1 DEF FifoInv
<1>3. ASSUME NEW q \in Programs, q # p PROVE FifoInv(q)'
  BY <1>2, <1>3, OthersKeep DEF Keeps
<1>4. FifoInv(p)'
  <2>1. CASE Looks(p)
    <3>1. CASE Ended(p)
      <4>1. prog'[p].op = "idle"
        BY <3>1, IdleFields DEF Ended
      <4> QED
        BY <4>1 DEF FifoInv
    <3>2. CASE prog[p].op = "uart_write" /\ tx < FifoSize /\ Turned(p, "data")
      <4>1. prog'[p].op = "uart_write"
        BY <3>2 DEF Turned, Goes
      <4> QED
        BY <1>0, <3>2, <4>1 DEF FifoInv
    <3>3. CASE prog[p].op = "uart_read" /\ rx # 0 /\ Turned(p, "data")
      <4>1. prog'[p].op = "uart_read" /\ rx' > 0
        BY <1>0, <3>3 DEF Turned, Goes
      <4> QED
        BY <4>1 DEF FifoInv
    <3>4. CASE prog[p].op = "spi" /\ Goes(p)
      <4>1. prog'[p].op = "spi"
        BY <3>4 DEF Goes
      <4> QED
        BY <4>1 DEF FifoInv
    <3>s. CASE Turned(p, "stale")
      <4>1. prog'[p].phase = "stale"
        BY <3>s DEF Turned
      <4> QED
        BY <4>1 DEF FifoInv
    <3>5. SpiPhase(p, "busy") \/ SpiPhase(p, "check") \/ SpiPhase(p, "poll") => prog[p].op = "spi"
      BY DEF SpiPhase
    <3>6. Turned(p, "clear") \/ Turned(p, "start") \/ Turned(p, "unlatch") => Goes(p)
      BY DEF Turned
    <3> QED
      BY <2>1, <3>1, <3>2, <3>3, <3>4, <3>s, <3>5, <3>6, LooksFacts
  <2>2. CASE BeginWrite(p) \/ BeginRead(p)
    <3>1. prog'[p].phase = "status"
      BY <1>0, <2>2, BeginUartFacts DEF BeganUart
    <3> QED
      BY <3>1 DEF FifoInv
  <2>3. CASE prog'[p].op \notin {"uart_write", "uart_read"}
    BY <2>3 DEF FifoInv
  <2>4. CASE BeginSerialized(p) \/ BeginUnserialized(p)
    BY <1>0, <2>3, <2>4, BeginScriptFacts DEF BeganScript, Began
  <2>5. CASE BeginSpi(p)
    BY <1>0, <2>3, <2>5, BeginSpiFacts DEF BeganSpi, Began
  <2>6. CASE ReadRegister(p)
    <3>1. Fetched(p) \/ Ended(p) \/ Stepped(p)
      BY <2>6, ReadRegisterFacts
    <3>2. prog'[p].op \notin {"uart_write", "uart_read"}
      BY <3>1, IdleFields DEF Fetched, Ended, Stepped, Goes
    <3> QED
      BY <2>3, <3>2
  <2>7. CASE SpiClear(p) \/ SpiStart(p) \/ SpiData(p)
    <3>1. prog[p].op = "spi"
      BY <2>7, SpiFacts
    <3>2. Goes(p) \/ Ended(p) \/ Stays
      BY <2>7, SpiFacts DEF Turned
    <3>3. prog'[p].op \notin {"uart_write", "uart_read"}
      BY <3>1, <3>2, IdleFields DEF Goes, Ended, Stays
    <3> QED
      BY <2>3, <3>3
  <2>8. CASE Fail(p)
    <3>1. Ended(p)
      BY <2>8, FailFacts
    <3>2. prog'[p].op \notin {"uart_write", "uart_read"}
      BY <3>1, IdleFields DEF Ended
    <3> QED
      BY <2>3, <3>2
  <2> QED
    BY <2>1, <2>2, <2>4, <2>5, <2>6, <2>7, <2>8 DEF Steps, Proceed, Looks
<1> QED
  BY <1>1, <1>3, <1>4 DEF FifoSafe

LEMMA FifoStep ==
    ASSUME ProgType, RegType, FlagType, FifoType, NEW p \in Programs, Steps(p), Moves(p),
           \A q \in Programs : OwnerInv(q), \A q \in Programs : ScriptInv(q), SettingsInv, SettingsInv', FifoSafe
    PROVE  FifoSafe'
<1>0. ScriptInv(p) /\ AgreeInv(p)
  BY DEF SettingsInv
<1>1. (repeated => repeated') /\ (Excused => Excused')
  BY <1>0, FlagsKept
<1>2. CASE WriteRegister(p)
  BY <1>0, <1>1, <1>2, FifoWriteRegister
<1>3. CASE WriteByte(p) \/ ReadByte(p)
  BY <1>1, <1>3, FifoByte
<1>4. CASE ~(WriteRegister(p) \/ WriteByte(p) \/ ReadByte(p))
  <2>1. UNCHANGED fifoVars
    BY <1>4, StepFrames
  <2> QED
    BY <1>0, <1>1, <1>4, <2>1, FifoQuiet
<1> QED
  BY <1>2, <1>3, <1>4

\* The UART takes a byte from the transmit FIFO, or puts one into the other.
LEMMA FifoDevice ==
    ASSUME FifoType, FifoSafe, UartSends \/ UartReceives
    PROVE  FifoSafe' /\ FifoType'
<1>0. /\ FifoSize \in Nat /\ MaxRx \in Nat /\ tx \in Nat /\ rx \in Nat /\ arrived \in Nat /\ rx <= arrived
      /\ tx <= FifoSize /\ rx <= MaxRx /\ arrived <= MaxRx
  BY PeripheralsAssumption DEF FifoType
<1>1. /\ prog' = prog /\ overflow' = overflow /\ garbage' = garbage /\ wrote' = wrote
      /\ repeated' = repeated /\ bare' = bare /\ failed' = failed /\ disturbed' = disturbed
  BY DEF UartSends, UartReceives, deviceUnchanged, regVars
<1>2. \/ tx > 0 /\ tx' = tx - 1 /\ rx' = rx /\ arrived' = arrived
      \/ arrived < MaxRx /\ tx' = tx /\ rx' = rx + 1 /\ arrived' = arrived + 1
  BY DEF UartSends, UartReceives
<1>3. FifosRespected'
  BY <1>1 DEF FifoSafe, FifosRespected
<1>4. /\ tx' \in 0..FifoSize /\ rx' \in 0..MaxRx /\ arrived' \in 0..MaxRx /\ rx' <= arrived'
      /\ tx < FifoSize => tx' < FifoSize
      /\ rx > 0 => rx' > 0
  BY <1>0, <1>2
<1>5. (repeated => repeated') /\ (Excused => Excused')
  BY <1>1 DEF Excused
<1>6. ASSUME NEW p \in Programs PROVE FifoInv(p)'
  <2>1. FifoInv(p)
    BY DEF FifoSafe
  <2> QED
    BY <1>1, <1>4, <1>5, <2>1 DEF FifoInv
<1>7. FifoType'
  BY <1>1, <1>4 DEF FifoType
<1> QED
  BY <1>3, <1>6, <1>7 DEF FifoSafe

-----------------------------------------------------------------------------
(* The bytes on the wire. *)

\* The bytes of a uart_write that is under way are the last ones written.
BytesInv(p) ==
    prog[p].op = "uart_write" =>
        \A i \in 1..Len(wrote) : wrote[i].id = prog[p].id =>
            /\ wrote[i].byte <= prog[p].n
            /\ \A j \in i..Len(wrote) : wrote[j].id = prog[p].id

BytesSafe ==
    /\ MessagesContiguous
    /\ \A i \in 1..Len(wrote) : wrote[i].id <= ops
    /\ \A p \in Programs : BytesInv(p)

\* The elements of wrote.
LEMMA WroteTypes ==
    ASSUME FifoType
    PROVE  /\ Len(wrote) \in Nat
           /\ \A i \in 1..Len(wrote) : wrote[i].id \in Nat \ {0} /\ wrote[i].byte \in Nat
<1>1. wrote \in Seq([id : 1..MaxOps, byte : 1..MsgLen]) /\ MaxOps \in Nat /\ MsgLen \in Nat
  BY PeripheralsAssumption DEF FifoType
<1>2. Len(wrote) \in Nat
  BY <1>1
<1>3. ASSUME NEW i \in 1..Len(wrote) PROVE wrote[i].id \in Nat \ {0} /\ wrote[i].byte \in Nat
  <2>1. PICK S : S = [id : 1..MaxOps, byte : 1..MsgLen]
    OBVIOUS
  <2>s. wrote \in Seq(S)
    BY <1>1, <2>1
  <2>e. wrote[i] \in S
    BY <2>s
  <2>2. wrote[i].id \in 1..MaxOps /\ wrote[i].byte \in 1..MsgLen
    BY <2>1, <2>e
  <2> QED
    BY <1>1, <2>2
<1> QED
  BY <1>2, <1>3

\* A step that writes no byte.
LEMMA BytesQuiet ==
    ASSUME ProgType, FifoType, FlagType, NEW p \in Programs, Moves(p), wrote' = wrote, BytesSafe
    PROVE  BytesSafe'
<1>0. ops \in Nat /\ ops' \in Nat /\ ops <= ops'
  BY PeripheralsAssumption, MovesCount DEF FlagType
<1>1. /\ Len(wrote) \in Nat
      /\ \A i \in 1..Len(wrote) : wrote[i].id \in Nat \ {0} /\ wrote[i].byte \in Nat
  BY WroteTypes
<1>2. MessagesContiguous'
  BY DEF BytesSafe, MessagesContiguous
<1>3. ASSUME NEW i \in 1..Len(wrote) PROVE wrote[i].id <= ops /\ wrote[i].id <= ops'
  <2>1. wrote[i].id <= ops /\ wrote[i].id \in Nat
    BY <1>1 DEF BytesSafe
  <2> QED
    BY <1>0, <2>1
<1>4. \A i \in 1..Len(wrote') : wrote'[i].id <= ops'
  BY <1>3
<1>5. ASSUME NEW q \in Programs, prog'[q] = prog[q] PROVE BytesInv(q)'
  BY <1>5 DEF BytesSafe, BytesInv
<1>6. BytesInv(p)'
  <2>1. CASE prog'[p].op = "uart_write" /\ prog'[p].id = ops + 1
    <3>1. \A i \in 1..Len(wrote) : wrote[i].id # ops + 1
      BY <1>0, <1>1, <1>3
    <3> QED
      BY <2>1, <3>1 DEF BytesInv
  <2>2. CASE /\ prog[p].op = "uart_write" /\ prog'[p].id = prog[p].id
             /\ prog'[p].n \in {prog[p].n, prog[p].n + 1}
    <3>1. prog[p].n \in Nat
      BY ActivityOf
    <3>2. ASSUME NEW i \in 1..Len(wrote), wrote[i].id = prog[p].id
          PROVE  wrote[i].byte <= prog'[p].n /\ \A j \in i..Len(wrote) : wrote[j].id = prog[p].id
      <4>1. /\ wrote[i].byte <= prog[p].n /\ wrote[i].byte \in Nat
            /\ \A j \in i..Len(wrote) : wrote[j].id = prog[p].id
        BY <1>1, <2>2, <3>2 DEF BytesSafe, BytesInv
      <4>2. wrote[i].byte <= prog'[p].n
        BY <2>2, <3>1, <4>1
      <4> QED
        BY <4>1, <4>2
    <3> QED
      BY <2>2, <3>2 DEF BytesInv
  <2>3. CASE prog'[p].op # "uart_write"
    BY <2>3 DEF BytesInv
  <2>4. CASE Stays
    BY <1>5, <2>4 DEF Stays
  <2>5. BeganScript(p) \/ BeganUart(p) \/ BeganSpi(p) => prog'[p].id = ops + 1
    BY DEF BeganScript, BeganUart, BeganSpi, Began
  <2>6. Ended(p) => prog'[p].op # "uart_write"
    BY IdleFields DEF Ended
  <2>7. NextOne(p) \/ Fetched(p) \/ Stepped(p) \/ (\E phase \in Phases : Turned(p, phase))
        => /\ prog'[p].op = prog[p].op /\ prog'[p].id = prog[p].id
           /\ prog'[p].n \in {prog[p].n, prog[p].n + 1}
    BY DEF NextOne, Fetched, Stepped, Turned, Goes
  <2> QED
    BY <2>1, <2>2, <2>3, <2>4, <2>5, <2>6, <2>7 DEF Moves
<1>7. ASSUME NEW q \in Programs, q # p PROVE BytesInv(q)'
  BY <1>5, <1>7, OthersKeep DEF Keeps
<1> QED
  BY <1>2, <1>4, <1>6, <1>7 DEF BytesSafe

\* uart_write gives the next byte to the FIFO, or the same again.
LEMMA BytesWrite ==
    ASSUME ProgType, FifoType, FlagType, NEW p \in Programs, Moves(p), WriteByte(p),
           \A q \in Programs : OwnerInv(q), BytesSafe
    PROVE  BytesSafe'
<1>0. /\ Len(wrote) \in Nat
      /\ \A i \in 1..Len(wrote) : wrote[i].id \in Nat \ {0} /\ wrote[i].byte \in Nat
  BY WroteTypes
<1>1. PICK id, n : id = prog[p].id /\ n = prog[p].n
  OBVIOUS
<1>2. id \in Nat /\ n \in Nat /\ prog[p].op = "uart_write" /\ id <= ops /\ ops' = ops /\ ops \in Nat
  <2>1. id \in Nat /\ n \in Nat
    BY <1>1, ActivityOf
  <2>2. prog[p].op = "uart_write" /\ ops' = ops
    BY DEF WriteByte, Quiet
  <2>3. id \in 0..ops /\ ops \in Nat
    BY <1>1, PeripheralsAssumption DEF OwnerInv, FlagType
  <2> QED
    BY <2>1, <2>2, <2>3
<1>3. PICK L \in Nat : L = Len(wrote)
  BY <1>0
<1>e. PICK e : e = [id |-> id, byte |-> n]
  OBVIOUS
<1>4. wrote' = Append(wrote, e) /\ e.id = id /\ e.byte = n
  BY <1>1, <1>e DEF WriteByte
<1>5. Len(wrote') = L + 1 /\ wrote'[L + 1] = e /\ \A i \in 1..L : wrote'[i] = wrote[i]
  <2>1. PICK S : wrote \in Seq(S)
    BY DEF FifoType
  <2> QED
    BY <1>3, <1>4, <2>1
<1>6. \A i \in 1..(L + 1) : i \in 1..L \/ i = L + 1
  OBVIOUS
<1>7. ASSUME NEW i \in 1..L, wrote[i].id = id
      PROVE  wrote[i].byte <= n /\ \A j \in i..L : wrote[j].id = id
  BY <1>1, <1>2, <1>3, <1>7 DEF BytesSafe, BytesInv
<1>8. \A i \in 1..Len(wrote') : wrote'[i].id <= ops'
  <2>1. ASSUME NEW i \in 1..(L + 1) PROVE wrote'[i].id <= ops
    <3>1. CASE i \in 1..L
      BY <1>3, <1>5, <3>1 DEF BytesSafe
    <3>2. CASE i = L + 1
      BY <1>2, <1>4, <1>5, <3>2
    <3> QED
      BY <1>6, <3>1, <3>2
  <2> QED
    BY <1>2, <1>5, <2>1
<1>9. ASSUME NEW i \in 1..(L + 1), wrote'[i].id = id
      PROVE  wrote'[i].byte <= n /\ \A j \in i..(L + 1) : wrote'[j].id = id
  <2>1. CASE i = L + 1
    <3>1. \A j \in i..(L + 1) : j = L + 1
      BY <2>1
    <3> QED
      BY <1>2, <1>4, <1>5, <2>1, <3>1
  <2>2. CASE i \in 1..L
    <3>1. wrote[i].id = id /\ wrote'[i] = wrote[i]
      BY <1>5, <1>9, <2>2
    <3>2. wrote[i].byte <= n /\ \A j \in i..L : wrote[j].id = id
      BY <1>7, <2>2, <3>1
    <3>3. ASSUME NEW j \in i..(L + 1) PROVE wrote'[j].id = id
      <4>1. j = L + 1 \/ (j \in i..L /\ j \in 1..L)
        BY <2>2
      <4> QED
        BY <1>4, <1>5, <3>2, <4>1
    <3> QED
      BY <3>1, <3>2, <3>3
  <2> QED
    BY <1>6, <2>1, <2>2
<1>10. MessagesContiguous'
  <2>1. ASSUME NEW i \in 1..(L + 1), NEW k \in 1..(L + 1), i < k, wrote'[i].id = wrote'[k].id,
               NEW j \in i..k
        PROVE  wrote'[j].id = wrote'[i].id /\ wrote'[i].byte <= wrote'[j].byte
    <3>0. i \in 1..L
      BY <1>6, <2>1
    <3>1. CASE k \in 1..L
      <4>1. j \in 1..L
        BY <3>0, <3>1
      <4>2. wrote'[i] = wrote[i] /\ wrote'[j] = wrote[j] /\ wrote'[k] = wrote[k]
        BY <1>5, <3>0, <3>1, <4>1
      <4>3. wrote[j].id = wrote[i].id /\ wrote[i].byte <= wrote[j].byte
        BY <1>3, <2>1, <3>0, <3>1, <4>2 DEF BytesSafe, MessagesContiguous
      <4> QED
        BY <4>2, <4>3
    <3>2. CASE k = L + 1
      <4>1. wrote'[i].id = id /\ wrote'[i] = wrote[i]
        BY <1>4, <1>5, <2>1, <3>0, <3>2
      <4>2. wrote'[i].byte <= n /\ \A m \in i..(L + 1) : wrote'[m].id = id
        BY <1>9, <4>1
      <4>3. wrote'[j].id = id
        BY <3>2, <4>2
      <4>4. CASE j = L + 1
        BY <1>4, <1>5, <4>1, <4>2, <4>3, <4>4
      <4>5. CASE j \in 1..L /\ j = i
        <5>1. wrote[i].byte \in Nat
          BY <1>0, <1>3, <3>0
        <5> QED
          BY <4>1, <4>3, <4>5, <5>1
      <4>6. CASE j \in 1..L /\ i < j
        <5>1. wrote'[j] = wrote[j]
          BY <1>5, <4>6
        <5>2. wrote[i].id = wrote[j].id /\ j \in i..j
          BY <4>1, <4>3, <4>6, <5>1
        <5>3. wrote[i].byte <= wrote[j].byte
          BY <1>3, <3>0, <4>6, <5>2 DEF BytesSafe, MessagesContiguous
        <5> QED
          BY <4>1, <4>3, <5>1, <5>3
      <4>7. j = L + 1 \/ (j \in 1..L /\ (j = i \/ i < j))
        BY <3>0, <3>2
      <4> QED
        BY <4>4, <4>5, <4>6, <4>7
    <3> QED
      BY <1>6, <3>1, <3>2
  <2> QED
    BY <1>5, <2>1 DEF MessagesContiguous
<1>11. BytesInv(p)'
  <2>1. \/ prog'[p].op # "uart_write"
        \/ prog'[p].id = id /\ prog'[p].n \in {n, n + 1}
    <3>1. Ended(p) \/ NextOne(p) \/ Stays
      BY ByteFacts
    <3> QED
      BY <1>1, <3>1, IdleFields DEF Ended, NextOne, Goes, Stays
  <2>2. CASE prog'[p].op # "uart_write"
    BY <2>2 DEF BytesInv
  <2>3. CASE prog'[p].id = id /\ prog'[p].n \in {n, n + 1}
    <3>1. ASSUME NEW i \in 1..(L + 1), wrote'[i].id = id
          PROVE  wrote'[i].byte <= prog'[p].n /\ \A j \in i..(L + 1) : wrote'[j].id = id
      <4>1. wrote'[i].byte <= n /\ \A j \in i..(L + 1) : wrote'[j].id = id
        BY <1>9, <3>1
      <4>2. wrote'[i].byte \in Nat
        <5>1. CASE i \in 1..L
          BY <1>0, <1>3, <1>5, <5>1
        <5>2. CASE i = L + 1
          BY <1>2, <1>4, <1>5, <5>2
        <5> QED
          BY <1>6, <5>1, <5>2
      <4>3. wrote'[i].byte <= prog'[p].n
        BY <1>2, <2>3, <4>1, <4>2
      <4> QED
        BY <4>1, <4>3
    <3> QED
      BY <1>5, <2>3, <3>1 DEF BytesInv
  <2> QED
    BY <2>1, <2>2, <2>3
<1>12. ASSUME NEW q \in Programs, q # p PROVE BytesInv(q)'
  <2>1. Keeps(q) /\ OwnerInv(q) /\ OwnerInv(p)
    BY <1>12, OthersKeep
  <2>2. prog'[q].op # "uart_write"
    BY <1>2, <1>12, <2>1 DEF Keeps, OwnerInv
  <2> QED
    BY <2>2 DEF BytesInv
<1> QED
  BY <1>8, <1>10, <1>11, <1>12 DEF BytesSafe

LEMMA BytesStep ==
    ASSUME ProgType, FifoType, FlagType, NEW p \in Programs, Moves(p), Steps(p),
           \A q \in Programs : OwnerInv(q), BytesSafe
    PROVE  BytesSafe'
<1>1. CASE WriteByte(p)
  BY <1>1, BytesWrite
<1>2. CASE wrote' = wrote
  BY <1>2, BytesQuiet
<1>3. UNCHANGED fifoVars \/ WriteRegister(p) \/ ReadByte(p) => wrote' = wrote
  BY DEF fifoVars, WriteRegister, ReadByte
<1> QED
  BY <1>1, <1>2, <1>3, StepFrames

-----------------------------------------------------------------------------
(* All of it together. *)

CoreInv ==
    /\ ProgType /\ RegType /\ LockType /\ FlagType /\ FifoType /\ SpiType
    /\ disturbed \subseteq Registers /\ leaked \subseteq Pins
    /\ \A p \in Programs : OwnerInv(p)
    /\ \A p \in Programs : ScriptInv(p)
    /\ SettingsInv /\ SpiSafe /\ FifoSafe /\ BytesSafe

LEMMA CoreInit == Init => CoreInv
<1>0. SUFFICES ASSUME Init PROVE CoreInv
  OBVIOUS
<1>1. \A p \in Programs : prog[p] = Idle
  BY <1>0 DEF Init
<1>2. \A p \in Programs : prog[p].op = "idle" /\ prog[p].id = 0
  BY <1>1, IdleFields
<1>3. ProgType
  <2>1. Idle \in Activity
    BY DEF Idle, Activity, Vals, Phases
  <2> QED
    BY <1>0, <2>1 DEF Init, ProgType
<1>4. RegType
  <2>1. reg = [r \in Registers |-> [f \in Fields[r] |-> IF f \in Enables \cup {"p9", "p11"} THEN 1 ELSE 0]]
        /\ intended = reg
    BY <1>0 DEF Init
  <2>2. ASSUME NEW r \in Registers PROVE reg[r] \in [Fields[r] -> {0, 1}]
    <3>1. reg[r] = [f \in Fields[r] |-> IF f \in Enables \cup {"p9", "p11"} THEN 1 ELSE 0]
      BY <2>1
    <3> QED
      BY <3>1
  <2>3. DOMAIN reg = Registers
    BY <2>1
  <2> QED
    BY <2>1, <2>2, <2>3 DEF RegType
<1>c. FifoSize \in Nat /\ MaxRx \in Nat /\ MaxOps \in Nat /\ MaxFaults \in Nat
  BY PeripheralsAssumption
<1>5. LockType /\ FlagType
  <2>1. uart_lock = None /\ spi_lock = None /\ ops = 0 /\ faults = 0
    BY <1>0 DEF Init
  <2>2. repeated = FALSE /\ bare = FALSE /\ failed = FALSE
    BY <1>0 DEF Init
  <2>3. LockType
    BY <2>1 DEF LockType
  <2>4. ops \in 0..MaxOps /\ faults \in 0..MaxFaults
    BY <1>c, <2>1
  <2>5. repeated \in BOOLEAN /\ bare \in BOOLEAN /\ failed \in BOOLEAN
    BY <2>2
  <2> QED
    BY <2>3, <2>4, <2>5 DEF FlagType
<1>6. FifoType
  <2>1. tx = 0 /\ rx = 0 /\ arrived = 0 /\ wrote = <<>>
    BY <1>0 DEF Init
  <2>2. overflow = FALSE /\ garbage = FALSE
    BY <1>0 DEF Init
  <2>3. tx \in 0..FifoSize /\ rx \in 0..MaxRx /\ arrived \in 0..MaxRx /\ rx <= arrived
    BY <1>c, <2>1
  <2>4. wrote \in Seq([id : 1..MaxOps, byte : 1..MsgLen])
    BY <2>1
  <2>5. overflow \in BOOLEAN /\ garbage \in BOOLEAN
    BY <2>2
  <2> QED
    BY <2>3, <2>4, <2>5 DEF FifoType
<1>7. SpiType
  <2>1. ops = 0 /\ answers = {} /\ 0 \in 0..ops
    BY <1>0 DEF Init
  <2>2. spi = [start |-> FALSE, busy |-> FALSE, done |-> FALSE, cmd |-> 0, pending |-> 0, data |-> 0]
    BY <1>0 DEF Init
  <2> QED
    BY <2>1, <2>2 DEF SpiType
<1>8. disturbed \subseteq Registers /\ leaked \subseteq Pins
  BY <1>0 DEF Init
<1>9. \A p \in Programs : OwnerInv(p) /\ ScriptInv(p) /\ AgreeInv(p) /\ SpiInv(p) /\ FifoInv(p) /\ BytesInv(p)
  <2>1. ASSUME NEW p \in Programs PROVE OwnerInv(p)
    <3>1. uart_lock # p /\ spi_lock # p /\ ops = 0
      BY <1>0, PeripheralsAssumption DEF Init
    <3> QED
      BY <1>2, <3>1 DEF OwnerInv
  <2> QED
    BY <1>2, <2>1 DEF ScriptInv, AgreeInv, SpiInv, FifoInv, BytesInv
<1>10. SettingsInv
  <2>1. reg["ctrl0"]["on"] = 1 /\ reg["ctrl0"]["reset"] = 0
    <3>1. reg["ctrl0"] = [f \in Fields["ctrl0"] |-> IF f \in Enables \cup {"p9", "p11"} THEN 1 ELSE 0]
      BY <1>0, FieldsOf DEF Init
    <3> QED
      BY <3>1, FieldsOf
  <2>2. reg["ctrl0"]["reset"] # 1
    BY <2>1
  <2>3. OnlyOverlapsLose /\ UartSerialized
    BY <1>0 DEF Init, OnlyOverlapsLose, UartSerialized
  <2> QED
    BY <1>9, <2>1, <2>2, <2>3 DEF SettingsInv, ResetInv, OnInv
<1>11. SpiSafe /\ FifoSafe
  BY <1>0, <1>9 DEF Init, SpiSafe, OwnSpiAnswer, FifoSafe, FifosRespected
<1>12. BytesSafe
  <2>1. Len(wrote) = 0
    BY <1>0 DEF Init
  <2>2. \A i \in 1..Len(wrote) : FALSE
    BY <2>1
  <2> QED
    BY <1>9, <2>2 DEF BytesSafe, MessagesContiguous
<1> QED
  BY <1>3, <1>4, <1>5, <1>6, <1>7, <1>8, <1>9, <1>10, <1>11, <1>12 DEF CoreInv

\* A step of a program.
LEMMA CoreStep ==
    ASSUME CoreInv, NEW p \in Programs, Steps(p)
    PROVE  CoreInv'
<1>0. /\ ProgType /\ RegType /\ LockType /\ FlagType /\ FifoType /\ SpiType
      /\ disturbed \subseteq Registers /\ leaked \subseteq Pins /\ \A q \in Programs : OwnerInv(q)
      /\ \A q \in Programs : ScriptInv(q)
  BY DEF CoreInv
<1>1. SettingsInv /\ SpiSafe /\ FifoSafe /\ BytesSafe
  BY DEF CoreInv
<1>2. OwnerInv(p) /\ ScriptInv(p) /\ AgreeInv(p)
  BY <1>0, <1>1 DEF SettingsInv
<1>3. ops \in Nat /\ ops \in 0..MaxOps /\ failed \in BOOLEAN /\ bare \in BOOLEAN
  BY <1>0, PeripheralsAssumption DEF FlagType
<1>4. Moves(p) /\ ProgType'
  BY <1>0, <1>2, <1>3, StepsMove
<1>5. LockType'
  BY <1>0, <1>4, LockTypeStep
<1>6. FlagType'
  BY <1>0, <1>2, FlagTypeStep
<1>7. FifoType'
  BY <1>0, <1>2, <1>3, FifoTypeStep
<1>8. SpiType'
  BY <1>0, <1>2, <1>4, SpiTypeStep
<1>9. \A q \in Programs : OwnerInv(q)'
  BY <1>0, <1>3, <1>4, OwnerStep
<1>11. \A q \in Programs : ScriptInv(q)'
  BY <1>0, <1>2, <1>3, <1>4, ScriptStep
<1>12. RegType' /\ disturbed' \subseteq Registers /\ leaked' \subseteq Pins /\ SettingsInv'
  <2>1. CASE Harmless(p)
    <3>1. reg' = reg /\ intended' = intended /\ disturbed' = disturbed
      BY <2>1 DEF Harmless
    <3>2. RegType' /\ disturbed' \subseteq Registers
      BY <1>0, <3>1 DEF RegType
    <3>4. leaked' \subseteq Pins
      BY <1>0, <2>1 DEF Harmless
    <3>3. SettingsInv'
      BY <1>0, <1>1, <1>2, <1>3, <2>1, HarmlessSettings
    <3> QED
      BY <3>2, <3>3, <3>4
  <2>2. CASE WriteRegister(p)
    <3>1. PICK r : r = StepOf(p).reg
      OBVIOUS
    <3>2. RegType' /\ r \in Registers /\ disturbed' \subseteq disturbed \cup {r}
      BY <1>0, <1>2, <2>2, <3>1, WriteFacts
    <3>3. SettingsInv'
      BY <1>0, <1>1, <1>3, <2>2, WriteSettings
    <3>4. leaked' \subseteq Pins
      BY <1>0, <2>2 DEF WriteRegister
    <3> QED
      BY <1>0, <3>2, <3>3, <3>4
  <2> QED
    BY <1>0, <1>2, <1>3, <2>1, <2>2, StepsHarmless
<1>13. SpiSafe'
  BY <1>0, <1>1, <1>2, <1>3, <1>4, SpiStep
<1>14. FifoSafe'
  BY <1>0, <1>1, <1>4, <1>12, FifoStep
<1>15. BytesSafe'
  BY <1>0, <1>1, <1>4, BytesStep
<1> QED
  BY <1>4, <1>5, <1>6, <1>7, <1>8, <1>9, <1>11, <1>12, <1>13, <1>14, <1>15 DEF CoreInv

\* What does not depend on the FIFOs or the SPI controller.
LEMMA ProgramsKept ==
    ASSUME CoreInv, deviceUnchanged
    PROVE  /\ ProgType' /\ RegType' /\ LockType' /\ FlagType' /\ disturbed' \subseteq Registers
           /\ leaked' \subseteq Pins
           /\ \A p \in Programs : OwnerInv(p)'
           /\ \A p \in Programs : ScriptInv(p)'
           /\ SettingsInv'
<1>1. prog' = prog /\ uart_lock' = uart_lock /\ spi_lock' = spi_lock
  BY DEF deviceUnchanged, lockVars
<1>2. reg' = reg /\ intended' = intended /\ disturbed' = disturbed /\ leaked' = leaked
  BY DEF deviceUnchanged, regVars
<1>3. ops' = ops /\ faults' = faults /\ repeated' = repeated /\ bare' = bare /\ failed' = failed
  BY DEF deviceUnchanged
<1>4. ProgType' /\ RegType' /\ LockType' /\ FlagType' /\ disturbed' \subseteq Registers
      /\ leaked' \subseteq Pins
  BY <1>1, <1>2, <1>3 DEF CoreInv, ProgType, RegType, LockType, FlagType
<1>5. \A p \in Programs : OwnerInv(p)'
  BY <1>1, <1>3 DEF CoreInv, OwnerInv
<1>6. ASSUME NEW p \in Programs PROVE StepOf(p)' = StepOf(p)
  BY <1>1 DEF StepOf
<1>7. \A p \in Programs : ScriptInv(p)'
  BY <1>1, <1>3, <1>6 DEF CoreInv, ScriptInv
<1>8. \A p \in Programs : AgreeInv(p)'
  BY <1>1, <1>2, <1>6 DEF CoreInv, SettingsInv, AgreeInv
<1>9. OnlyOverlapsLose' /\ UartSerialized'
  BY <1>2, <1>3 DEF CoreInv, SettingsInv, OnlyOverlapsLose, UartSerialized
<1>10. ResetInv' /\ OnInv'
  BY <1>1, <1>2, <1>3 DEF CoreInv, SettingsInv, ResetInv, OnInv, ResetBusy, Disabling
<1> QED
  BY <1>4, <1>5, <1>7, <1>8, <1>9, <1>10 DEF SettingsInv

LEMMA BytesKept == ASSUME BytesSafe, wrote' = wrote, prog' = prog, ops' = ops PROVE BytesSafe'
BY DEF BytesSafe, MessagesContiguous, BytesInv

LEMMA SpiAllKept ==
    ASSUME SpiSafe, SpiType, spi' = spi, answers' = answers, prog' = prog, ops' = ops
    PROVE  SpiSafe' /\ SpiType'
<1>1. \A p \in Programs : SpiInv(p)'
  BY SpiKept DEF SpiSafe
<1> QED
  BY <1>1 DEF SpiSafe, SpiType, OwnSpiAnswer

LEMMA FifoAllKept ==
    ASSUME FifoSafe, FifoType, UNCHANGED fifoVars, prog' = prog, repeated' = repeated, bare' = bare,
           failed' = failed, disturbed' = disturbed
    PROVE  FifoSafe' /\ FifoType'
<1>1. tx' = tx /\ rx' = rx /\ arrived' = arrived /\ wrote' = wrote /\ overflow' = overflow /\ garbage' = garbage
  BY DEF fifoVars
<1>2. \A p \in Programs : FifoInv(p)'
  BY <1>1 DEF FifoSafe, FifoInv, Excused
<1> QED
  BY <1>1, <1>2 DEF FifoSafe, FifosRespected, FifoType

\* A step of the device.
LEMMA CoreDevice ==
    ASSUME CoreInv, UartSends \/ UartReceives \/ SpiDone \/ UNCHANGED vars
    PROVE  CoreInv'
<1>0. deviceUnchanged
  BY DEF UartSends, UartReceives, SpiDone, vars, deviceUnchanged, lockVars, regVars
<1>1. /\ prog' = prog /\ ops' = ops /\ repeated' = repeated /\ bare' = bare /\ failed' = failed
      /\ disturbed' = disturbed
  BY <1>0 DEF deviceUnchanged, regVars
<1>2. SpiSafe /\ SpiType /\ FifoSafe /\ FifoType /\ BytesSafe
  BY DEF CoreInv
<1>3. CASE UartSends \/ UartReceives
  <2>1. FifoSafe' /\ FifoType'
    BY <1>2, <1>3, FifoDevice
  <2>2. wrote' = wrote /\ spi' = spi /\ answers' = answers
    BY <1>3 DEF UartSends, UartReceives, spiVars
  <2>3. BytesSafe' /\ SpiSafe' /\ SpiType'
    BY <1>1, <1>2, <2>2, BytesKept, SpiAllKept
  <2> QED
    BY <1>0, <2>1, <2>3, ProgramsKept DEF CoreInv
<1>4. CASE SpiDone
  <2>1. SpiSafe'
    BY <1>2, <1>4, SpiDoneStep
  <2>2. UNCHANGED fifoVars /\ wrote' = wrote
    BY <1>4 DEF SpiDone, fifoVars
  <2>3. BytesSafe' /\ FifoSafe' /\ FifoType'
    BY <1>1, <1>2, <2>2, BytesKept, FifoAllKept
  <2>4. SpiType'
    <3>1. PICK N : N = 0..ops
      OBVIOUS
    <3>2. spi \in [start : BOOLEAN, busy : BOOLEAN, done : BOOLEAN, cmd : N, pending : N, data : N]
      BY <1>2, <3>1 DEF SpiType
    <3>3. spi' = [spi EXCEPT !.busy = FALSE, !.done = spi.start, !.pending = spi.cmd] /\ answers' = answers
      BY <1>4 DEF SpiDone
    <3>4. spi' \in [start : BOOLEAN, busy : BOOLEAN, done : BOOLEAN, cmd : N, pending : N, data : N]
      BY <3>2, <3>3
    <3> QED
      BY <1>1, <1>2, <3>1, <3>3, <3>4 DEF SpiType
  <2> QED
    BY <1>0, <2>1, <2>3, <2>4, ProgramsKept DEF CoreInv
<1>5. CASE UNCHANGED vars
  <2>1. UNCHANGED fifoVars /\ wrote' = wrote /\ spi' = spi /\ answers' = answers
    BY <1>5 DEF vars, fifoVars, spiVars
  <2>2. FifoSafe' /\ FifoType'
    BY <1>1, <1>2, <2>1, FifoAllKept
  <2>3. BytesSafe' /\ SpiSafe' /\ SpiType'
    BY <1>1, <1>2, <2>1, BytesKept, SpiAllKept
  <2> QED
    BY <1>0, <2>2, <2>3, ProgramsKept DEF CoreInv
<1> QED
  BY <1>3, <1>4, <1>5

\* Every program has the lock its operation needs, its script is one of the
\* library's, its view of a register is stale only where an access without a
\* lock came between, and the controllers are in the state its next access
\* relies on.
THEOREM PeripheralsInvariant == SafetySpec => []CoreInv
<1>1. Init => CoreInv
  BY CoreInit
<1>2. CoreInv /\ [Next]_vars => CoreInv'
  <2>1. SUFFICES ASSUME CoreInv, [Next]_vars PROVE CoreInv'
    OBVIOUS
  <2>2. \/ \E p \in Programs : Steps(p)
        \/ UartSends \/ UartReceives \/ SpiDone \/ UNCHANGED vars
    BY <2>1 DEF Next, Steps
  <2>3. ASSUME NEW p \in Programs, Steps(p) PROVE CoreInv'
    BY <2>1, <2>3, CoreStep
  <2>4. CASE UartSends \/ UartReceives \/ SpiDone \/ UNCHANGED vars
    BY <2>1, <2>4, CoreDevice
  <2> QED
    BY <2>2, <2>3, <2>4
<1> QED
  BY <1>1, <1>2, PTL DEF SafetySpec

LEMMA CoreSettings == CoreInv => RegistersAsSet
<1>0. SUFFICES ASSUME CoreInv PROVE RegistersAsSet
  OBVIOUS
<1>1. /\ ProgType /\ RegType /\ LockType /\ FlagType /\ FifoType /\ SpiType
      /\ disturbed \subseteq Registers /\ leaked \subseteq Pins /\ \A p \in Programs : OwnerInv(p)
  BY <1>0 DEF CoreInv
<1>2. SettingsInv
  BY <1>0 DEF CoreInv
<1>3. TypeOK
  <2>1. \A p \in Programs : /\ prog[p].op \in {"idle", "script", "uart_write", "uart_read", "spi"}
                            /\ prog[p].id \in 0..ops /\ prog[p].phase \in Phases
    BY <1>1, ActivityOf DEF OwnerInv
  <2> QED
    BY <1>1, <2>1 DEF TypeOK, RegType, LockType, FlagType, FifoType, SpiType
<1>4. OnlyOverlapsLose /\ UartSerialized
  BY <1>2 DEF SettingsInv
<1>5. UartUsable
  <2>1. SUFFICES ASSUME uart_lock = None, ~failed, ~bare
                 PROVE  reg["ctrl0"]["on"] = 1 /\ reg["ctrl0"]["reset"] = 0
    BY DEF UartUsable
  <2>2. \A p \in Programs : ~ResetBusy(p) /\ ~Disabling(p)
    BY <2>1, PeripheralsAssumption DEF ResetBusy, Disabling
  <2>3. "ctrl0" \notin disturbed
    BY <1>4, <2>1 DEF UartSerialized
  <2>4. reg["ctrl0"]["on"] = 1 /\ reg["ctrl0"]["reset"] # 1
    BY <1>2, <2>1, <2>2, <2>3 DEF SettingsInv, ResetInv, OnInv
  <2>5. reg["ctrl0"]["reset"] \in {0, 1}
    BY <1>1, FieldsOf DEF RegType
  <2> QED
    BY <2>4, <2>5
<1> QED
  BY <1>3, <1>4, <1>5 DEF RegistersAsSet

\* Registers hold what was last set, except where GPIO, uart_enable and
\* uart_disable take no lock; between two operations the UART is enabled and
\* out of reset, unless one ended half-way.
THEOREM RegistersAreAsSet == SafetySpec => []RegistersAsSet
BY PeripheralsInvariant, CoreSettings, PTL

\* uart_write overflows no FIFO and uart_read takes nothing from an empty one,
\* except where a repeated request or a reset bit written back explains it,
\* and the bytes of one uart_write are contiguous and in order.
THEOREM UartBytesAreWhole == SafetySpec => []UartBytes
<1>1. CoreInv => UartBytes
  BY DEF CoreInv, FifoSafe, BytesSafe, UartBytes
<1> QED
  BY <1>1, PeripheralsInvariant, PTL

\* A spi_transaction that succeeds returns the answer to its own command.
THEOREM SpiAnswersAreOwn == SafetySpec => []OwnSpiAnswer
<1>1. CoreInv => OwnSpiAnswer
  BY DEF CoreInv, SpiSafe
<1> QED
  BY <1>1, PeripheralsInvariant, PTL

-----------------------------------------------------------------------------
(***************************************************************************)
(* uart_lock and spi_lock above are locks; NamedLock is how they are made. *)
(* It is a lock between threads and between programs, as long as lock() is *)
(* not nested, for any number of threads, programs, failing lockf calls    *)
(* and crashes. With nesting it is not (MCNamedLockNested.cfg).            *)
(***************************************************************************)

\* A thread inside holds a level, one outside does not.
LevelsInside == \A t \in Threads : levels[t] = (IF pc[t] = "in" THEN 1 ELSE 0)

\* A thread between the two steps of lock() and the end of unlock() owns the
\* mutex of its process.
OwnsMutex == \A t \in Threads : pc[t] # "out" => owner[ProcessOf[t]] = t

\* The owner has locked the mutex.
MutexCounted == \A p \in Processes : owner[p] # Nobody => count[p] > 0

\* The process of a thread inside has the lock on the file.
OwnsFile == \A t \in Threads : pc[t] = "in" => file = ProcessOf[t]

LockInv == LockTypeOK /\ LevelsInside /\ OwnsMutex /\ MutexCounted /\ OwnsFile

-----------------------------------------------------------------------------
\* The initial state of the lock, nobody holding it, satisfies the invariant.
LEMMA LockInitial == ASSUME LockConstants, LockInit PROVE LockInv
BY DEF LockConstants, LockInit, LockInv, LockTypeOK, LevelsInside, OwnsMutex, MutexCounted, OwnsFile

\* Every step of lock(), unlock() and a crash keeps the invariant: the file
\* lock is given up only by the thread that owns the process's mutex.
LEMMA LockStep == ASSUME LockConstants, MaxDepth = 1, LockInv, [LockNext]_namedLockVars PROVE LockInv'
<1> USE DEF LockConstants, LockInv
<1>1. CASE UNCHANGED namedLockVars
  BY <1>1 DEF namedLockVars, LockTypeOK, LevelsInside, OwnsMutex, MutexCounted, OwnsFile
<1>2. ASSUME NEW t \in Threads, Lock(t) PROVE LockInv'
  <2>1. levels[t] = 0 /\ pc[t] = "out"
    BY <1>2 DEF Lock, Outside, LockTypeOK, LevelsInside
  <2>2. \A u \in Threads : pc[u] # "out" => ProcessOf[u] # ProcessOf[t] \/ u = t
    BY <1>2 DEF Lock, OwnsMutex
  <2>3. LockTypeOK'
    BY <1>2 DEF Lock, LockTypeOK
  <2>4. LevelsInside' /\ OwnsFile'
    BY <1>2, <2>1 DEF Lock, LockTypeOK, LevelsInside, OwnsFile
  <2>5. OwnsMutex' /\ MutexCounted'
    BY <1>2, <2>2 DEF Lock, LockTypeOK, OwnsMutex, MutexCounted
  <2> QED BY <2>3, <2>4, <2>5
<1>3. ASSUME NEW t \in Threads, LockfTaken(t) PROVE LockInv'
  <2>1. levels[t] = 0
    BY <1>3 DEF LockfTaken, LevelsInside
  <2>2. LockTypeOK' /\ LevelsInside'
    BY <1>3, <2>1 DEF LockfTaken, LockTypeOK, LevelsInside
  <2>3. OwnsMutex' /\ MutexCounted' /\ OwnsFile'
    BY <1>3 DEF LockfTaken, LockTypeOK, OwnsMutex, MutexCounted, OwnsFile
  <2> QED BY <2>2, <2>3
<1>4. ASSUME NEW t \in Threads, LockfFails(t) PROVE LockInv'
  <2>1. Outside(t) = "out"
    BY <1>4 DEF LockfFails, Outside, LevelsInside
  <2> QED
    BY <1>4, <2>1 DEF LockfFails, LockTypeOK, LevelsInside, OwnsMutex, MutexCounted, OwnsFile
<1>5. ASSUME NEW t \in Threads, Unlock(t) PROVE LockInv'
  <2>1. levels[t] = 1 /\ file = ProcessOf[t]
    BY <1>5 DEF Unlock, LevelsInside, OwnsFile
  <2>2. \A u \in Threads : pc[u] = "in" => u = t
    BY <1>5, <2>1 DEF Unlock, OwnsFile, OwnsMutex
  <2>3. LockTypeOK' /\ LevelsInside'
    BY <1>5, <2>1 DEF Unlock, LockTypeOK, LevelsInside
  <2>4. OwnsMutex' /\ MutexCounted' /\ OwnsFile'
    BY <1>5, <2>2 DEF Unlock, LockTypeOK, OwnsMutex, MutexCounted, OwnsFile
  <2> QED BY <2>3, <2>4
<1>6. ASSUME NEW t \in Threads, MutexUnlock(t) PROVE LockInv'
  <2>1. Outside(t) = "out"
    BY <1>6 DEF MutexUnlock, Outside, LevelsInside
  <2>2. ProcessOf[t] \in Processes /\ owner[ProcessOf[t]] = t /\ t # Nobody
        /\ count[ProcessOf[t]] \in Nat \ {0}
    BY <1>6 DEF MutexUnlock, OwnsMutex, MutexCounted, LockTypeOK
  <2>3. LockTypeOK'
    BY <1>6, <2>1, <2>2 DEF MutexUnlock, LockTypeOK
  <2>4. LevelsInside' /\ OwnsFile'
    BY <1>6, <2>1 DEF MutexUnlock, LockTypeOK, LevelsInside, OwnsFile
  <2>5. \A u \in Threads : u # t /\ pc[u] # "out" => ProcessOf[u] # ProcessOf[t]
    BY <2>2 DEF OwnsMutex
  <2>6. OwnsMutex' /\ MutexCounted'
    BY <1>6, <2>1, <2>2, <2>5 DEF MutexUnlock, LockTypeOK, OwnsMutex, MutexCounted
  <2> QED BY <2>3, <2>4, <2>6
<1>7. ASSUME NEW p \in Processes, Crash(p) PROVE LockInv'
  <2>1. LockTypeOK' /\ LevelsInside'
    BY <1>7 DEF Crash, LockTypeOK, LevelsInside
  <2>2. OwnsMutex' /\ MutexCounted' /\ OwnsFile'
    BY <1>7 DEF Crash, LockTypeOK, OwnsMutex, MutexCounted, OwnsFile
  <2> QED BY <2>1, <2>2
<1> QED BY <1>1, <1>2, <1>3, <1>4, <1>5, <1>6, <1>7 DEF LockNext, LockProceed

\* The invariant leaves room for one thread inside: the file lock names its
\* process, the mutex of that process names the thread.
LEMMA LockInvExcludes == ASSUME LockConstants, LockInv PROVE MutualExclusion
BY DEF LockConstants, LockInv, LevelsInside, OwnsMutex, OwnsFile, MutualExclusion

\* One-level use of NamedLock keeps the types of its state.
THEOREM LockTypeCorrect == ASSUME MaxDepth = 1 PROVE LockSafety => []LockTypeOK
<1>1. LockInit => LockInv
  BY LockAssumption, LockInitial
<1>2. LockInv /\ [LockNext]_namedLockVars => LockInv'
  BY LockAssumption, LockStep
<1>3. LockInv => LockTypeOK
  BY DEF LockInv
<1> QED BY <1>1, <1>2, <1>3, PTL DEF LockSafety

\* One-level use of NamedLock excludes every other thread of every program,
\* whatever fails or crashes in between.
THEOREM LockExcludes == ASSUME MaxDepth = 1 PROVE LockSafety => []MutualExclusion
<1>1. LockInit => LockInv
  BY LockAssumption, LockInitial
<1>2. LockInv /\ [LockNext]_namedLockVars => LockInv'
  BY LockAssumption, LockStep
<1>3. LockInv => MutualExclusion
  BY LockAssumption, LockInvExcludes
<1> QED BY <1>1, <1>2, <1>3, PTL DEF LockSafety

-----------------------------------------------------------------------------
(***************************************************************************)
(* I2cBus: transactions through microcode. The sequence of a transaction   *)
(* is where its calls put it (Placed, Layout, BufferLayout). While it is   *)
(* in the memory and was not overwritten (CurrentInv), the interpreter is  *)
(* before one of its calls (RunAt) with the controller as that call needs  *)
(* it (RunData), its cells hold what was stored (StoreInv), and the events *)
(* queued, running and done add up to the triggers (CountInv). A step of   *)
(* the device or of a host then leads to such a state again (BusSteps).    *)
(* Hosts in turn have only seen what the sequence stored (FoundInv).       *)
(***************************************************************************)
\* The n-th call of encode_i2c_request and the sequencer after it: the last
\* cell of its buffer, the command word in use and the commands in it.
Calls(w, r) == w + r + 7
CallAt(t, w, r, n) == Encoded(t, w, r)[n]
Seqr(t, w, r, n) == Sequenced(Encoded(t, w, r))[n]
Pos(t, w, r, n) == Len(Seqr(t, w, r, n).buffer)
Idx(t, w, r, n) == Seqr(t, w, r, n).index
Bit(t, w, r, n) == Seqr(t, w, r, n).bit

\* Cells in which the sequence stores the status and the answer.
StoreCells(t, w, r) == {Pos(t, w, r, n) : n \in (w + 6)..(w + 6 + r)}

\* The sequence of t is in APB_RAM.
Holds(t, w, r) ==
    LET b == Buffer[t][<<w, r>>] IN
    /\ Len(b) <= Len(ram)
    /\ \A i \in 1..Len(b) :
          IF i \in StoreCells(t, w, r) THEN ram[i].c = "data" ELSE ram[i] = b[i]

OpNames == {"WR", "RD", "POLL"}
RegisterNames == {"control", "data", "num_bytes", "bus_en", "status"}
Values == {v \in Word32 : (v.k = "start" => v.t \in Txs) /\ (v.k = "zero" => v.t = 0)}
Cells == {CommandWord(o) : o \in Seq(OpNames)}
         \cup {Register(r, i) : r \in RegisterNames, i \in 0..MaxWords}
         \cup {Data(v) : v \in Values} \cup {EndMark}

\* Types.
RamInv ==
    /\ ram \in Seq(Cells)
    /\ ram # <<>> => ram[1].c = "command" /\ ram[Len(ram)].c = "end"
    /\ queue \in Nat /\ (queue > 0 => ram # <<>>)

ApbInv ==
    /\ apb \in [pc : {"idle", "command", "poll", "derailed"}, address : Nat \ {0},
                word : Seq(OpNames \cup {"ERROR"}), bit : 0..CommandsPerWord]
    /\ ran \in Seq(OpNames \X RegisterNames)

ControllerInv ==
    /\ regs \in [num_bytes : Values, status : SUBSET Flags, data : Seq(Values)]
    /\ ctrl \in [cmd : BOOLEAN, peripheral : Nat, pc : {"wait", "execute"}, words : Seq(Values)]
    /\ ctrl.peripheral \in (IF ctrl.cmd THEN Txs ELSE {0})
    /\ ctrl.pc = "execute" => ctrl.cmd
    /\ "BUSY" \in regs.status <=> ctrl.pc = "execute"

MemoryInv == RamInv /\ ApbInv /\ ControllerInv

\* A host in a transaction, and one whose sequence is in the memory.
InTx(c) == c.pc # "idle"
Enabled(c) == c.pc \in {"trigger", "poll", "clear", "read"}
Locked(c) == Enabled(c) \/ c.pc = "enable"

HostRecords == [pc : {"idle", "lock", "enable", "trigger", "poll", "clear", "read"}, tx : 0..MaxTx,
                w : 0..MaxWords, r : 0..MaxWords, got : Seq(Values),
                code : {"none", "ok", "nak", "error"}]

HistoryInv ==
    /\ begun \in 0..MaxTx
    /\ asked \in [Txs -> Shapes \cup {<<0, 0>>}]
    /\ \A t \in 1..begun : asked[t] \in Shapes
    /\ triggers \in [Txs -> Nat] /\ runs \in [Txs -> Nat]
    /\ repeats \in Nat
    /\ gave_up \in BOOLEAN /\ overwritten \in BOOLEAN /\ wrong \in BOOLEAN
    /\ \A t \in Txs : triggers[t] <= 1 + repeats /\ (t > begun => triggers[t] = 0)

\* One host.
HostOK(h, c) ==
    /\ c.tx <= begun
    /\ InTx(c) \/ c.code = "ok" => c.tx # 0 /\ asked[c.tx] = <<c.w, c.r>>
    /\ c.pc \in {"lock", "enable", "trigger"} => triggers[c.tx] = 0
    /\ InTx(c) => c.code = "none"
    /\ Locked(c) => lock = h
    /\ Enabled(c) => Len(Buffer[c.tx][<<c.w, c.r>>]) <= Len(ram)
    /\ c.pc # "read" /\ InTx(c) => c.got = <<>>
    /\ c.pc = "read" => Len(c.got) < c.r \/ c.r = 0

HostInv ==
    /\ host \in [Hosts -> HostRecords]
    /\ lock \in Hosts \cup {NoHost}
    /\ HistoryInv
    /\ \A h \in Hosts : HostOK(h, host[h])
    /\ \A g, h \in Hosts : InTx(host[g]) /\ InTx(host[h]) /\ host[g].tx = host[h].tx => g = h

Busy == apb.pc # "idle"

\* The interpreter has executed n calls of the sequence of t.
AtCall(t, w, r, n) ==
    /\ apb.address = Pos(t, w, r, n) + 1 /\ apb.bit = Bit(t, w, r, n)
    /\ apb.word = Buffer[t][<<w, r>>][Idx(t, w, r, n)].ops
RunAt(t, w, r, n) ==
    /\ n \in 0..Calls(w, r) /\ AtCall(t, w, r, n)
    /\ \A i \in 1..n : ran[i] = <<CallAt(t, w, r, i).op, CallAt(t, w, r, i).r>>

\* What the controller and its registers hold then.
Answered(w, n) == n >= w + 4 /\ ~ctrl.cmd
RunData(t, w, r, n) ==
    /\ apb.pc = "poll" => n = w + 5
    /\ ctrl.cmd => n = w + 4 \/ (n = w + 5 /\ apb.pc = "poll")
    /\ ctrl.cmd => ctrl.peripheral = t /\ "DONE" \notin regs.status
    /\ n \in 1..(w + 3) => regs.status = {}
    /\ n >= 1 /\ ~Answered(w, n) => \A i \in 1..w : i < n =>
          i \in DOMAIN regs.data /\ regs.data[i] = Val("word", t, i)
    /\ n >= w + 2 => regs.num_bytes = Val("bytes", w, r)
    /\ ctrl.pc = "execute" => ctrl.words = [i \in 1..w |-> Val("word", t, i)]
    /\ Answered(w, n) =>
          /\ runs[t] > 0
          /\ n < Calls(w, r) => "DONE" \in regs.status
          /\ \A i \in 1..r : i \in DOMAIN regs.data /\ regs.data[i] = Val("answer", t, i)
RunInv(t, w, r, n) == RunAt(t, w, r, n) /\ RunData(t, w, r, n)

StatusCell(t, w, r) == ram[Pos(t, w, r, w + 6)].v
AnswerCell(t, w, r, j) == ram[Pos(t, w, r, w + 6 + j)].v
Finished(t, w, r) == "DONE" \in StatusCell(t, w, r).f

\* What the sequence has stored.
StoreInv(t, w, r, n) ==
    /\ Finished(t, w, r) => runs[t] > 0
    /\ StatusCell(t, w, r).f # {} => Finished(t, w, r)
    /\ \A j \in 1..r :
          Finished(t, w, r) /\ ~(apb.pc = "command" /\ n \in (w + 6)..(w + 5 + j)) =>
              AnswerCell(t, w, r, j) = Val("answer", t, j)

\* Events queued and running, runs and caching of the status, against triggers.
Count(p) == IF p THEN 1 ELSE 0
CountInv(t, w, r, n) ==
    /\ runs[t] + queue + Count(Busy /\ ~Answered(w, n)) <= triggers[t]
    /\ queue + Count(Busy /\ n <= w + 5) + Count(Finished(t, w, r)) <= triggers[t]

\* The sequence of t is in the memory, and n of its calls were executed.
CurrentInv(t, w, r, n) ==
    /\ asked[t] = <<w, r>>
    /\ \A h \in Hosts : Enabled(host[h]) => host[h].tx = t
    /\ Holds(t, w, r)
    /\ apb.pc # "derailed"
    /\ Busy => RunInv(t, w, r, n)
    /\ ~Busy => ~ctrl.cmd
    /\ StoreInv(t, w, r, n)
    /\ CountInv(t, w, r, n)

\* Until a sequence is overwritten, the memory is empty or holds one.
SequenceInv ==
    ~overwritten =>
        /\ ram = <<>> => ~Busy /\ ~ctrl.cmd
        /\ ram # <<>> => \E t \in 1..begun : CurrentInv(t, asked[t][1], asked[t][2], Len(ran))
        /\ \A t \in Txs : runs[t] <= triggers[t]

\* What hosts have found.
FoundInv ==
    ~overwritten =>
        \A h \in Hosts :
            LET c == host[h] IN
            /\ Enabled(c) => ram # <<>>
            /\ c.pc \in {"clear", "read"} => Finished(c.tx, c.w, c.r)
            /\ Prompt = TRUE /\ c.pc = "read" =>
                  \A i \in 1..Len(c.got) : c.got[i] = Val("answer", c.tx, i)

\* Without a fault the device is idle when no host waits for it.
FaultInv ==
    /\ OverwrittenOnlyAfterFault
    /\ ~gave_up /\ repeats = 0 /\ (\A h \in Hosts : ~Enabled(host[h])) => queue = 0 /\ ~Busy

\* The inductive invariant. What depends on the moment at which a packet
\* arrives needs a sequencer that is faster than packets.
I2cInv ==
    /\ MemoryInv /\ HostInv /\ SequenceInv /\ FoundInv /\ OwnWords /\ AsEncoded
    /\ Prompt = TRUE => FaultInv /\ OwnAnswer

-----------------------------------------------------------------------------
(* Induction, for sets of numbers. *)

LEMMA LeastNumber == ASSUME NEW T \in SUBSET Nat, T # {} PROVE \E n \in T : \A m \in T : n <= m
<1>1. IsWellFoundedOn({ss \in Nat \X Nat : ss[1] < ss[2]}, Nat)
  BY NatLessThanWellFounded DEF OpToRel
<1>2. PICK n \in T : \A m \in T : ~(<<m, n>> \in {ss \in Nat \X Nat : ss[1] < ss[2]})
  BY <1>1, WFMin, Zenon
<1>3. ASSUME NEW m \in T PROVE n <= m
  <2>1. <<m, n>> \in Nat \X Nat /\ <<m, n>>[1] = m /\ <<m, n>>[2] = n
    OBVIOUS
  <2>2. ~(m < n)
    BY <1>2, <2>1
  <2> QED
    BY <2>2
<1> QED
  BY <1>3

LEMMA NumberInduction ==
    ASSUME NEW T, 0 \in T, \A n \in Nat : n \in T => n + 1 \in T
    PROVE  Nat \subseteq T
<1>1. SUFFICES ASSUME Nat \ T # {} PROVE FALSE
  OBVIOUS
<1>2. PICK n \in Nat \ T : \A m \in Nat \ T : n <= m
  BY <1>1, LeastNumber, Zenon
<1>3. n # 0 /\ n - 1 \in Nat /\ n - 1 \in T
  BY <1>2
<1> QED
  BY <1>2, <1>3

-----------------------------------------------------------------------------
(* The sequencer's recursion has a solution, so Sequenced is one. *)

Recursion(calls, n, g) ==
    g = [m \in 0..n |-> IF m = 0 THEN NewSequencer ELSE Emit(g[m - 1], calls[m])]

LEMMA RecursionSolved == ASSUME NEW calls PROVE \A n \in Nat : \E g : Recursion(calls, n, g)
<1> DEFINE T == {n \in Nat : \E g : Recursion(calls, n, g)}
<1>1. 0 \in T
  <2>1. Recursion(calls, 0, [m \in 0..0 |-> NewSequencer])
    BY DEF Recursion
  <2> QED
    BY <2>1
<1>2. ASSUME NEW n \in Nat, n \in T PROVE n + 1 \in T
  <2>1. PICK g : Recursion(calls, n, g)
    BY <1>2
  <2>2. PICK h : h = [m \in 0..(n + 1) |-> IF m = n + 1 THEN Emit(g[n], calls[n + 1]) ELSE g[m]]
    BY Zenon
  <2>3. ASSUME NEW m \in 0..(n + 1)
        PROVE  h[m] = IF m = 0 THEN NewSequencer ELSE Emit(h[m - 1], calls[m])
    <3>1. CASE m = n + 1
      <4>1. h[n] = g[n] /\ m - 1 = n /\ m # 0
        BY <2>2, <3>1
      <4> QED
        BY <2>2, <3>1, <4>1
    <3>2. CASE m # n + 1
      <4>1. m \in 0..n /\ h[m] = g[m]
        BY <2>2, <3>2
      <4>2. CASE m = 0
        BY <2>1, <4>1, <4>2 DEF Recursion
      <4>3. CASE m # 0
        <5>1. m - 1 \in 0..(n + 1) /\ m - 1 # n + 1
          BY <4>1, <4>3
        <5>2. h[m - 1] = g[m - 1]
          BY <2>2, <5>1
        <5> QED
          BY <2>1, <4>1, <4>3, <5>2 DEF Recursion
      <4> QED
        BY <4>2, <4>3
    <3> QED
      BY <3>1, <3>2
  <2>4. Recursion(calls, n + 1, h)
    BY <2>2, <2>3, Zenon DEF Recursion
  <2> QED
    BY <2>4
<1> HIDE DEF T
<1>3. Nat \subseteq T
  BY <1>1, <1>2, NumberInduction
<1> QED
  BY <1>3 DEF T

LEMMA SequencedSolves ==
    ASSUME NEW calls, Len(calls) \in Nat
    PROVE  Recursion(calls, Len(calls), Sequenced(calls))
<1>1. \E g : Recursion(calls, Len(calls), g)
  BY RecursionSolved
<1> QED
  BY <1>1, Zenon DEF Recursion, Sequenced

-----------------------------------------------------------------------------
(* The calls of encode_i2c_request. *)

\* x is a followed by b.
Joined(x, a, b) ==
    /\ Len(x) = Len(a) + Len(b)
    /\ \A n \in 1..Len(a) : x[n] = a[n]
    /\ \A n \in (Len(a) + 1)..(Len(a) + Len(b)) : x[n] = b[n - Len(a)]

LEMMA Concatenated ==
    ASSUME NEW S, NEW a \in Seq(S), NEW b \in Seq(S)
    PROVE  a \o b \in Seq(S) /\ Joined(a \o b, a, b)
BY DEF Joined

CallTable(t, w, r) ==
    /\ Len(Encoded(t, w, r)) = Calls(w, r)
    /\ CallAt(t, w, r, 1) = Call("WR", "control", 0, Zero)
    /\ \A n \in 2..(w + 1) : CallAt(t, w, r, n) = Call("WR", "data", n - 1, Val("word", t, n - 1))
    /\ CallAt(t, w, r, w + 2) = Call("WR", "num_bytes", 0, Val("bytes", w, r))
    /\ CallAt(t, w, r, w + 3) = Call("WR", "bus_en", 0, Val("bus", 0, 0))
    /\ CallAt(t, w, r, w + 4) = Call("WR", "control", 0, Val("start", t, 0))
    /\ CallAt(t, w, r, w + 5) = Call("POLL", "status", 0, Status({"DONE"}))
    /\ CallAt(t, w, r, w + 6) = Call("RD", "status", 0, Zero)
    /\ \A n \in (w + 7)..(w + 6 + r) :
          CallAt(t, w, r, n) = Call("RD", "data", n - (w + 6), NoValue)
    /\ CallAt(t, w, r, w + r + 7) = Call("WR", "control", 0, Zero)

LEMMA EncodedCalls == ASSUME NEW t, NEW w \in Nat, NEW r \in Nat PROVE CallTable(t, w, r)
<1>a. PICK A, B, C, D, E :
        /\ A = <<Call("WR", "control", 0, Zero)>> /\ B = Words(t, w) /\ C = StartAndWait(t, w, r)
        /\ D = <<Call("RD", "status", 0, Zero)>>
        /\ E = [i \in 1..r |-> Call("RD", "data", i, NoValue)]
  BY Zenon
<1>0. PICK S : S = {A[1]} \cup {B[i] : i \in 1..w} \cup {C[1], C[2], C[3], C[4], D[1]}
                   \cup {E[i] : i \in 1..r}
  BY Zenon
<1>0a. A \in Seq(S) /\ B \in Seq(S) /\ C \in Seq(S) /\ D \in Seq(S) /\ E \in Seq(S)
  <2>1. A \in Seq(S) /\ D \in Seq(S)
    BY <1>0, <1>a
  <2>2. B \in Seq(S)
    BY <1>0, <1>a DEF Words
  <2>3. C \in Seq(S)
    <3>1. C = <<C[1], C[2], C[3], C[4]>>
      BY <1>a DEF StartAndWait
    <3>2. C[1] \in S /\ C[2] \in S /\ C[3] \in S /\ C[4] \in S
      BY <1>0
    <3>3. ASSUME NEW a \in S, NEW b \in S, NEW c \in S, NEW d \in S PROVE <<a, b, c, d>> \in Seq(S)
      OBVIOUS
    <3> QED
      BY <3>1, <3>2, <3>3, Zenon
  <2>4. E \in Seq(S)
    BY <1>0, <1>a
  <2> QED
    BY <2>1, <2>2, <2>3, <2>4
<1>1. Len(A) = 1 /\ A[1] = Call("WR", "control", 0, Zero)
  BY <1>0, <1>a
<1>2. Len(B) = w /\ \A i \in 1..w : B[i] = Call("WR", "data", i, Val("word", t, i))
  BY <1>0, <1>a DEF Words
<1>3. /\ Len(C) = 4 /\ C[1] = Call("WR", "num_bytes", 0, Val("bytes", w, r))
      /\ C[2] = Call("WR", "bus_en", 0, Val("bus", 0, 0))
      /\ C[3] = Call("WR", "control", 0, Val("start", t, 0))
      /\ C[4] = Call("POLL", "status", 0, Status({"DONE"}))
  BY <1>0, <1>a DEF StartAndWait
<1>4. Len(D) = 1 /\ D[1] = Call("RD", "status", 0, Zero)
  BY <1>0, <1>a
<1>5. Len(E) = r /\ \A i \in 1..r : E[i] = Call("RD", "data", i, NoValue)
  BY <1>0, <1>a
<1>6. Encoded(t, w, r) = A \o B \o C \o D \o E \o A
  BY <1>a DEF Encoded
<1>7. PICK x, y, z, u, v :
          /\ x \in Seq(S) /\ y \in Seq(S) /\ z \in Seq(S) /\ u \in Seq(S) /\ v \in Seq(S)
          /\ Joined(x, A, B) /\ Joined(y, x, C) /\ Joined(z, y, D) /\ Joined(u, z, E)
          /\ Joined(v, u, A) /\ v = Encoded(t, w, r)
  <2>1. A \o B \in Seq(S) /\ Joined(A \o B, A, B)
    BY <1>0a, Concatenated
  <2>2. A \o B \o C \in Seq(S) /\ Joined(A \o B \o C, A \o B, C)
    BY <1>0a, <2>1, Concatenated, Zenon
  <2>3. A \o B \o C \o D \in Seq(S) /\ Joined(A \o B \o C \o D, A \o B \o C, D)
    BY <1>0a, <2>2, Concatenated, Zenon
  <2>4. A \o B \o C \o D \o E \in Seq(S) /\ Joined(A \o B \o C \o D \o E, A \o B \o C \o D, E)
    BY <1>0a, <2>3, Concatenated, Zenon
  <2>5. /\ A \o B \o C \o D \o E \o A \in Seq(S)
        /\ Joined(A \o B \o C \o D \o E \o A, A \o B \o C \o D \o E, A)
    BY <1>0a, <2>4, Concatenated, Zenon
  <2> QED
    BY <1>6, <2>1, <2>2, <2>3, <2>4, <2>5, Zenon
<1>8. Len(x) = w + 1 /\ x[1] = A[1] /\ \A n \in 2..(w + 1) : x[n] = B[n - 1]
  BY <1>1, <1>2, <1>7 DEF Joined
<1>10. /\ Len(y) = w + 5 /\ (\A n \in 1..(w + 1) : y[n] = x[n])
       /\ y[w + 2] = C[1] /\ y[w + 3] = C[2] /\ y[w + 4] = C[3] /\ y[w + 5] = C[4]
  <2>1. /\ Len(y) = w + 5 /\ (\A n \in 1..(w + 1) : y[n] = x[n])
        /\ \A n \in (w + 2)..(w + 5) : y[n] = C[n - (w + 1)]
    BY <1>3, <1>8, <1>7, SMTT(30) DEF Joined
  <2>2. \A k \in 1..4 : y[w + 1 + k] = C[k]
    <3> TAKE k \in 1..4
    <3>1. w + 1 + k \in (w + 2)..(w + 5) /\ (w + 1 + k) - (w + 1) = k
      OBVIOUS
    <3> QED
      BY <2>1, <3>1
  <2>3. y[w + 1 + 1] = C[1] /\ y[w + 1 + 2] = C[2] /\ y[w + 1 + 3] = C[3] /\ y[w + 1 + 4] = C[4]
    BY <2>2
  <2> QED
    BY <2>1, <2>3
<1>12. Len(z) = w + 6 /\ z[w + 6] = D[1] /\ \A n \in 1..(w + 5) : z[n] = y[n]
  BY <1>4, <1>10, <1>7, SMTT(30) DEF Joined
<1>14. /\ Len(u) = w + 6 + r /\ (\A n \in 1..(w + 6) : u[n] = z[n])
       /\ \A n \in (w + 7)..(w + 6 + r) : u[n] = E[n - (w + 6)]
  <2>1. Joined(u, z, E) /\ (w + 6) + 1 = w + 7
    BY <1>7
  <2> QED
    BY <1>5, <1>12, <2>1, Zenon DEF Joined
<1>16. Len(v) = w + r + 7 /\ v[w + r + 7] = A[1] /\ \A n \in 1..(w + 6 + r) : v[n] = u[n]
  <2>1. Joined(v, u, A) /\ (w + 6 + r) + 1 = w + r + 7 /\ (w + r + 7) - (w + 6 + r) = 1
    BY <1>7
  <2>2. Len(v) = w + r + 7 /\ \A n \in 1..(w + 6 + r) : v[n] = u[n]
    BY <1>1, <1>14, <2>1 DEF Joined
  <2>3. v[w + r + 7] = A[(w + r + 7) - (w + 6 + r)]
    BY <1>1, <1>14, <2>1 DEF Joined
  <2> QED
    BY <2>1, <2>2, <2>3
<1>17. CallAt(t, w, r, 1) = Call("WR", "control", 0, Zero)
  BY <1>1, <1>7, <1>8, <1>10, <1>12, <1>14, <1>16, SMTT(30) DEF CallAt
<1>18. ASSUME NEW n \in 2..(w + 1)
       PROVE  CallAt(t, w, r, n) = Call("WR", "data", n - 1, Val("word", t, n - 1))
  <2>1. v[n] = B[n - 1]
    BY <1>8, <1>10, <1>12, <1>14, <1>16
  <2> QED
    BY <1>2, <1>7, <2>1 DEF CallAt
<1>19. /\ v[w + 2] = C[1] /\ v[w + 3] = C[2] /\ v[w + 4] = C[3] /\ v[w + 5] = C[4]
       /\ v[w + 6] = D[1]
  BY <1>10, <1>12, <1>14, <1>16
<1>20. ASSUME NEW n \in (w + 7)..(w + 6 + r)
       PROVE  CallAt(t, w, r, n) = Call("RD", "data", n - (w + 6), NoValue)
  <2>1. v[n] = E[n - (w + 6)]
    BY <1>14, <1>16
  <2> QED
    BY <1>5, <1>7, <2>1 DEF CallAt
<1> QED
  BY <1>1, <1>3, <1>4, <1>7, <1>16, <1>17, <1>18, <1>19, <1>20 DEF CallTable, Calls, CallAt

-----------------------------------------------------------------------------
(* The sequencer's operations. *)

LEMMA CellKinds ==
    ASSUME NEW x \in Cells
    PROVE  /\ x.c \in {"command", "register", "data", "end"}
           /\ x.c = "command" => x = CommandWord(x.ops) /\ x.ops \in Seq(OpNames)
           /\ x.c = "register" =>
                 x = Register(x.r, x.i) /\ x.r \in RegisterNames /\ x.i \in 0..MaxWords
           /\ x.c = "data" => x = Data(x.v) /\ x.v \in Values
           /\ x.c = "end" => x = EndMark
<1>1. ASSUME NEW o \in Seq(OpNames), x = CommandWord(o)
      PROVE  x.c = "command" /\ x = CommandWord(x.ops) /\ x.ops \in Seq(OpNames)
  BY <1>1 DEF CommandWord
<1>2. ASSUME NEW r \in RegisterNames, NEW i \in 0..MaxWords, x = Register(r, i)
      PROVE  /\ x.c = "register" /\ x = Register(x.r, x.i) /\ x.r \in RegisterNames
             /\ x.i \in 0..MaxWords
  BY <1>2 DEF Register
<1>3. ASSUME NEW v \in Values, x = Data(v)
      PROVE  x.c = "data" /\ x = Data(x.v) /\ x.v \in Values
  BY <1>3 DEF Data
<1>4. ASSUME x = EndMark PROVE x.c = "end"
  BY <1>4 DEF EndMark
<1>5. \/ \E o \in Seq(OpNames) : x = CommandWord(o)
      \/ \E r \in RegisterNames, i \in 0..MaxWords : x = Register(r, i)
      \/ \E v \in Values : x = Data(v)
      \/ x = EndMark
  BY DEF Cells
<1>6. CASE \E o \in Seq(OpNames) : x = CommandWord(o)
  BY <1>1, <1>6
<1>7. CASE \E r \in RegisterNames, i \in 0..MaxWords : x = Register(r, i)
  BY <1>2, <1>7
<1>8. CASE \E v \in Values : x = Data(v)
  BY <1>3, <1>8
<1>9. CASE x = EndMark
  BY <1>4, <1>9
<1> QED
  BY <1>5, <1>6, <1>7, <1>8, <1>9

LEMMA CellsMade ==
    /\ \A o \in Seq(OpNames) :
          CommandWord(o) \in Cells /\ CommandWord(o).c = "command" /\ CommandWord(o).ops = o
    /\ \A r \in RegisterNames, i \in 0..MaxWords :
          /\ Register(r, i) \in Cells /\ Register(r, i).c = "register"
          /\ Register(r, i).r = r /\ Register(r, i).i = i
    /\ \A v \in Values : Data(v) \in Cells /\ Data(v).c = "data" /\ Data(v).v = v
    /\ EndMark \in Cells /\ EndMark.c = "end"
<1>1. ASSUME NEW o \in Seq(OpNames)
      PROVE  CommandWord(o) \in Cells /\ CommandWord(o).c = "command" /\ CommandWord(o).ops = o
  <2>1. CommandWord(o) \in Cells
    BY DEF Cells
  <2> QED
    BY <2>1 DEF CommandWord
<1>2. ASSUME NEW r \in RegisterNames, NEW i \in 0..MaxWords
      PROVE  /\ Register(r, i) \in Cells /\ Register(r, i).c = "register"
             /\ Register(r, i).r = r /\ Register(r, i).i = i
  <2>1. Register(r, i) \in Cells
    BY DEF Cells
  <2> QED
    BY <2>1 DEF Register
<1>3. ASSUME NEW v \in Values
      PROVE  Data(v) \in Cells /\ Data(v).c = "data" /\ Data(v).v = v
  <2>1. Data(v) \in Cells
    BY DEF Cells
  <2> QED
    BY <2>1 DEF Data
<1>4. EndMark \in Cells /\ EndMark.c = "end"
  <2>1. EndMark \in Cells
    BY DEF Cells
  <2> QED
    BY <2>1 DEF EndMark
<1> QED
  BY <1>1, <1>2, <1>3, <1>4, Zenon

\* A sequencer counts the commands in the command word it fills.
SeqrOK(s) ==
    /\ s \in [buffer : Seq(Cells), index : Nat, bit : 0..CommandsPerWord]
    /\ s.index \in 1..Len(s.buffer) /\ s.buffer[s.index].c = "command"
    /\ Len(s.buffer[s.index].ops) = s.bit

\* Cells that were written stay, but for commands added to a command word.
Grows(a, b) ==
    /\ Len(a) <= Len(b)
    /\ \A i \in 1..Len(a) :
          /\ b[i].c = a[i].c
          /\ a[i].c # "command" => b[i] = a[i]
          /\ a[i].c = "command" =>
                /\ Len(a[i].ops) <= Len(b[i].ops)
                /\ \A k \in 1..Len(a[i].ops) : b[i].ops[k] = a[i].ops[k]

LEMMA GrowsOn ==
    ASSUME NEW a \in Seq(Cells), NEW b \in Seq(Cells), NEW c \in Seq(Cells), Grows(a, b), Grows(b, c)
    PROVE  Grows(a, c)
<1>1. Len(a) <= Len(c)
  BY DEF Grows
<1>2. ASSUME NEW i \in 1..Len(a)
      PROVE  /\ c[i].c = a[i].c
             /\ a[i].c # "command" => c[i] = a[i]
             /\ a[i].c = "command" =>
                   /\ Len(a[i].ops) <= Len(c[i].ops)
                   /\ \A k \in 1..Len(a[i].ops) : c[i].ops[k] = a[i].ops[k]
  <2>1. i \in 1..Len(b) /\ i \in 1..Len(c)
    BY DEF Grows
  <2>2. c[i].c = a[i].c /\ (a[i].c # "command" => c[i] = a[i])
    BY <2>1 DEF Grows
  <2>3. ASSUME a[i].c = "command"
        PROVE  /\ Len(a[i].ops) <= Len(c[i].ops)
               /\ \A k \in 1..Len(a[i].ops) : c[i].ops[k] = a[i].ops[k]
    <3>1. a[i] \in Cells /\ b[i] \in Cells /\ c[i] \in Cells /\ b[i].c = "command"
          /\ c[i].c = "command"
      BY <2>1, <2>2, <2>3 DEF Grows
    <3>2. Len(a[i].ops) \in Nat /\ Len(b[i].ops) \in Nat /\ Len(c[i].ops) \in Nat
      BY <2>3, <3>1, CellKinds, SMTT(30)
    <3> QED
      BY <2>1, <2>3, <3>1, <3>2 DEF Grows
  <2> QED
    BY <2>2, <2>3, Zenon
<1> QED
  BY <1>1, <1>2 DEF Grows

LEMMA GrowsSelf == ASSUME NEW a \in Seq(Cells) PROVE Grows(a, a)
<1>1. ASSUME NEW i \in 1..Len(a), a[i].c = "command" PROVE Len(a[i].ops) <= Len(a[i].ops)
  BY <1>1, CellKinds
<1> QED
  BY <1>1 DEF Grows

LEMMA Appended ==
    ASSUME NEW s, SeqrOK(s), NEW x \in Cells, NEW s2, s2 = append(s, x)
    PROVE  /\ SeqrOK(s2) /\ Grows(s.buffer, s2.buffer)
           /\ Len(s2.buffer) = Len(s.buffer) + 1 /\ s2.buffer[Len(s.buffer) + 1] = x
           /\ s2.index = s.index /\ s2.bit = s.bit /\ s2.buffer[s.index] = s.buffer[s.index]
<1>1. /\ s2 = [buffer |-> Append(s.buffer, x), index |-> s.index, bit |-> s.bit]
      /\ s.buffer \in Seq(Cells)
  BY Zenon DEF append, SeqrOK
<1>2. PICK b : b = s.buffer
  OBVIOUS
<1>3. PICK d : d = Append(b, x)
  BY Zenon
<1>4. /\ d \in Seq(Cells) /\ Len(d) = Len(b) + 1 /\ d[Len(b) + 1] = x
      /\ \A i \in 1..Len(b) : d[i] = b[i]
  BY <1>1, <1>2, <1>3
<1>5. Grows(b, d)
  <2>1. Grows(b, b)
    BY <1>1, <1>2, GrowsSelf
  <2> QED
    BY <1>1, <1>2, <1>4, <2>1 DEF Grows
<1>6. s2.buffer = d /\ s2.index = s.index /\ s2.bit = s.bit
  BY <1>1, <1>2, <1>3
<1>7. s.index \in 1..Len(b) /\ d[s.index] = b[s.index]
  BY <1>2, <1>4 DEF SeqrOK
<1>8. s2 \in [buffer : Seq(Cells), index : Nat, bit : 0..CommandsPerWord]
  BY <1>1, <1>2, <1>3, <1>4 DEF SeqrOK
<1>9. s2.index \in 1..Len(d)
  BY <1>1, <1>2, <1>4, <1>6, <1>7
<1> QED
  BY <1>2, <1>4, <1>5, <1>6, <1>7, <1>8, <1>9 DEF SeqrOK

LEMMA CommandAdded ==
    ASSUME NEW s, SeqrOK(s), NEW op \in OpNames, NEW s2, s2 = add_command(s, op)
    PROVE  /\ SeqrOK(s2) /\ Grows(s.buffer, s2.buffer)
           /\ s.bit = CommandsPerWord =>
                 /\ Len(s2.buffer) = Len(s.buffer) + 1 /\ s2.index = Len(s.buffer) + 1
                 /\ s2.bit = 1
           /\ s.bit # CommandsPerWord =>
                 Len(s2.buffer) = Len(s.buffer) /\ s2.index = s.index /\ s2.bit = s.bit + 1
           /\ s2.buffer[s2.index].ops[s2.bit] = op
<1>0. CommandsPerWord \in Nat \ {0}
  BY I2cAssumption
<1>1. PICK b : b = s.buffer
  OBVIOUS
<1>2. b \in Seq(Cells) /\ s.index \in 1..Len(b) /\ s.bit \in 0..CommandsPerWord
  BY <1>1 DEF SeqrOK
<1>3. CASE s.bit = CommandsPerWord
  <2>1. PICK x : x = CommandWord(<<op>>)
    OBVIOUS
  <2>2. x \in Cells /\ x.c = "command" /\ x.ops = <<op>>
    <3>1. <<op>> \in Seq(OpNames)
      OBVIOUS
    <3> QED
      BY <2>1, <3>1, CellsMade, Zenon
  <2>3. PICK d : d = Append(b, x)
    BY Zenon
  <2>4. /\ d \in Seq(Cells) /\ Len(d) = Len(b) + 1 /\ d[Len(b) + 1] = x
        /\ \A i \in 1..Len(b) : d[i] = b[i]
    BY <1>2, <2>2, <2>3
  <2>5. Grows(b, d)
    <3>1. Grows(b, b)
      BY <1>2, GrowsSelf
    <3> QED
      BY <1>2, <2>4, <3>1 DEF Grows
  <2>6. s2 = [buffer |-> d, index |-> Len(b) + 1, bit |-> 1]
    BY <1>1, <1>3, <2>1, <2>3 DEF add_command
  <2>7. SeqrOK(s2)
    <3>1. s2.buffer = d /\ s2.index = Len(b) + 1 /\ s2.bit = 1 /\ Len(b) \in Nat
      BY <1>2, <2>6
    <3>2. s2 \in [buffer : Seq(Cells), index : Nat, bit : 0..CommandsPerWord]
      BY <1>0, <2>4, <2>6, <3>1
    <3>3. s2.index \in 1..Len(s2.buffer)
      BY <2>4, <3>1
    <3>4. s2.buffer[s2.index] = x
      BY <2>4, <3>1
    <3>5. Len(x.ops) = 1
      BY <2>2
    <3> QED
      BY <2>2, <3>1, <3>2, <3>3, <3>4, <3>5, Zenon DEF SeqrOK
  <2> QED
    BY <1>1, <1>3, <2>2, <2>4, <2>5, <2>6, <2>7
<1>4. CASE s.bit # CommandsPerWord
  <2>1. PICK j, o : j = s.index /\ o = b[j].ops
    OBVIOUS
  <2>2. b[j] \in Cells /\ b[j] = CommandWord(o) /\ o \in Seq(OpNames) /\ Len(o) = s.bit
    BY <1>1, <1>2, <2>1, CellKinds DEF SeqrOK
  <2>3. PICK x, d : x = CommandWord(Append(o, op)) /\ d = [b EXCEPT ![j] = x]
    BY Zenon
  <2>4. /\ Append(o, op) \in Seq(OpNames) /\ Len(Append(o, op)) = s.bit + 1
        /\ Append(o, op)[s.bit + 1] = op /\ \A k \in 1..s.bit : Append(o, op)[k] = o[k]
    BY <2>2
  <2>5. x \in Cells /\ x.c = "command" /\ x.ops = Append(o, op)
    BY <2>3, <2>4, CellsMade, Zenon
  <2>6. d \in Seq(Cells) /\ Len(d) = Len(b) /\ d[j] = x /\ \A i \in 1..Len(b) : i # j => d[i] = b[i]
    BY <1>2, <2>1, <2>3, <2>5
  <2>7. s2 = [buffer |-> d, index |-> j, bit |-> s.bit + 1]
    <3>1. [b[j] EXCEPT !.ops = Append(@, op)] = x
      <4>1. b[j] = [c |-> "command", ops |-> o] /\ x = [c |-> "command", ops |-> Append(o, op)]
        BY <2>2, <2>3 DEF CommandWord
      <4>2. [[c |-> "command", ops |-> o] EXCEPT !.ops = Append(@, op)]
               = [c |-> "command", ops |-> Append(o, op)]
        OBVIOUS
      <4> QED
        BY <4>1, <4>2, Zenon
    <3>2. s2 = [s EXCEPT !.buffer[s.index].ops = Append(@, op), !.bit = @ + 1]
      BY <1>4 DEF add_command
    <3>3. s2 = [s EXCEPT !.buffer = [b EXCEPT ![j] = [b[j] EXCEPT !.ops = Append(@, op)]],
                         !.bit = @ + 1]
      BY <1>1, <2>1, <3>2 DEF SeqrOK
    <3>4. s2 = [s EXCEPT !.buffer = d, !.bit = @ + 1]
      BY <2>3, <3>1, <3>3, Zenon
    <3>5. s \in [buffer : Seq(Cells), index : Nat, bit : 0..CommandsPerWord]
      BY DEF SeqrOK
    <3> QED
      BY <2>1, <3>4, <3>5, Zenon
  <2>8. Grows(b, d)
    <3>1. Grows(b, b)
      BY <1>2, GrowsSelf
    <3>2. /\ d[j].c = b[j].c /\ b[j].c = "command" /\ b[j].ops = o
          /\ Len(o) <= Len(d[j].ops) /\ \A k \in 1..Len(o) : d[j].ops[k] = o[k]
      <4>1. b[j].c = "command" /\ b[j].ops = o
        BY <2>2, CellsMade
      <4>2. d[j].c = "command" /\ d[j].ops = Append(o, op)
        BY <2>5, <2>6
      <4>3. s.bit <= s.bit + 1
        BY <1>2
      <4> QED
        BY <2>2, <2>4, <4>1, <4>2, <4>3
    <3> QED
      BY <1>2, <2>1, <2>6, <3>1, <3>2, Zenon DEF Grows
  <2>9. SeqrOK(s2)
    BY <1>0, <1>2, <1>4, <2>1, <2>4, <2>5, <2>6, <2>7 DEF SeqrOK
  <2> QED
    BY <1>1, <1>2, <1>4, <2>1, <2>4, <2>5, <2>6, <2>7, <2>8, <2>9
<1> QED
  BY <1>3, <1>4

\* Where Emit puts the register of the next call.
RegisterAt(s) == IF s.bit = CommandsPerWord THEN Len(s.buffer) + 2 ELSE Len(s.buffer) + 1

Operands(op) == IF op = "POLL" THEN 2 ELSE 1

LEMMA Emitted ==
    ASSUME NEW s, SeqrOK(s), NEW op \in OpNames, NEW r \in RegisterNames, NEW i \in 0..MaxWords,
           NEW v \in Values, NEW s2, s2 = Emit(s, Call(op, r, i, v))
    PROVE  /\ SeqrOK(s2) /\ Grows(s.buffer, s2.buffer)
           /\ s.bit = CommandsPerWord => s2.index = Len(s.buffer) + 1 /\ s2.bit = 1
           /\ s.bit # CommandsPerWord => s2.index = s.index /\ s2.bit = s.bit + 1
           /\ s2.buffer[s2.index].ops[s2.bit] = op
           /\ Len(s2.buffer) = RegisterAt(s) + Operands(op)
           /\ s2.buffer[RegisterAt(s)] = Register(r, i)
           /\ s2.buffer[RegisterAt(s) + 1] = Data(v)
           /\ op = "POLL" => s2.buffer[RegisterAt(s) + 2] = Data(v)
<1>1. PICK x, y, z : x = Register(r, i) /\ y = Data(v) /\ z = RegisterAt(s)
  OBVIOUS
<1>2. x \in Cells /\ y \in Cells /\ x.c # "command" /\ y.c # "command"
  BY <1>1, CellsMade
<1>3. PICK a, b, d, e : a = add_command(s, op) /\ b = append(a, x) /\ d = append(b, y)
                        /\ e = append(d, y)
  OBVIOUS
<1>4. s2 = IF op = "POLL" THEN e ELSE d
  <2>1. Call(op, r, i, v).op = op /\ Call(op, r, i, v).r = r /\ Call(op, r, i, v).i = i
        /\ Call(op, r, i, v).v = v
    BY DEF Call
  <2> QED
    BY <1>1, <1>3, <2>1, Zenon DEF Emit
<1>5. /\ SeqrOK(a) /\ Grows(s.buffer, a.buffer) /\ Len(a.buffer) + 1 = z
      /\ s.bit = CommandsPerWord => a.index = Len(s.buffer) + 1 /\ a.bit = 1
      /\ s.bit # CommandsPerWord => a.index = s.index /\ a.bit = s.bit + 1
      /\ a.buffer[a.index].ops[a.bit] = op
      /\ Len(s.buffer) \in Nat
  <2>1. Len(s.buffer) \in Nat
    BY DEF SeqrOK
  <2> QED
    BY <1>1, <1>3, <2>1, CommandAdded, SMTT(30) DEF RegisterAt
<1>5a. Len(a.buffer) \in Nat /\ a.index \in 1..Len(a.buffer) /\ z \in Nat
  BY <1>5 DEF SeqrOK
<1>6. /\ SeqrOK(b) /\ Grows(a.buffer, b.buffer) /\ Len(b.buffer) = z /\ b.buffer[z] = x
      /\ b.index = a.index /\ b.bit = a.bit /\ b.buffer[a.index] = a.buffer[a.index]
  BY <1>2, <1>3, <1>5, Appended
<1>7. /\ SeqrOK(d) /\ Grows(b.buffer, d.buffer) /\ Len(d.buffer) = z + 1 /\ d.buffer[z + 1] = y
      /\ d.index = a.index /\ d.bit = a.bit /\ d.buffer[a.index] = a.buffer[a.index]
  BY <1>2, <1>3, <1>6, Appended, SMTT(30)
<1>8. /\ SeqrOK(e) /\ Grows(d.buffer, e.buffer) /\ Len(e.buffer) = z + 2 /\ e.buffer[z + 2] = y
      /\ e.index = a.index /\ e.bit = a.bit /\ e.buffer[a.index] = a.buffer[a.index]
  <2>1. (z + 1) + 1 = z + 2
    BY <1>5a
  <2> QED
    BY <1>2, <1>3, <1>7, <2>1, Appended, SMTT(30)
<1>9. d.buffer[z] = x
  BY <1>2, <1>5a, <1>6, <1>7 DEF Grows
<1>10. e.buffer[z] = x /\ e.buffer[z + 1] = y
  <2>1. z \in 1..Len(d.buffer) /\ z + 1 \in 1..Len(d.buffer)
    BY <1>5, <1>5a, <1>7
  <2>2. e.buffer[z] = d.buffer[z]
    BY <1>2, <1>8, <1>9, <2>1, Zenon DEF Grows
  <2>3. e.buffer[z + 1] = d.buffer[z + 1]
    BY <1>2, <1>7, <1>8, <2>1 DEF Grows
  <2> QED
    BY <1>7, <1>9, <2>2, <2>3
<1>11. /\ s.buffer \in Seq(Cells) /\ a.buffer \in Seq(Cells) /\ b.buffer \in Seq(Cells)
       /\ d.buffer \in Seq(Cells) /\ e.buffer \in Seq(Cells)
  BY <1>5, <1>6, <1>7, <1>8 DEF SeqrOK
<1>12. Grows(s.buffer, d.buffer)
  BY <1>5, <1>6, <1>7, <1>11, GrowsOn, Zenon
<1>13. Grows(s.buffer, e.buffer)
  BY <1>8, <1>11, <1>12, GrowsOn
<1>14. CASE op = "POLL"
  BY <1>1, <1>4, <1>5, <1>8, <1>10, <1>13, <1>14, Zenon DEF Operands
<1>15. CASE op # "POLL"
  BY <1>1, <1>4, <1>5, <1>7, <1>9, <1>12, <1>15, Zenon DEF Operands
<1> QED
  BY <1>14, <1>15

LEMMA EndMarked ==
    ASSUME NEW s, SeqrOK(s), NEW s2, s2 = done(s)
    PROVE  /\ SeqrOK(s2) /\ Grows(s.buffer, s2.buffer)
           /\ s.bit = CommandsPerWord => s2.buffer[Len(s.buffer) + 1].c = "command"
           /\ Len(s2.buffer) = RegisterAt(s) /\ s2.buffer[RegisterAt(s)] = EndMark
<1>1. PICK a : a = add_command(s, "RD")
  OBVIOUS
<1>2. s2 = append(a, EndMark)
  BY <1>1 DEF done
<1>3. /\ SeqrOK(a) /\ Grows(s.buffer, a.buffer) /\ Len(a.buffer) + 1 = RegisterAt(s)
      /\ s.bit = CommandsPerWord => a.index = Len(s.buffer) + 1
  <2>1. Len(s.buffer) \in Nat /\ "RD" \in OpNames
    BY DEF SeqrOK, OpNames
  <2> QED
    BY <1>1, <2>1, CommandAdded DEF RegisterAt
<1>4. /\ SeqrOK(s2) /\ Grows(a.buffer, s2.buffer) /\ Len(s2.buffer) = RegisterAt(s)
      /\ s2.buffer[RegisterAt(s)] = EndMark /\ s2.buffer[a.index] = a.buffer[a.index]
  BY <1>2, <1>3, CellsMade, Appended
<1>5. Grows(s.buffer, s2.buffer)
  <2>1. s.buffer \in Seq(Cells) /\ a.buffer \in Seq(Cells) /\ s2.buffer \in Seq(Cells)
    BY <1>3, <1>4 DEF SeqrOK
  <2> QED
    BY <1>3, <1>4, <2>1, GrowsOn
<1>6. a.buffer[a.index].c = "command"
  BY <1>3 DEF SeqrOK
<1> QED
  BY <1>3, <1>4, <1>5, <1>6, Zenon

LEMMA CallTypes ==
    ASSUME NEW t \in Txs, NEW w \in 0..MaxWords, NEW r \in 0..MaxWords, NEW n \in 1..Calls(w, r)
    PROVE  \E op \in OpNames, target \in RegisterNames, i \in 0..MaxWords, v \in Values :
              CallAt(t, w, r, n) = Call(op, target, i, v)
<1>0. w \in Nat /\ r \in Nat /\ t \in Nat /\ 0 \in 0..MaxWords /\ MaxWords \in Nat
  BY DEF MaxWords, Txs
<1>0a. CallTable(t, w, r)
  BY <1>0, EncodedCalls
<1>1. /\ Zero \in Values /\ NoValue \in Values /\ Val("bytes", w, r) \in Values
      /\ Val("bus", 0, 0) \in Values /\ Val("start", t, 0) \in Values
  BY <1>0 DEF Values, Word32, Val, Zero, NoValue
<1>2. \A i \in 0..MaxWords : Val("word", t, i) \in Values
  BY <1>0 DEF Values, Word32, Val
<1>3. Status({"DONE"}) \in Values
  BY <1>0 DEF Values, Word32, Status, Flags
<1>4. {"WR", "RD", "POLL"} = OpNames
  BY DEF OpNames
<1>5. {"control", "data", "num_bytes", "bus_en", "status"} = RegisterNames
  BY DEF RegisterNames
<1> DEFINE P(c) == \E op \in OpNames, target \in RegisterNames, i \in 0..MaxWords, v \in Values :
                      c = Call(op, target, i, v)
<1>5b. ASSUME NEW op \in OpNames, NEW target \in RegisterNames, NEW i \in 0..MaxWords, NEW v \in Values
       PROVE  P(Call(op, target, i, v))
  BY Zenon
<1>5c. /\ "WR" \in OpNames /\ "RD" \in OpNames /\ "POLL" \in OpNames
       /\ "control" \in RegisterNames /\ "data" \in RegisterNames /\ "num_bytes" \in RegisterNames
       /\ "bus_en" \in RegisterNames /\ "status" \in RegisterNames
  BY <1>4, <1>5
<1> HIDE DEF P
<1>6. P(CallAt(t, w, r, 1))
  <2>1. CallAt(t, w, r, 1) = Call("WR", "control", 0, Zero)
    BY <1>0a DEF CallTable
  <2> QED
    BY <1>0, <1>1, <1>5b, <1>5c, <2>1, Zenon
<1>7. ASSUME NEW m \in 2..(w + 1) PROVE P(CallAt(t, w, r, m))
  <2>1. m - 1 \in 0..MaxWords
    BY <1>0
  <2>2. CallAt(t, w, r, m) = Call("WR", "data", m - 1, Val("word", t, m - 1))
    BY <1>0a DEF CallTable
  <2> QED
    BY <1>2, <1>5b, <1>5c, <2>1, <2>2, Zenon
<1>8. /\ P(CallAt(t, w, r, w + 2)) /\ P(CallAt(t, w, r, w + 3)) /\ P(CallAt(t, w, r, w + 4))
      /\ P(CallAt(t, w, r, w + 5)) /\ P(CallAt(t, w, r, w + 6))
      /\ P(CallAt(t, w, r, w + r + 7))
  <2>1. /\ CallAt(t, w, r, w + 2) = Call("WR", "num_bytes", 0, Val("bytes", w, r))
        /\ CallAt(t, w, r, w + 3) = Call("WR", "bus_en", 0, Val("bus", 0, 0))
        /\ CallAt(t, w, r, w + 4) = Call("WR", "control", 0, Val("start", t, 0))
        /\ CallAt(t, w, r, w + 5) = Call("POLL", "status", 0, Status({"DONE"}))
        /\ CallAt(t, w, r, w + 6) = Call("RD", "status", 0, Zero)
        /\ CallAt(t, w, r, w + r + 7) = Call("WR", "control", 0, Zero)
    BY <1>0a DEF CallTable
  <2> QED
    BY <1>0, <1>1, <1>3, <1>5b, <1>5c, <2>1, Zenon
<1>9. ASSUME NEW m \in (w + 7)..(w + 6 + r) PROVE P(CallAt(t, w, r, m))
  <2>1. m - (w + 6) \in 0..MaxWords
    BY <1>0
  <2>2. CallAt(t, w, r, m) = Call("RD", "data", m - (w + 6), NoValue)
    BY <1>0a DEF CallTable
  <2> QED
    BY <1>1, <1>5b, <1>5c, <2>1, <2>2, Zenon
<1>10. \/ n = 1 \/ n \in 2..(w + 1) \/ n = w + 2 \/ n = w + 3 \/ n = w + 4 \/ n = w + 5
       \/ n = w + 6 \/ n \in (w + 7)..(w + 6 + r) \/ n = w + r + 7
  BY <1>0 DEF Calls
<1>11. P(CallAt(t, w, r, n))
  BY <1>6, <1>7, <1>8, <1>9, <1>10
<1> QED
  BY <1>11 DEF P

-----------------------------------------------------------------------------
(* Where the calls are in the sequence. *)

Shaped(t, w, r) == t \in Txs /\ w \in 0..MaxWords /\ r \in 0..MaxWords /\ <<w, r>> \in Shapes

LEMMA SequencerStep ==
    ASSUME NEW t \in Txs, NEW w \in 0..MaxWords, NEW r \in 0..MaxWords
    PROVE  /\ Calls(w, r) \in Nat /\ Calls(w, r) >= 7
           /\ Seqr(t, w, r, 0) = NewSequencer
           /\ \A n \in 0..(Calls(w, r) - 1) :
                 Seqr(t, w, r, n + 1) = Emit(Seqr(t, w, r, n), CallAt(t, w, r, n + 1))
<1>0. w \in Nat /\ r \in Nat /\ Calls(w, r) \in Nat /\ Calls(w, r) >= 7
  BY DEF MaxWords, Calls
<1>1. Len(Encoded(t, w, r)) = Calls(w, r)
  BY <1>0, EncodedCalls, Zenon DEF CallTable
<1>2. Recursion(Encoded(t, w, r), Calls(w, r), Sequenced(Encoded(t, w, r)))
  BY <1>0, <1>1, SequencedSolves
<1>3. PICK g, c, k : g = Sequenced(Encoded(t, w, r)) /\ c = Encoded(t, w, r) /\ k = Calls(w, r)
  OBVIOUS
<1>4. k \in Nat /\ k >= 7 /\ g = [m \in 0..k |-> IF m = 0 THEN NewSequencer ELSE Emit(g[m - 1], c[m])]
  BY <1>0, <1>2, <1>3, Zenon DEF Recursion
<1>5. g[0] = NewSequencer
  BY <1>4
<1>6. ASSUME NEW n \in 0..(k - 1) PROVE g[n + 1] = Emit(g[n], c[n + 1])
  <2>1. n + 1 \in 0..k /\ n + 1 # 0 /\ (n + 1) - 1 = n
    BY <1>4
  <2>2. g[n + 1] = IF n + 1 = 0 THEN NewSequencer ELSE Emit(g[(n + 1) - 1], c[n + 1])
    BY <1>4, <2>1, Zenon
  <2> QED
    BY <2>1, <2>2
<1> QED
  BY <1>0, <1>3, <1>5, <1>6 DEF Seqr, CallAt

LEMMA SequencerGrows ==
    ASSUME NEW t \in Txs, NEW w \in 0..MaxWords, NEW r \in 0..MaxWords
    PROVE  /\ \A n \in 0..Calls(w, r) : SeqrOK(Seqr(t, w, r, n))
           /\ \A m, n \in 0..Calls(w, r) :
                 m <= n => Grows(Seqr(t, w, r, m).buffer, Seqr(t, w, r, n).buffer)
           /\ \A m, n \in 0..Calls(w, r) : m < n => Pos(t, w, r, m) < Pos(t, w, r, n)
<1>0. Calls(w, r) \in Nat
  BY SequencerStep
<1> DEFINE S(n) == Seqr(t, w, r, n)
           K == Calls(w, r)
<1>1. SeqrOK(S(0))
  <2>1. S(0) = NewSequencer
    BY SequencerStep
  <2>2. PICK x : x = CommandWord(<<>>)
    OBVIOUS
  <2>3. x \in Cells /\ x.c = "command" /\ x.ops = <<>> /\ Len(x.ops) = 0
    <3>1. <<>> \in Seq(OpNames) /\ Len(<<>>) = 0
      OBVIOUS
    <3> QED
      BY <2>2, <3>1, CellsMade, Zenon
  <2>4. PICK y : y = <<x>>
    BY Zenon
  <2>5. y \in Seq(Cells) /\ Len(y) = 1 /\ y[1] = x
    BY <2>3, <2>4
  <2>6. S(0) = [buffer |-> y, index |-> 1, bit |-> 0]
    BY <2>1, <2>2, <2>4 DEF NewSequencer
  <2>7. CommandsPerWord \in Nat
    BY I2cAssumption
  <2> QED
    <3>1. S(0).buffer = y /\ S(0).index = 1 /\ S(0).bit = 0
      BY <2>6
    <3>2. S(0) \in [buffer : Seq(Cells), index : Nat, bit : 0..CommandsPerWord]
      BY <2>5, <2>6, <2>7
    <3>3. S(0).index \in 1..Len(S(0).buffer)
      <4>1. 1 \in 1..Len(y)
        BY <2>5
      <4> QED
        BY <3>1, <4>1, Zenon
    <3>4. S(0).buffer[S(0).index] = x
      BY <2>5, <3>1
    <3> QED
      BY <2>3, <3>1, <3>2, <3>3, <3>4 DEF SeqrOK
<1>2. ASSUME NEW n \in 0..(K - 1), SeqrOK(S(n))
      PROVE  /\ SeqrOK(S(n + 1)) /\ Grows(S(n).buffer, S(n + 1).buffer)
             /\ Len(S(n).buffer) < Len(S(n + 1).buffer)
  <2>1. S(n + 1) = Emit(S(n), CallAt(t, w, r, n + 1))
    BY SequencerStep
  <2>2. PICK op \in OpNames, target \in RegisterNames, i \in 0..MaxWords, v \in Values :
           CallAt(t, w, r, n + 1) = Call(op, target, i, v)
    <3>1. n + 1 \in 1..K
      BY <1>0
    <3> QED
      BY <3>1, CallTypes
  <2>3. /\ SeqrOK(S(n + 1)) /\ Grows(S(n).buffer, S(n + 1).buffer)
        /\ Len(S(n + 1).buffer) = RegisterAt(S(n)) + Operands(op)
    BY <1>2, <2>1, <2>2, Emitted
  <2>4. Len(S(n).buffer) \in Nat
    BY <1>2 DEF SeqrOK
  <2> QED
    <3>1. RegisterAt(S(n)) \in Nat /\ RegisterAt(S(n)) > Len(S(n).buffer)
      BY <2>4 DEF RegisterAt
    <3>2. Operands(op) \in Nat
      BY DEF Operands
    <3> QED
      BY <2>3, <2>4, <3>1, <3>2
<1> HIDE DEF S
<1>3. \A n \in 0..K : SeqrOK(S(n))
  <2> DEFINE T == {n \in Nat : n <= K => SeqrOK(S(n))}
  <2>1. 0 \in T
    BY <1>1
  <2>2. ASSUME NEW n \in Nat, n \in T PROVE n + 1 \in T
    BY <1>0, <1>2, <2>2
  <2> HIDE DEF T
  <2>3. Nat \subseteq T
    BY <2>1, <2>2, NumberInduction
  <2> QED
    BY <1>0, <2>3 DEF T
<1>4. \A n \in 0..K : S(n).buffer \in Seq(Cells) /\ Len(S(n).buffer) \in Nat
  BY <1>3 DEF SeqrOK
<1>5. ASSUME NEW m \in 0..K
      PROVE  \A n \in 0..K : m <= n =>
                Grows(S(m).buffer, S(n).buffer) /\ (m < n => Len(S(m).buffer) < Len(S(n).buffer))
  <2> DEFINE T == {k \in Nat : m + k <= K =>
                     /\ Grows(S(m).buffer, S(m + k).buffer)
                     /\ k > 0 => Len(S(m).buffer) < Len(S(m + k).buffer)}
  <2>1. 0 \in T
    <3>1. m + 0 = m
      OBVIOUS
    <3> QED
      BY <1>4, <3>1, GrowsSelf
  <2>2. ASSUME NEW k \in Nat, k \in T PROVE k + 1 \in T
    <3>1. SUFFICES ASSUME m + (k + 1) <= K
                   PROVE  /\ Grows(S(m).buffer, S(m + (k + 1)).buffer)
                          /\ Len(S(m).buffer) < Len(S(m + (k + 1)).buffer)
      OBVIOUS
    <3>2. /\ m + k \in 0..(K - 1) /\ m + k \in 0..K /\ m + (k + 1) = (m + k) + 1 /\ m + k + 1 \in 0..K
          /\ m + k <= K
      BY <1>0, <3>1
    <3>3. Grows(S(m).buffer, S(m + k).buffer) /\ (k > 0 => Len(S(m).buffer) < Len(S(m + k).buffer))
      BY <2>2, <3>2
    <3>4. /\ Grows(S(m + k).buffer, S(m + k + 1).buffer)
          /\ Len(S(m + k).buffer) < Len(S(m + k + 1).buffer)
      BY <1>2, <1>3, <3>2
    <3>5. Grows(S(m).buffer, S(m + k + 1).buffer)
      BY <1>4, <3>2, <3>3, <3>4, GrowsOn
    <3>6. Len(S(m).buffer) < Len(S(m + k + 1).buffer)
      <4>1. Len(S(m).buffer) <= Len(S(m + k).buffer)
        BY <3>3 DEF Grows
      <4> QED
        BY <1>4, <3>2, <3>4, <4>1
    <3> QED
      BY <3>2, <3>5, <3>6
  <2> HIDE DEF T
  <2>3. Nat \subseteq T
    BY <2>1, <2>2, NumberInduction
  <2>4. ASSUME NEW n \in 0..K, m <= n
        PROVE  Grows(S(m).buffer, S(n).buffer) /\ (m < n => Len(S(m).buffer) < Len(S(n).buffer))
    <3>1. n - m \in Nat /\ m + (n - m) = n /\ (m < n => n - m > 0) /\ n <= K
      BY <1>0, <2>4
    <3>2. n - m \in T
      BY <2>3, <3>1
    <3> QED
      BY <3>1, <3>2 DEF T
  <2> QED
    BY <2>4
<1> QED
  BY <1>3, <1>5 DEF S, Pos

\* Where the register of call n + 1 is, and that the call is there.
At(t, w, r, n) == RegisterAt(Seqr(t, w, r, n))

Placed(t, w, r, n, b, call) ==
    /\ Bit(t, w, r, n) = CommandsPerWord =>
          Idx(t, w, r, n + 1) = Pos(t, w, r, n) + 1 /\ Bit(t, w, r, n + 1) = 1
    /\ Bit(t, w, r, n) # CommandsPerWord =>
          Idx(t, w, r, n + 1) = Idx(t, w, r, n) /\ Bit(t, w, r, n + 1) = Bit(t, w, r, n) + 1
    /\ Pos(t, w, r, n + 1) = At(t, w, r, n) + Operands(call.op)
    /\ b[At(t, w, r, n)] = Register(call.r, call.i)
    /\ b[At(t, w, r, n) + 1] = Data(call.v)
    /\ call.op = "POLL" => b[At(t, w, r, n) + 2] = Data(call.v)
    /\ Bit(t, w, r, n + 1) \in 1..Len(b[Idx(t, w, r, n + 1)].ops)
    /\ b[Idx(t, w, r, n + 1)].ops[Bit(t, w, r, n + 1)] = call.op

\* The cells of a sequence b.
Layout(t, w, r, b) ==
    /\ b \in Seq(Cells) /\ b[1].c = "command"
    /\ Pos(t, w, r, 0) = 1 /\ Idx(t, w, r, 0) = 1 /\ Bit(t, w, r, 0) = 0
    /\ \A n \in 0..Calls(w, r) :
          /\ Pos(t, w, r, n) \in Nat \ {0} /\ Pos(t, w, r, n) < Len(b)
          /\ Idx(t, w, r, n) \in 1..Pos(t, w, r, n) /\ b[Idx(t, w, r, n)].c = "command"
          /\ Bit(t, w, r, n) \in 0..CommandsPerWord
          /\ At(t, w, r, n) = IF Bit(t, w, r, n) = CommandsPerWord THEN Pos(t, w, r, n) + 2
                              ELSE Pos(t, w, r, n) + 1
          /\ Bit(t, w, r, n) = CommandsPerWord => b[Pos(t, w, r, n) + 1].c = "command"
    /\ \A m, n \in 0..Calls(w, r) : m < n => Pos(t, w, r, m) < Pos(t, w, r, n)
    /\ \A n \in 0..(Calls(w, r) - 1) : Placed(t, w, r, n, b, CallAt(t, w, r, n + 1))
    /\ At(t, w, r, Calls(w, r)) = Len(b) /\ b[Len(b)] = EndMark

LEMMA BufferOf ==
    ASSUME NEW t, NEW w, NEW r, Shaped(t, w, r)
    PROVE  Buffer[t][<<w, r>>] = done(Seqr(t, w, r, Calls(w, r))).buffer
<1>1. PICK sh : sh = <<w, r>>
  BY Zenon
<1>2. sh \in Shapes /\ t \in Txs /\ sh[1] = w /\ sh[2] = r /\ w \in Nat /\ r \in Nat
  BY <1>1 DEF Shaped, MaxWords
<1>3. Len(Encoded(t, w, r)) = Calls(w, r)
  BY <1>2, EncodedCalls, Zenon DEF CallTable
<1>4. Buffer[t][sh] = done(Sequenced(Encoded(t, sh[1], sh[2]))[Len(Encoded(t, sh[1], sh[2]))]).buffer
  BY <1>2 DEF Buffer
<1> QED
  BY <1>1, <1>2, <1>3, <1>4 DEF Seqr

LEMMA ReadIndexOf ==
    ASSUME NEW t, NEW w, NEW r, Shaped(t, w, r), NEW n \in 0..r
    PROVE  ReadIndex[t][<<w, r>>][n] = Pos(t, w, r, w + 6 + n)
<1>1. PICK sh : sh = <<w, r>>
  BY Zenon
<1>2. sh \in Shapes /\ t \in Txs /\ sh[1] = w /\ sh[2] = r
  BY <1>1 DEF Shaped
<1>3. ReadIndex[t][sh] = [k \in 0..sh[2] |->
                             Len(Sequenced(Encoded(t, sh[1], sh[2]))[sh[1] + 6 + k].buffer)]
  BY <1>2, Zenon DEF ReadIndex
<1>4. ReadIndex[t][sh][n] = Pos(t, w, r, w + 6 + n)
  BY <1>2, <1>3 DEF Seqr, Pos
<1> QED
  BY <1>1, <1>4

LEMMA BufferLayout ==
    ASSUME NEW t, NEW w, NEW r, Shaped(t, w, r), NEW b, b = Buffer[t][<<w, r>>]
    PROVE  Layout(t, w, r, b)
<1>0. t \in Txs /\ w \in 0..MaxWords /\ r \in 0..MaxWords
  BY DEF Shaped
<1>1. PICK K : K = Calls(w, r)
  OBVIOUS
<1>2. K \in Nat /\ K >= 7 /\ CommandsPerWord \in Nat \ {0}
  BY <1>0, <1>1, SequencerStep, I2cAssumption
<1>3. PICK e : e = done(Seqr(t, w, r, K))
  OBVIOUS
<1>4. b = e.buffer
  BY <1>1, <1>3, BufferOf
<1>5. \A n \in 0..K : SeqrOK(Seqr(t, w, r, n))
  BY <1>0, <1>1, SequencerGrows
<1>6. /\ SeqrOK(e) /\ Grows(Seqr(t, w, r, K).buffer, b)
      /\ Bit(t, w, r, K) = CommandsPerWord => b[Pos(t, w, r, K) + 1].c = "command"
      /\ Len(b) = At(t, w, r, K) /\ b[At(t, w, r, K)] = EndMark
  <2>1. SeqrOK(Seqr(t, w, r, K))
    BY <1>2, <1>5
  <2> QED
    BY <1>3, <1>4, <2>1, EndMarked DEF Bit, Pos, At
<1>7. b \in Seq(Cells)
  BY <1>4, <1>6 DEF SeqrOK
<1>8. ASSUME NEW n \in 0..K
      PROVE  /\ Seqr(t, w, r, n).buffer \in Seq(Cells)
             /\ Grows(Seqr(t, w, r, n).buffer, b)
             /\ Pos(t, w, r, n) \in Nat \ {0}
             /\ Idx(t, w, r, n) \in 1..Pos(t, w, r, n)
             /\ Seqr(t, w, r, n).buffer[Idx(t, w, r, n)].c = "command"
             /\ b[Idx(t, w, r, n)].c = "command"
             /\ Bit(t, w, r, n) \in 0..CommandsPerWord
             /\ Bit(t, w, r, n) = Len(Seqr(t, w, r, n).buffer[Idx(t, w, r, n)].ops)
             /\ At(t, w, r, n) = IF Bit(t, w, r, n) = CommandsPerWord THEN Pos(t, w, r, n) + 2
                                 ELSE Pos(t, w, r, n) + 1
             /\ Pos(t, w, r, n) <= Pos(t, w, r, K) 
  <2>1. SeqrOK(Seqr(t, w, r, n))
    BY <1>5
  <2>2. PICK s, k : s = Seqr(t, w, r, n) /\ k = Seqr(t, w, r, K)
    OBVIOUS
  <2>3. /\ s.buffer \in Seq(Cells) /\ s.index \in 1..Len(s.buffer) /\ s.buffer[s.index].c = "command"
        /\ s.bit \in 0..CommandsPerWord /\ s.bit = Len(s.buffer[s.index].ops)
    BY <2>1, <2>2 DEF SeqrOK
  <2>4. Grows(s.buffer, k.buffer) /\ k.buffer \in Seq(Cells)
    <3>1. n <= K /\ K \in 0..K
      BY <1>2
    <3>2. SeqrOK(Seqr(t, w, r, K))
      BY <1>5, <3>1
    <3> QED
      BY <1>0, <1>1, <2>2, <3>1, <3>2, SequencerGrows DEF SeqrOK
  <2>5. Grows(s.buffer, b)
    BY <1>6, <1>7, <2>2, <2>3, <2>4, GrowsOn
  <2>6. b[s.index].c = "command"
    BY <2>3, <2>5, Zenon DEF Grows
  <2>7. Len(s.buffer) <= Len(k.buffer)
    BY <2>4 DEF Grows
  <2>8. Len(s.buffer) \in Nat \ {0}
    BY <2>3
  <2> QED
    BY <2>2, <2>3, <2>5, <2>6, <2>7, <2>8 DEF Pos, Idx, Bit, At, RegisterAt
<1>9. Pos(t, w, r, 0) = 1 /\ Idx(t, w, r, 0) = 1 /\ Bit(t, w, r, 0) = 0
  <2>1. Seqr(t, w, r, 0) = NewSequencer
    BY <1>0, SequencerStep
  <2>2. NewSequencer.index = 1 /\ NewSequencer.bit = 0 /\ NewSequencer.buffer = <<CommandWord(<<>>)>>
    BY DEF NewSequencer
  <2>3. \A x : Len(<<x>>) = 1
    OBVIOUS
  <2> QED
    BY <2>1, <2>2, <2>3, Zenon DEF Pos, Idx, Bit
<1>10. b[1].c = "command"
  <2>1. 0 \in 0..K
    BY <1>2
  <2>2. b[Idx(t, w, r, 0)].c = "command"
    BY <1>8, <2>1
  <2> QED
    BY <1>9, <2>2
<1>11. \A m, n \in 0..K : m < n => Pos(t, w, r, m) < Pos(t, w, r, n)
  BY <1>0, <1>1, SequencerGrows
<1>12. ASSUME NEW n \in 0..K PROVE Pos(t, w, r, n) < Len(b)
  <2>1. K \in 0..K
    BY <1>2
  <2>2. Pos(t, w, r, K) < At(t, w, r, K)
    <3>1. /\ Pos(t, w, r, K) \in Nat
          /\ At(t, w, r, K) = IF Bit(t, w, r, K) = CommandsPerWord THEN Pos(t, w, r, K) + 2
                              ELSE Pos(t, w, r, K) + 1
      BY <1>8, <2>1, Zenon
    <3> QED
      BY <3>1
  <2>3. Pos(t, w, r, n) <= Pos(t, w, r, K) /\ Pos(t, w, r, n) \in Nat /\ Pos(t, w, r, K) \in Nat
    BY <1>8, <2>1
  <2>4. At(t, w, r, K) \in Nat
    BY <1>6, <1>7
  <2> QED
    BY <1>6, <2>2, <2>3, <2>4
<1>13. ASSUME NEW n \in 0..(K - 1) PROVE Placed(t, w, r, n, b, CallAt(t, w, r, n + 1))
  <2>0. n \in 0..K /\ n + 1 \in 0..K /\ n + 1 \in 1..K
    BY <1>2
  <2>1. PICK op \in OpNames, target \in RegisterNames, i \in 0..MaxWords, v \in Values :
           CallAt(t, w, r, n + 1) = Call(op, target, i, v)
    BY <1>0, <1>1, <2>0, CallTypes
  <2>2. PICK s, u, z : s = Seqr(t, w, r, n) /\ u = Seqr(t, w, r, n + 1) /\ z = RegisterAt(s)
    OBVIOUS
  <2>3. u = Emit(s, Call(op, target, i, v))
    BY <1>0, <1>1, <2>1, <2>2, SequencerStep
  <2>4. SeqrOK(s)
    BY <1>5, <2>0, <2>2
  <2>5. /\ SeqrOK(u)
        /\ s.bit = CommandsPerWord => u.index = Len(s.buffer) + 1 /\ u.bit = 1
        /\ s.bit # CommandsPerWord => u.index = s.index /\ u.bit = s.bit + 1
        /\ u.buffer[u.index].ops[u.bit] = op
        /\ Len(u.buffer) = z + Operands(op)
        /\ u.buffer[z] = Register(target, i)
        /\ u.buffer[z + 1] = Data(v)
        /\ op = "POLL" => u.buffer[z + 2] = Data(v)
    BY <2>2, <2>3, <2>4, Emitted
  <2>6. Grows(u.buffer, b) /\ u.buffer \in Seq(Cells)
    BY <1>8, <2>0, <2>2, Zenon
  <2>7. z \in Nat \ {0}
    BY <1>8, <2>0, <2>2, SMTT(30) DEF At
  <2>8. /\ z \in 1..Len(u.buffer) /\ z + 1 \in 1..Len(u.buffer)
        /\ op = "POLL" => z + 2 \in 1..Len(u.buffer)
    BY <2>5, <2>7 DEF Operands
  <2>9. Register(target, i).c # "command" /\ Data(v).c # "command"
    BY CellsMade
  <2>10. b[z] = Register(target, i)
    BY <2>5, <2>6, <2>8, <2>9, Zenon DEF Grows
  <2>11. b[z + 1] = Data(v)
    BY <2>5, <2>6, <2>8, <2>9, Zenon DEF Grows
  <2>12. op = "POLL" => b[z + 2] = Data(v)
    BY <2>5, <2>6, <2>8, <2>9, Zenon DEF Grows
  <2>13. /\ u.index \in 1..Len(u.buffer) /\ u.buffer[u.index].c = "command"
         /\ Len(u.buffer[u.index].ops) = u.bit /\ u.bit \in Nat
    BY <2>5 DEF SeqrOK
  <2>14. u.bit \in 1..Len(u.buffer[u.index].ops)
    <3>1. u.bit # 0
      BY <1>8, <2>0, <2>2, <2>5, SMTT(30) DEF Bit
    <3> QED
      BY <2>13, <3>1
  <2>15. u.bit \in 1..Len(b[u.index].ops) /\ b[u.index].ops[u.bit] = op
    <3>1. b[u.index].c = "command" /\ b[u.index] \in Cells
      <4>1. /\ Idx(t, w, r, n + 1) \in 1..Pos(t, w, r, n + 1) /\ b[Idx(t, w, r, n + 1)].c = "command"
            /\ Pos(t, w, r, n + 1) \in Nat
        BY <1>8, <2>0, Zenon
      <4>2. Pos(t, w, r, n + 1) < Len(b) /\ Len(b) \in Nat
        BY <1>7, <1>12, <2>0
      <4>3. u.index = Idx(t, w, r, n + 1)
        BY <2>2 DEF Idx
      <4>4. u.index \in 1..Len(b)
        BY <4>1, <4>2, <4>3
      <4> QED
        BY <1>7, <4>1, <4>3, <4>4
    <3>2. Len(b[u.index].ops) \in Nat
      <4>1. PICK x : x = b[u.index]
        OBVIOUS
      <4>2. x \in Cells /\ x.c = "command"
        BY <3>1, <4>1
      <4>3. x.ops \in Seq(OpNames)
        BY <4>2, CellKinds, Zenon
      <4>4. Len(x.ops) \in Nat
        BY <4>3
      <4> QED
        BY <4>1, <4>4, Zenon
    <3> QED
      <4>1. /\ Len(u.buffer[u.index].ops) <= Len(b[u.index].ops)
            /\ \A k \in 1..Len(u.buffer[u.index].ops) :
                  b[u.index].ops[k] = u.buffer[u.index].ops[k]
        BY <2>6, <2>13, Zenon DEF Grows
      <4>2. b[u.index].ops[u.bit] = op
        BY <2>5, <2>14, <4>1, Zenon
      <4>3. u.bit \in 1..Len(b[u.index].ops)
        BY <2>13, <2>14, <3>2, <4>1
      <4> QED
        BY <4>2, <4>3
  <2>16. /\ Call(op, target, i, v).op = op /\ Call(op, target, i, v).r = target /\ Call(op, target, i, v).i = i
         /\ Call(op, target, i, v).v = v
    BY DEF Call
  <2> HIDE DEF Placed
  <2>17. Placed(t, w, r, n, b, Call(op, target, i, v))
    BY <2>2, <2>5, <2>10, <2>11, <2>12, <2>15, <2>16 DEF Placed, Pos, Idx, Bit, At
  <2> QED
    BY <2>1, <2>17
<1>14. ASSUME NEW n \in 0..K, Bit(t, w, r, n) = CommandsPerWord
       PROVE  b[Pos(t, w, r, n) + 1].c = "command"
  <2>1. CASE n = K
    BY <1>6, <1>14, <2>1
  <2>2. CASE n # K
    <3>1. n \in 0..(K - 1) /\ n + 1 \in 0..K
      BY <1>2, <2>2
    <3>2. Idx(t, w, r, n + 1) = Pos(t, w, r, n) + 1
      BY <1>13, <1>14, <3>1 DEF Placed
    <3> QED
      BY <1>8, <3>1, <3>2, Zenon
  <2> QED
    BY <2>1, <2>2
<1> QED
  BY <1>1, <1>6, <1>7, <1>8, <1>9, <1>10, <1>11, <1>12, <1>13, <1>14, Zenon DEF Layout

\* What a value written to a register may be.
Writable(target) == CASE target = "control" -> {"zero", "start"}
                   [] target = "num_bytes" -> {"bytes"}
                   [] target = "bus_en" -> {"bus"}
                   [] target = "data" -> {"word"}
                   [] OTHER -> {}

LEMMA CallKinds ==
    ASSUME NEW t \in Txs, NEW w \in 0..MaxWords, NEW r \in 0..MaxWords, NEW n \in 1..Calls(w, r),
           NEW call, call = CallAt(t, w, r, n)
    PROVE  /\ call.op \in OpNames /\ call.r \in RegisterNames /\ call.i \in 0..MaxWords
           /\ call.v \in Values
           /\ call.op = "WR" => n \notin (w + 5)..(w + 6 + r) /\ call.v.k \in Writable(call.r)
           /\ call.op = "POLL" => n = w + 5 /\ call.r = "status"
           /\ call.op = "RD" => n \in (w + 6)..(w + 6 + r) /\ call.r \in {"status", "data"}
<1>0. w \in Nat /\ r \in Nat /\ MaxWords \in Nat /\ CallTable(t, w, r)
  <2>1. w \in Nat /\ r \in Nat /\ MaxWords \in Nat
    BY DEF MaxWords
  <2> QED
    BY <2>1, EncodedCalls
<1>2. call.op \in OpNames /\ call.r \in RegisterNames /\ call.i \in 0..MaxWords /\ call.v \in Values
  BY CallTypes DEF Call
<1>3a. Zero.k = "zero"
  BY DEF Zero, Val
<1>4. CASE n = 1 \/ n = w + r + 7
  <2>1. call = Call("WR", "control", 0, Zero)
    BY <1>0, <1>4, Zenon DEF CallTable
  <2>2. call.op = "WR" /\ call.r = "control" /\ call.v = Zero
    BY <2>1 DEF Call
  <2> QED
    BY <1>0, <1>2, <1>3a, <1>4, <2>2 DEF Writable
<1>5. CASE n \in 2..(w + 1)
  <2>1. call = Call("WR", "data", n - 1, Val("word", t, n - 1))
    BY <1>0, <1>5 DEF CallTable
  <2>2. call.op = "WR" /\ call.r = "data" /\ call.v.k = "word"
    BY <2>1 DEF Call, Val
  <2> QED
    BY <1>0, <1>2, <1>5, <2>2 DEF Writable
<1>6. CASE n = w + 2
  <2>1. call = Call("WR", "num_bytes", 0, Val("bytes", w, r))
    BY <1>0, <1>6 DEF CallTable
  <2>2. call.op = "WR" /\ call.r = "num_bytes" /\ call.v.k = "bytes"
    BY <2>1 DEF Call, Val
  <2> QED
    BY <1>0, <1>2, <1>6, <2>2 DEF Writable
<1>7. CASE n = w + 3
  <2>1. call = Call("WR", "bus_en", 0, Val("bus", 0, 0))
    BY <1>0, <1>7 DEF CallTable
  <2>2. call.op = "WR" /\ call.r = "bus_en" /\ call.v.k = "bus"
    BY <2>1 DEF Call, Val
  <2> QED
    BY <1>0, <1>2, <1>7, <2>2 DEF Writable
<1>8. CASE n = w + 4
  <2>1. call = Call("WR", "control", 0, Val("start", t, 0))
    BY <1>0, <1>8 DEF CallTable
  <2>2. call.op = "WR" /\ call.r = "control" /\ call.v.k = "start"
    BY <2>1 DEF Call, Val
  <2> QED
    BY <1>0, <1>2, <1>8, <2>2 DEF Writable
<1>9. CASE n = w + 5
  <2>1. call = Call("POLL", "status", 0, Status({"DONE"}))
    BY <1>0, <1>9 DEF CallTable
  <2>2. call.op = "POLL" /\ call.r = "status"
    BY <2>1 DEF Call
  <2> QED
    BY <1>0, <1>2, <1>9, <2>2
<1>10. CASE n = w + 6
  <2>1. call = Call("RD", "status", 0, Zero)
    BY <1>0, <1>10 DEF CallTable
  <2>2. call.op = "RD" /\ call.r = "status"
    BY <2>1 DEF Call
  <2> QED
    BY <1>0, <1>2, <1>10, <2>2
<1>11. CASE n \in (w + 7)..(w + 6 + r)
  <2>1. call = Call("RD", "data", n - (w + 6), NoValue)
    BY <1>0, <1>11 DEF CallTable
  <2>2. call.op = "RD" /\ call.r = "data"
    BY <2>1 DEF Call
  <2> QED
    BY <1>0, <1>2, <1>11, <2>2
<1>12. \/ n = 1 \/ n \in 2..(w + 1) \/ n = w + 2 \/ n = w + 3 \/ n = w + 4 \/ n = w + 5
       \/ n = w + 6 \/ n \in (w + 7)..(w + 6 + r) \/ n = w + r + 7
  BY <1>0 DEF Calls
<1> QED
  BY <1>4, <1>5, <1>6, <1>7, <1>8, <1>9, <1>10, <1>11, <1>12

\* The cells in which a sequence stores hold data, and no other command uses them.
LEMMA StoresAreData ==
    ASSUME NEW t, NEW w, NEW r, Shaped(t, w, r), NEW b, Layout(t, w, r, b)
    PROVE  /\ \A i \in StoreCells(t, w, r) : i \in 1..Len(b) /\ b[i].c = "data"
           /\ \A n \in 0..Calls(w, r) :
                 Pos(t, w, r, n) \in StoreCells(t, w, r) <=> n \in (w + 6)..(w + 6 + r)
           /\ \A m, n \in 0..Calls(w, r) : Pos(t, w, r, m) = Pos(t, w, r, n) => m = n
<1>0. t \in Txs /\ w \in 0..MaxWords /\ r \in 0..MaxWords /\ w \in Nat /\ r \in Nat
  BY DEF Shaped, MaxWords
<1>1. PICK K : K = Calls(w, r)
  OBVIOUS
<1>2. K = w + r + 7 /\ K \in Nat
  BY <1>0, <1>1 DEF Calls
<1>3. \A n \in 0..K : Pos(t, w, r, n) \in Nat \ {0} /\ Pos(t, w, r, n) < Len(b)
  BY <1>1 DEF Layout
<1>4. \A m, n \in 0..K : Pos(t, w, r, m) = Pos(t, w, r, n) => m = n
  <2> SUFFICES ASSUME NEW m \in 0..K, NEW n \in 0..K, Pos(t, w, r, m) = Pos(t, w, r, n), m # n
               PROVE  FALSE
    OBVIOUS
  <2>1. \A i, j \in 0..K : i < j => Pos(t, w, r, i) < Pos(t, w, r, j)
    BY <1>1 DEF Layout
  <2>2. m < n \/ n < m
    BY <1>2
  <2> QED
    BY <1>3, <2>1, <2>2
<1>5. ASSUME NEW m \in (w + 6)..(w + 6 + r)
      PROVE  Pos(t, w, r, m) \in 1..Len(b) /\ b[Pos(t, w, r, m)].c = "data"
  <2>1. m \in 0..K /\ m \in 1..K /\ m - 1 \in 0..K - 1 /\ (m - 1) + 1 = m
    BY <1>0, <1>2
  <2>2. PICK call : call = CallAt(t, w, r, m)
    OBVIOUS
  <2>3. /\ call.op \in OpNames /\ call.v \in Values /\ call.op # "WR" /\ call.op # "POLL"
    <3>1. m # w + 5 /\ m \in (w + 5)..(w + 6 + r)
      BY <1>0
    <3> QED
      BY <1>0, <1>1, <2>1, <2>2, <3>1, CallKinds
  <2>4. Placed(t, w, r, m - 1, b, call)
    BY <1>1, <2>1, <2>2 DEF Layout
  <2>5. b[At(t, w, r, m - 1) + 1] = Data(call.v) /\ Pos(t, w, r, m) = At(t, w, r, m - 1) + 1
    BY <2>1, <2>3, <2>4 DEF Placed, Operands
  <2>6. b[Pos(t, w, r, m)].c = "data"
    BY <2>3, <2>5, CellsMade
  <2>7. Len(b) \in Nat
    BY DEF Layout
  <2> QED
    BY <1>3, <2>1, <2>6, <2>7
<1>6. \A n \in 0..K : Pos(t, w, r, n) \in StoreCells(t, w, r) <=> n \in (w + 6)..(w + 6 + r)
  <2>1. (w + 6)..(w + 6 + r) \subseteq 0..K
    BY <1>0, <1>2
  <2> QED
    BY <1>4, <2>1 DEF StoreCells
<1> QED
  BY <1>1, <1>4, <1>5, <1>6 DEF StoreCells

LEMMA HoldsCells ==
    ASSUME NEW t, NEW w, NEW r, Shaped(t, w, r), NEW b, b = Buffer[t][<<w, r>>],
           ram \in Seq(Cells), Holds(t, w, r)
    PROVE  /\ Len(b) \in Nat /\ Len(b) <= Len(ram)
           /\ \A i \in 1..Len(b) : i \in DOMAIN ram /\ Cell(i) = ram[i] /\ ram[i].c = b[i].c
           /\ \A i \in 1..Len(b) : b[i].c # "data" => ram[i] = b[i]
           /\ \A n \in 0..Calls(w, r) :
                 n \notin (w + 6)..(w + 6 + r) => ram[Pos(t, w, r, n)] = b[Pos(t, w, r, n)]
<1>1. Layout(t, w, r, b)
  BY BufferLayout
<1>2. b \in Seq(Cells) /\ Len(b) \in Nat /\ Len(b) <= Len(ram) /\ Len(ram) \in Nat
  BY <1>1 DEF Layout, Holds
<1>3. \A i \in 1..Len(b) : IF i \in StoreCells(t, w, r) THEN ram[i].c = "data" ELSE ram[i] = b[i]
  BY Zenon DEF Holds
<1>4. \A i \in StoreCells(t, w, r) : b[i].c = "data"
  BY <1>1, StoresAreData
<1>5. ASSUME NEW i \in 1..Len(b) PROVE i \in DOMAIN ram /\ Cell(i) = ram[i] /\ ram[i].c = b[i].c
  <2>1. i \in DOMAIN ram
    BY <1>2
  <2> QED
    BY <1>3, <1>4, <2>1 DEF Cell
<1>6. ASSUME NEW i \in 1..Len(b), b[i].c # "data" PROVE ram[i] = b[i]
  BY <1>3, <1>4, <1>6
<1>7. ASSUME NEW n \in 0..Calls(w, r), n \notin (w + 6)..(w + 6 + r)
      PROVE  ram[Pos(t, w, r, n)] = b[Pos(t, w, r, n)]
  <2>1. Pos(t, w, r, n) \notin StoreCells(t, w, r)
    BY <1>1, <1>7, StoresAreData
  <2>2. Pos(t, w, r, n) \in 1..Len(b)
    <3>1. Pos(t, w, r, n) \in Nat \ {0} /\ Pos(t, w, r, n) < Len(b)
      BY <1>1, Zenon DEF Layout
    <3> QED
      BY <1>2, <3>1
  <2> QED
    BY <1>3, <2>1, <2>2
<1> QED
  BY <1>2, <1>5, <1>6, <1>7, Zenon

\* It finds call n + 1 next.
Finds(t, w, r, n, f, call) ==
    /\ f.address \in Nat \ {0} /\ f.bit \in 0..CommandsPerWord
    /\ f.address \in DOMAIN ram /\ f.address + 1 \in DOMAIN ram
    /\ Cell(f.address) = Register(call.r, call.i) /\ ram[f.address] = Register(call.r, call.i)
    /\ Cell(f.address + 1) = ram[f.address + 1] /\ ram[f.address + 1].c = "data"
    /\ call.op = "WR" => ram[f.address + 1] = Data(call.v)
    /\ call.op = "POLL" => Cell(f.address + 2).c = "data"
    /\ CommandAt(f) = call.op
    /\ f.address + Operands(call.op) = Pos(t, w, r, n + 1)
    /\ f.bit + 1 = Bit(t, w, r, n + 1)
    /\ f.word = Buffer[t][<<w, r>>][Idx(t, w, r, n + 1)].ops

LEMMA CommandFetched ==
    ASSUME NEW t, NEW w, NEW r, Shaped(t, w, r), ram \in Seq(Cells), Holds(t, w, r),
           NEW n \in 0..Calls(w, r), AtCall(t, w, r, n), NEW f, f = NextCommand
    PROVE  /\ n < Calls(w, r) => Finds(t, w, r, n, f, CallAt(t, w, r, n + 1))
           /\ n = Calls(w, r) => Cell(f.address).c = "end"
<1>0. t \in Txs /\ w \in 0..MaxWords /\ r \in 0..MaxWords /\ w \in Nat /\ r \in Nat
  BY DEF Shaped, MaxWords
<1>1. PICK b, K : b = Buffer[t][<<w, r>>] /\ K = Calls(w, r)
  OBVIOUS
<1>2. Layout(t, w, r, b)
  BY <1>1, BufferLayout
<1>3. K = w + r + 7 /\ K \in Nat /\ CommandsPerWord \in Nat \ {0}
  BY <1>0, <1>1, I2cAssumption DEF Calls
<1>4. PICK p, a, q : p = Pos(t, w, r, n) /\ a = At(t, w, r, n) /\ q = Bit(t, w, r, n)
  OBVIOUS
<1>5. /\ p \in Nat \ {0} /\ p < Len(b) /\ q \in 0..CommandsPerWord
      /\ a = IF q = CommandsPerWord THEN p + 2 ELSE p + 1
      /\ q = CommandsPerWord => b[p + 1].c = "command"
      /\ b \in Seq(Cells) /\ Len(b) \in Nat
  <2>1. /\ Pos(t, w, r, n) \in Nat \ {0} /\ Pos(t, w, r, n) < Len(b)
        /\ Bit(t, w, r, n) \in 0..CommandsPerWord
        /\ At(t, w, r, n) = IF Bit(t, w, r, n) = CommandsPerWord THEN Pos(t, w, r, n) + 2
                            ELSE Pos(t, w, r, n) + 1
        /\ Bit(t, w, r, n) = CommandsPerWord => b[Pos(t, w, r, n) + 1].c = "command"
    BY <1>2, Zenon DEF Layout
  <2>2. b \in Seq(Cells)
    BY <1>2 DEF Layout
  <2>3. Len(b) \in Nat
    BY <2>2
  <2> QED
    BY <1>4, <2>1, <2>2, <2>3, Zenon
<1>6. /\ \A i \in 1..Len(b) : i \in DOMAIN ram /\ Cell(i) = ram[i] /\ ram[i].c = b[i].c
      /\ \A i \in 1..Len(b) : b[i].c # "data" => ram[i] = b[i]
      /\ \A m \in 0..K : m \notin (w + 6)..(w + 6 + r) => ram[Pos(t, w, r, m)] = b[Pos(t, w, r, m)]
  <2>1. /\ \A i \in 1..Len(b) : i \in DOMAIN ram /\ Cell(i) = ram[i] /\ ram[i].c = b[i].c
        /\ \A i \in 1..Len(b) : b[i].c # "data" => ram[i] = b[i]
        /\ \A m \in 0..Calls(w, r) :
              m \notin (w + 6)..(w + 6 + r) => ram[Pos(t, w, r, m)] = b[Pos(t, w, r, m)]
    BY <1>1, HoldsCells, SMTT(30)
  <2> QED
    BY <1>1, <2>1, Zenon
<1>7. /\ f.address = a
      /\ q = CommandsPerWord => f.bit = 0 /\ f.word = b[p + 1].ops
      /\ q # CommandsPerWord => f.bit = q /\ f.word = b[Idx(t, w, r, n)].ops
  <2>1. apb.address = p + 1 /\ apb.bit = q /\ apb.word = b[Idx(t, w, r, n)].ops
    BY <1>1, <1>4 DEF AtCall
  <2>2. CASE q = CommandsPerWord
    <3>1. p + 1 \in 1..Len(b)
      BY <1>5
    <3>2. Cell(apb.address).c = "command" /\ ram[apb.address].ops = b[p + 1].ops
      BY <1>5, <1>6, <2>1, <2>2, <3>1
    <3>3. f = [word |-> b[p + 1].ops, bit |-> 0, address |-> (p + 1) + 1]
      BY <2>1, <2>2, <3>2 DEF NextCommand
    <3> QED
      BY <1>5, <2>2, <3>3
  <2>3. CASE q # CommandsPerWord
    <3>1. f = [word |-> b[Idx(t, w, r, n)].ops, bit |-> q, address |-> p + 1]
      BY <2>1, <2>3 DEF NextCommand
    <3> QED
      BY <1>5, <2>3, <3>1
  <2> QED
    BY <2>2, <2>3
<1>8. ASSUME n = K PROVE Cell(f.address).c = "end"
  <2>1. a = Len(b) /\ b[a] = EndMark
    BY <1>1, <1>2, <1>4, <1>8, Zenon DEF Layout
  <2>2. a \in 1..Len(b)
    BY <1>5, <2>1
  <2>3. Cell(a).c = b[a].c
    BY <1>6, <2>2
  <2> QED
    BY <1>7, <2>1, <2>3, CellsMade
<1>9. ASSUME n < K PROVE Finds(t, w, r, n, f, CallAt(t, w, r, n + 1))
  <2>0. n \in 0..(K - 1) /\ n + 1 \in 1..K /\ n + 1 \in 0..K
    BY <1>3, <1>9, <1>1
  <2>1. PICK call : call = CallAt(t, w, r, n + 1)
    OBVIOUS
  <2>2. Placed(t, w, r, n, b, call)
    BY <1>1, <1>2, <2>0, <2>1, Zenon DEF Layout
  <2>3. PICK p2, q2, j2 : p2 = Pos(t, w, r, n + 1) /\ q2 = Bit(t, w, r, n + 1) /\ j2 = Idx(t, w, r, n + 1)
    OBVIOUS
  <2>4. /\ q = CommandsPerWord => j2 = p + 1 /\ q2 = 1
        /\ q # CommandsPerWord => j2 = Idx(t, w, r, n) /\ q2 = q + 1
        /\ p2 = a + Operands(call.op)
        /\ b[a] = Register(call.r, call.i)
        /\ b[a + 1] = Data(call.v)
        /\ call.op = "POLL" => b[a + 2] = Data(call.v)
        /\ q2 \in 1..Len(b[j2].ops) /\ b[j2].ops[q2] = call.op
    BY <1>4, <2>2, <2>3 DEF Placed
  <2>5. p2 \in Nat /\ p2 < Len(b)
    BY <1>1, <1>2, <2>0, <2>3, Zenon DEF Layout
  <2>6. /\ call.op \in OpNames /\ call.r \in RegisterNames /\ call.i \in 0..MaxWords
        /\ call.v \in Values
        /\ call.op = "WR" => n + 1 \notin (w + 5)..(w + 6 + r)
    BY <1>0, <1>1, <2>0, <2>1, CallKinds
  <2>7. f.word = b[j2].ops /\ f.bit + 1 = q2 /\ f.bit \in 0..CommandsPerWord
    <3>1. CASE q = CommandsPerWord
      BY <1>3, <1>7, <2>4, <3>1
    <3>2. CASE q # CommandsPerWord
      <4>1. q \in 0..CommandsPerWord
        BY <1>5
      <4> QED
        BY <1>7, <2>4, <3>2, <4>1
    <3> QED
      BY <3>1, <3>2
  <2>8. /\ a \in Nat \ {0} /\ a \in 1..Len(b) /\ a + 1 \in 1..Len(b)
        /\ call.op = "POLL" => a + 2 \in 1..Len(b)
    <3>1. a \in Nat \ {0}
      BY <1>5
    <3>2. CASE call.op = "POLL"
      <4>1. p2 = a + 2
        BY <2>4, <3>2 DEF Operands
      <4> QED
        BY <1>5, <2>5, <3>1, <4>1
    <3>3. CASE call.op # "POLL"
      <4>1. p2 = a + 1
        BY <2>4, <3>3 DEF Operands
      <4> QED
        BY <1>5, <2>5, <3>1, <3>3, <4>1
    <3> QED
      BY <3>2, <3>3
  <2>9. Cell(a) = ram[a] /\ ram[a] = Register(call.r, call.i)
    <3>1. b[a].c # "data"
      BY <2>4, <2>6, CellsMade
    <3> QED
      BY <1>6, <2>4, <2>8, <3>1
  <2>10. Cell(a + 1) = ram[a + 1] /\ ram[a + 1].c = "data"
    <3>1. b[a + 1].c = "data"
      BY <2>4, <2>6, CellsMade
    <3> QED
      BY <1>6, <2>8, <3>1
  <2>11. call.op = "POLL" => Cell(a + 2).c = "data"
    <3>1. call.op = "POLL" => b[a + 2].c = "data"
      BY <2>4, <2>6, CellsMade
    <3> QED
      BY <1>6, <2>8, <3>1
  <2>12. ASSUME call.op = "WR" PROVE ram[a + 1] = Data(call.v)
    <3>1. p2 = a + 1
      BY <2>4, <2>12 DEF Operands
    <3>2. n + 1 \notin (w + 6)..(w + 6 + r)
      BY <1>0, <2>6, <2>12
    <3>3. ram[Pos(t, w, r, n + 1)] = b[Pos(t, w, r, n + 1)]
      BY <1>6, <2>0, <3>2
    <3> QED
      BY <2>3, <2>4, <3>1, <3>3
  <2>13. CommandAt(f) = call.op
    <3>1. q2 \in DOMAIN f.word
      <4>1. b[j2].ops \in Seq(OpNames)
        <5>1. j2 \in 1..p2 /\ b[j2].c = "command"
          BY <1>1, <1>2, <2>0, <2>3, Zenon DEF Layout
        <5>2. b[j2] \in Cells
          BY <1>5, <2>5, <5>1
        <5> QED
          BY <5>1, <5>2, CellKinds
      <4> QED
        BY <2>4, <2>7, <4>1
    <3> QED
      BY <2>4, <2>7, <3>1 DEF CommandAt
  <2>14. a \in DOMAIN ram /\ a + 1 \in DOMAIN ram
    BY <1>6, <2>8
  <2>15. Finds(t, w, r, n, f, call)
    BY <1>1, <1>7, <2>3, <2>4, <2>7, <2>8, <2>9, <2>10, <2>11, <2>12, <2>13, <2>14 DEF Finds
  <2> QED
    BY <2>1, <2>15
<1> QED
  BY <1>1, <1>8, <1>9

-----------------------------------------------------------------------------
(* Types of the device's memory and threads. *)

LEMMA ValueTypes ==
    /\ \A v \in Values : /\ v \in Word32 /\ v.t \in Nat /\ v.i \in 0..MaxWords /\ v.f \in SUBSET Flags
                         /\ v.k = "start" => v.t \in Txs
                         /\ v.k = "zero" => v.t = 0
    /\ Zero \in Values /\ NoValue \in Values
    /\ \A s \in SUBSET Flags : Status(s) \in Values /\ Status(s).f = s
    /\ \A t \in Nat, i \in 0..MaxWords : /\ Val("answer", t, i) \in Values
                                         /\ Val("word", t, i) \in Values
                                         /\ Val("bytes", t, i) \in Values
<1>0. MaxWords \in Nat
  BY DEF MaxWords
<1>1. ASSUME NEW v \in Values
      PROVE  /\ v \in Word32 /\ v.t \in Nat /\ v.i \in 0..MaxWords /\ v.f \in SUBSET Flags
             /\ v.k = "start" => v.t \in Txs
             /\ v.k = "zero" => v.t = 0
  BY DEF Values, Word32
<1>2. Zero \in Values /\ NoValue \in Values
  BY <1>0 DEF Values, Word32, Zero, NoValue, Val
<1>3. ASSUME NEW s \in SUBSET Flags PROVE Status(s) \in Values /\ Status(s).f = s
  BY <1>0 DEF Values, Word32, Status
<1>4. ASSUME NEW t \in Nat, NEW i \in 0..MaxWords
      PROVE  /\ Val("answer", t, i) \in Values /\ Val("word", t, i) \in Values
             /\ Val("bytes", t, i) \in Values
  BY <1>0 DEF Values, Word32, Val
<1> QED
  BY <1>1, <1>2, <1>3, <1>4, Zenon

LEMMA NextTypes ==
    ASSUME RamInv, ApbInv, NEW f, f = NextCommand
    PROVE  /\ f.address \in Nat \ {0} /\ f.bit \in 0..(CommandsPerWord - 1)
           /\ f.word \in Seq(OpNames \cup {"ERROR"}) /\ CommandAt(f) \in OpNames \cup {"ERROR"}
<1>0. CommandsPerWord \in Nat \ {0}
  BY I2cAssumption
<1>1. PICK q, a, o : q = apb.bit /\ a = apb.address /\ o = apb.word
  OBVIOUS
<1>2. a \in Nat \ {0} /\ q \in 0..CommandsPerWord /\ o \in Seq(OpNames \cup {"ERROR"})
  BY <1>1 DEF ApbInv
<1>3. CASE q = CommandsPerWord
  <2>1. PICK x : x = IF Cell(a).c = "command" THEN ram[a].ops ELSE <<"ERROR">>
    BY Zenon
  <2>2. x \in Seq(OpNames \cup {"ERROR"})
    <3>1. CASE Cell(a).c = "command"
      <4>1. a \in DOMAIN ram /\ Cell(a) = ram[a]
        <5>1. Data(Zero).c = "data"
          BY DEF Data
        <5> QED
          BY <3>1, <5>1 DEF Cell
      <4>2. ram[a] \in Cells
        BY <4>1 DEF RamInv
      <4>3. x \in Seq(OpNames)
        BY <2>1, <3>1, <4>1, <4>2, CellKinds
      <4> QED
        BY <4>3
    <3>2. CASE Cell(a).c # "command"
      BY <2>1, <3>2
    <3> QED
      BY <3>1, <3>2
  <2>3. f = [word |-> x, bit |-> 0, address |-> a + 1]
    BY <1>1, <1>3, <2>1 DEF NextCommand
  <2> QED
    BY <1>0, <1>2, <2>2, <2>3 DEF CommandAt, OpNames
<1>4. CASE q # CommandsPerWord
  <2>1. f = [word |-> o, bit |-> q, address |-> a]
    BY <1>1, <1>4 DEF NextCommand
  <2>2. q \in 0..(CommandsPerWord - 1)
    BY <1>0, <1>2, <1>4
  <2> QED
    BY <1>2, <2>1, <2>2 DEF CommandAt, OpNames
<1> QED
  BY <1>3, <1>4

LEMMA WellFormedTypes ==
    ASSUME RamInv, ApbInv, NEW f, f = NextCommand, WellFormed(f)
    PROVE  /\ CommandAt(f) \in OpNames
           /\ f.address \in DOMAIN ram /\ f.address + 1 \in DOMAIN ram
           /\ ram[f.address].c = "register" /\ ram[f.address].r \in RegisterNames
           /\ ram[f.address].i \in 0..MaxWords
           /\ ram[f.address + 1].c = "data" /\ ram[f.address + 1].v \in Values
           /\ CommandAt(f) = "WR" => ram[f.address + 1].v.k \in Writable(ram[f.address].r)
           /\ f.address # 1 /\ f.address + 1 # Len(ram)
<1>1. PICK a : a = f.address
  OBVIOUS
<1>2. a \in Nat \ {0} /\ CommandAt(f) \in OpNames \cup {"ERROR"}
  BY <1>1, NextTypes
<1>3. /\ CommandAt(f) # "ERROR" /\ Cell(a).c = "register" /\ Cell(a + 1).c = "data"
      /\ CommandAt(f) = "WR" => Cell(a + 1).v.k \in Writable(Cell(a).r)
  BY <1>1 DEF WellFormed, Writable
<1>4. a \in DOMAIN ram /\ Cell(a) = ram[a] /\ ram[a] \in Cells
  <2>1. Data(Zero).c = "data"
    BY DEF Data
  <2>2. a \in DOMAIN ram
    BY <1>3, <2>1 DEF Cell
  <2> QED
    BY <2>2 DEF Cell, RamInv
<1>5. ram # <<>> /\ DOMAIN ram = 1..Len(ram) /\ Len(ram) \in Nat
  BY <1>4 DEF RamInv
<1>6. a # 1 /\ a # Len(ram)
  BY <1>3, <1>4, <1>5 DEF RamInv
<1>7. a + 1 \in DOMAIN ram
  <2>1. a \in 1..Len(ram)
    BY <1>4, <1>5
  <2>2. \A k \in Nat : a \in 1..k /\ a # k => a + 1 \in 1..k
    OBVIOUS
  <2>3. a + 1 \in 1..Len(ram)
    BY <1>5, <1>6, <2>1, <2>2, Zenon
  <2> QED
    BY <1>5, <2>3
<1>8. Cell(a + 1) = ram[a + 1] /\ ram[a + 1] \in Cells
  BY <1>7 DEF Cell, RamInv
<1>9. a + 1 # Len(ram)
  BY <1>3, <1>5, <1>8 DEF RamInv
<1>10. ram[a].r \in RegisterNames /\ ram[a].i \in 0..MaxWords
  BY <1>3, <1>4, CellKinds
<1>11. ram[a + 1].v \in Values
  BY <1>3, <1>8, CellKinds
<1> QED
  BY <1>1, <1>2, <1>3, <1>4, <1>6, <1>7, <1>8, <1>9, <1>10, <1>11

LEMMA ExecuteTypes ==
    ASSUME RamInv, ApbInv, NEW f, f = NextCommand, WellFormed(f), NEW l \in Nat,
           NEW p \in {"command", "poll"}, Execute(f, l, p)
    PROVE  ApbInv'
<1>0. CommandsPerWord \in Nat \ {0}
  BY I2cAssumption
<1>1. /\ f.address \in Nat \ {0} /\ f.bit \in 0..(CommandsPerWord - 1)
      /\ f.word \in Seq(OpNames \cup {"ERROR"})
  BY NextTypes
<1>2. CommandAt(f) \in OpNames /\ ram[f.address].r \in RegisterNames
  BY WellFormedTypes
<1>3. apb' = [pc |-> p, word |-> f.word, bit |-> f.bit + 1, address |-> f.address + l]
  BY DEF Execute
<1>4. f.bit + 1 \in 0..CommandsPerWord /\ f.address + l \in Nat \ {0}
  BY <1>0, <1>1
<1>5. apb' \in [pc : {"idle", "command", "poll", "derailed"}, address : Nat \ {0},
                word : Seq(OpNames \cup {"ERROR"}), bit : 0..CommandsPerWord]
  BY <1>1, <1>3, <1>4
<1>6. PICK e : e = <<CommandAt(f), ram[f.address].r>>
  BY Zenon
<1>7. e \in OpNames \X RegisterNames /\ ran' = Append(ran, e)
  BY <1>2, <1>6 DEF Execute
<1>8. ran' \in Seq(OpNames \X RegisterNames)
  BY <1>7 DEF ApbInv
<1> QED
  BY <1>5, <1>8 DEF ApbInv

LEMMA HostShaped ==
    ASSUME HostInv, NEW h \in Hosts, InTx(host[h]) \/ host[h].code = "ok"
    PROVE  /\ Shaped(host[h].tx, host[h].w, host[h].r) /\ host[h].tx \in 1..begun
           /\ asked[host[h].tx] = <<host[h].w, host[h].r>>
<1>1. /\ host[h].tx \in 0..MaxTx /\ host[h].w \in 0..MaxWords /\ host[h].r \in 0..MaxWords
      /\ host[h].tx <= begun /\ begun \in 0..MaxTx /\ MaxTx \in Nat
      /\ host[h].tx # 0 /\ asked[host[h].tx] = <<host[h].w, host[h].r>>
      /\ \A t \in 1..begun : asked[t] \in Shapes
  <2>1. host[h] \in HostRecords /\ HostOK(h, host[h]) /\ HistoryInv
    BY DEF HostInv
  <2> QED
    BY <2>1, I2cAssumption DEF HostRecords, HostOK, HistoryInv
<1>2. host[h].tx \in 1..begun /\ host[h].tx \in Txs
  BY <1>1 DEF Txs
<1> QED
  BY <1>1, <1>2 DEF Shaped

RamMade(m, b) ==
    /\ m \in Seq(Cells) /\ m # <<>> /\ m[1].c = "command" /\ m[Len(m)].c = "end"
    /\ Len(b) <= Len(m) /\ Len(ram) <= Len(m)
    /\ \A i \in 1..Len(b) : m[i] = b[i]

LEMMA RamWritten ==
    ASSUME RamInv, NEW t, NEW w, NEW r, Shaped(t, w, r), NEW b, b = Buffer[t][<<w, r>>],
           NEW m, m = b \o SubSeq(ram, Len(b) + 1, Len(ram))
    PROVE  RamMade(m, b)
<1>1. Layout(t, w, r, b)
  BY BufferLayout
<1>2. /\ b \in Seq(Cells) /\ b[1].c = "command" /\ b[Len(b)].c = "end" /\ Len(b) \in Nat
      /\ Len(b) > 1
  <2>1. b \in Seq(Cells) /\ b[1].c = "command" /\ b[Len(b)] = EndMark
    BY <1>1, Zenon DEF Layout
  <2>2. Calls(w, r) \in Nat
    BY SequencerStep DEF Shaped
  <2>3. 0 \in 0..Calls(w, r)
    BY <2>2
  <2>4. Pos(t, w, r, 0) = 1 /\ Pos(t, w, r, 0) < Len(b)
    BY <1>1, <2>3 DEF Layout
  <2> QED
    BY <2>1, <2>4, CellsMade
<1>3. ram \in Seq(Cells) /\ Len(ram) \in Nat
  BY DEF RamInv
<1>4. PICK s, k, n : s = SubSeq(ram, Len(b) + 1, Len(ram)) /\ k = Len(ram) /\ n = Len(b)
  BY Zenon
<1>4a. k \in Nat /\ n \in Nat /\ n > 1
  BY <1>2, <1>3, <1>4
<1>5. /\ s \in Seq(Cells)
      /\ Len(s) = IF n < k THEN k - n ELSE 0
      /\ n < k => s[k - n] = ram[k]
  <2>1. CASE n < k
    <3>1. n + 1 \in 1..(k + 1) /\ k \in n..k /\ (n + 1) - 1 = n /\ (k - (n + 1)) + 1 = k - n
          /\ k - n \in 1..(k - n) /\ ((n + 1) + (k - n)) - 1 = k
      BY <1>4a, <2>1
    <3>2. PICK a : a = n + 1
      OBVIOUS
    <3>3. a \in 1..(Len(ram) + 1) /\ k \in (a - 1)..Len(ram) /\ a <= k
      BY <1>4, <1>4a, <2>1, <3>1, <3>2
    <3>4. s = SubSeq(ram, a, k)
      BY <1>4, <3>2
    <3>5. /\ s \in Seq(Cells) /\ Len(s) = (k - a) + 1
          /\ \A i \in 1..((k - a) + 1) : s[i] = ram[(a + i) - 1]
      BY <1>3, <3>3, <3>4, SubSeqProperties
    <3>6. k - n \in 1..((k - a) + 1) /\ (a + (k - n)) - 1 = k /\ (k - a) + 1 = k - n
      BY <1>4a, <2>1, <3>2
    <3>7. s[k - n] = ram[(a + (k - n)) - 1]
      BY <3>5, <3>6
    <3> QED
      BY <2>1, <3>5, <3>6, <3>7
  <2>2. CASE ~(n < k)
    <3>1. n + 1 > k /\ n + 1 \in Int /\ k \in Int
      BY <1>4a, <2>2
    <3>2. s = <<>>
      BY <1>3, <1>4, <3>1, SubSeqEmpty, Zenon
    <3> QED
      BY <2>2, <3>2
  <2> QED
    BY <2>1, <2>2
<1>6. m = b \o s
  BY <1>4
<1>7. /\ m \in Seq(Cells) /\ Len(m) = n + Len(s)
      /\ \A i \in 1..n : m[i] = b[i]
      /\ \A i \in (n + 1)..(n + Len(s)) : m[i] = s[i - n]
  <2>1. m \in Seq(Cells) /\ Joined(m, b, s)
    BY <1>2, <1>5, <1>6, Concatenated, Zenon
  <2> QED
    BY <1>4, <2>1, Zenon DEF Joined
<1>7a. PICK y, z : y = Len(m) /\ z = Len(s)
  BY Zenon
<1>7b. z = (IF n < k THEN k - n ELSE 0) /\ y = n + z
  BY <1>5, <1>7, <1>7a
<1>8. n <= y /\ k <= y /\ m # <<>>
  <2>1. n <= y /\ k <= y /\ y # 0
    BY <1>4a, <1>7b
  <2> QED
    BY <1>7a, <2>1, Zenon
<1>9. m[1].c = "command"
  <2>1. 1 \in 1..n
    BY <1>4a
  <2> QED
    BY <1>2, <1>7, <2>1, Zenon
<1>10. m[Len(m)].c = "end"
  <2>1. CASE n < k
    <3>1. z = k - n /\ y = k /\ k \in (n + 1)..(n + z)
      BY <1>4a, <1>7b, <2>1
    <3>2. m[k] = s[k - n] /\ s[k - n] = ram[k]
      BY <1>5, <1>7, <1>7a, <2>1, <3>1, Zenon
    <3>3. ram # <<>>
      BY <1>4, <1>4a, <2>1
    <3> QED
      BY <1>4, <1>7a, <3>1, <3>2, <3>3, Zenon DEF RamInv
  <2>2. CASE ~(n < k)
    <3>1. y = n /\ n \in 1..n
      BY <1>4a, <1>7b, <2>2
    <3>2. m[n] = b[n]
      BY <1>7, <3>1, Zenon
    <3> QED
      BY <1>2, <1>4, <1>7a, <3>1, <3>2, Zenon
  <2> QED
    BY <2>1, <2>2, Zenon
<1> QED
  BY <1>4, <1>7, <1>7a, <1>8, <1>9, <1>10, Zenon DEF RamMade

LEMMA RamStep == ASSUME RamInv, ApbInv, ControllerInv, HostInv, I2cNext PROVE RamInv'
<1>1. CASE UNCHANGED <<ram, queue>>
  BY <1>1 DEF RamInv
<1>2. CASE ApbTake
  BY <1>2 DEF ApbTake, RamInv
<1>3. CASE ApbRead
  <2>1. PICK f : f = NextCommand
    OBVIOUS
  <2>2. WellFormed(f) /\ queue' = queue
    BY <1>3, <2>1 DEF ApbRead, ApbAt
  <2>3. PICK j, v : /\ j = f.address + 1
                    /\ v = IF ram[f.address].r = "status" THEN Status(regs.status)
                           ELSE IF ram[f.address].i \in DOMAIN regs.data
                                THEN regs.data[ram[f.address].i] ELSE Zero
                    /\ ram' = [ram EXCEPT ![j] = Data(v)]
    BY <1>3, <2>1, Zenon DEF ApbRead
  <2>4. v \in Values
    <3>1. regs.status \in SUBSET Flags /\ regs.data \in Seq(Values)
      BY DEF ControllerInv
    <3>2. \A i \in DOMAIN regs.data : regs.data[i] \in Values
      BY <3>1
    <3> QED
      BY <2>3, <3>1, <3>2, ValueTypes
  <2>5. j \in DOMAIN ram /\ f.address \in DOMAIN ram /\ f.address \in Nat \ {0} /\ j # Len(ram)
    BY <2>1, <2>2, <2>3, WellFormedTypes, NextTypes
  <2>6. j # 1
    BY <2>3, <2>5
  <2>7. Data(v) \in Cells /\ ram \in Seq(Cells)
    BY <2>4, CellsMade DEF RamInv
  <2>8. ram' \in Seq(Cells) /\ Len(ram') = Len(ram) /\ \A i \in DOMAIN ram : i # j => ram'[i] = ram[i]
    BY <2>3, <2>5, <2>7
  <2>9. ram # <<>> /\ 1 \in DOMAIN ram /\ Len(ram) \in DOMAIN ram
    BY <2>5, <2>7
  <2>10. ram'[1] = ram[1] /\ ram'[Len(ram')] = ram[Len(ram)] /\ ram' # <<>>
    BY <2>5, <2>6, <2>8, <2>9
  <2> QED
    BY <2>2, <2>8, <2>9, <2>10 DEF RamInv
<1>4. ASSUME NEW h \in Hosts, Enable(h) PROVE RamInv'
  <2>1. PICK t, w, r : t = host[h].tx /\ w = host[h].w /\ r = host[h].r
    OBVIOUS
  <2>2. PICK b : b = Buffer[t][<<w, r>>]
    OBVIOUS
  <2>3. ram' = b \o SubSeq(ram, Len(b) + 1, Len(ram)) /\ queue' = queue /\ host[h].pc = "enable"
    BY <1>4, <2>1, <2>2, Zenon DEF Enable
  <2>4. Shaped(t, w, r)
    BY <2>1, <2>3, HostShaped DEF InTx
  <2>5. ram' \in Seq(Cells) /\ ram' # <<>> /\ ram'[1].c = "command" /\ ram'[Len(ram')].c = "end"
    <3>1. PICK m : m = b \o SubSeq(ram, Len(b) + 1, Len(ram))
      BY Zenon
    <3>2. RamMade(m, b)
      BY <2>2, <2>4, <3>1, RamWritten, Zenon
    <3> QED
      BY <2>3, <3>1, <3>2, Zenon DEF RamMade
  <2> QED
    BY <2>3, <2>5, Zenon DEF RamInv
<1>5. ASSUME NEW h \in Hosts, Trigger(h) PROVE RamInv'
  <2>1. host[h].pc = "trigger" /\ ram' = ram /\ queue' \in Nat
    BY <1>5 DEF Trigger, RamInv
  <2>2. ram # <<>>
    <3>1. PICK t, w, r, b : t = host[h].tx /\ w = host[h].w /\ r = host[h].r /\ b = Buffer[t][<<w, r>>]
      BY Zenon
    <3>2. Shaped(t, w, r)
      BY <2>1, <3>1, HostShaped DEF InTx
    <3>3. Len(b) <= Len(ram)
      BY <2>1, <3>1 DEF HostInv, HostOK, Enabled
    <3>4. RamInv /\ Layout(t, w, r, b)
      BY <3>1, <3>2, BufferLayout
    <3>5. Len(b) > 1
      <4>1. 0 \in 0..Calls(w, r)
        BY <3>2, SequencerStep DEF Shaped
      <4> QED
        BY <3>4, <4>1 DEF Layout
    <3>6. Len(b) \in Nat /\ Len(ram) \in Nat
      BY <3>4 DEF Layout, RamInv
    <3>7. Len(ram) # 0
      BY <3>3, <3>5, <3>6
    <3> QED
      BY <3>7
  <2> QED
    BY <2>1, <2>2 DEF RamInv
<1>6. CASE ApbDone \/ ApbDerail \/ ApbWrite \/ ApbControl \/ ApbPoll \/ ApbPolled
  BY <1>1, <1>6 DEF ApbDone, ApbDerail, ApbWrite, ApbControl, ApbPoll, ApbPolled
<1>7. CASE Controller
  BY <1>1, <1>7 DEF Controller, I2cStart, I2cAnswer, I2cFail
<1>8. ASSUME NEW h \in Hosts,
             BeginTx(h) \/ TakeLock(h) \/ Poll(h) \/ Clear(h) \/ ReadWord(h) \/ GiveUp(h)
      PROVE  RamInv'
  BY <1>1, <1>8, Zenon DEF BeginTx, TakeLock, Poll, Clear, ReadWord, GiveUp, deviceVars
<1> QED
  BY <1>2, <1>3, <1>4, <1>5, <1>6, <1>7, <1>8 DEF I2cNext, Apb, I2cProceed

LEMMA ApbStep == ASSUME RamInv, ApbInv, ControllerInv, I2cNext PROVE ApbInv'
<1>0. CommandsPerWord \in Nat \ {0} /\ IdleApb = [pc |-> "idle", address |-> 1, word |-> <<>>, bit |-> 0]
  BY I2cAssumption DEF IdleApb
<1>1. CASE UNCHANGED <<apb, ran>>
  BY <1>1 DEF ApbInv
<1>2. CASE ApbTake
  <2>1. ram # <<>> /\ ram[1] \in Cells /\ ram[1].c = "command"
    <3>1. queue > 0
      BY <1>2 DEF ApbTake
    <3>2. ram # <<>> /\ ram[1].c = "command" /\ ram \in Seq(Cells)
      BY <3>1 DEF RamInv
    <3> QED
      BY <3>2
  <2>2. PICK o : o = ram[1].ops
    OBVIOUS
  <2>3. o \in Seq(OpNames)
    BY <2>1, <2>2, CellKinds
  <2>4. o \in Seq(OpNames \cup {"ERROR"})
    BY <2>3
  <2>5. apb' = [pc |-> "command", address |-> 2, word |-> o, bit |-> 0] /\ ran' = <<>>
    BY <1>0, <1>2, <2>2, Zenon DEF ApbTake
  <2> QED
    BY <1>0, <2>4, <2>5 DEF ApbInv
<1>3. CASE ApbDone
  <2>1. apb' = [pc |-> "idle", address |-> 1, word |-> <<>>, bit |-> 0] /\ ran' = ran
    BY <1>0, <1>3 DEF ApbDone, historyVars
  <2> QED
    BY <1>0, <2>1 DEF ApbInv
<1>4. CASE ApbDerail
  <2>1. apb' = [pc |-> "derailed", address |-> 1, word |-> <<>>, bit |-> 0] /\ ran' = ran
    BY <1>0, <1>4 DEF ApbDerail, historyVars
  <2> QED
    BY <1>0, <2>1 DEF ApbInv
<1>5. CASE ApbWrite \/ ApbRead \/ ApbPoll
  <2>1. PICK f : f = NextCommand
    OBVIOUS
  <2>2. WellFormed(f) /\ (Execute(f, 2, "command") \/ Execute(f, 3, "poll"))
    BY <1>5, <2>1 DEF ApbWrite, ApbRead, ApbPoll, ApbAt
  <2> QED
    BY <2>1, <2>2, ExecuteTypes
<1>6. CASE ApbControl
  <2>1. PICK f : f = NextCommand
    OBVIOUS
  <2>2. WellFormed(f) /\ MutexFree
    BY <1>6, <2>1 DEF ApbControl, ApbAt
  <2>3. "BUSY" \notin regs.status
    BY <2>2 DEF MutexFree, ControllerInv
  <2>4. Execute(f, 2, "command")
    BY <1>6, <2>1, <2>3 DEF ApbControl
  <2> QED
    BY <2>1, <2>2, <2>4, ExecuteTypes
<1>7. CASE ApbPolled
  BY <1>7 DEF ApbPolled, historyVars, ApbInv
<1>8. CASE Controller
  BY <1>1, <1>8 DEF Controller, I2cStart, I2cAnswer, I2cFail, historyVars
<1>9. ASSUME NEW h \in Hosts, BeginTx(h) \/ I2cProceed(h) PROVE ApbInv'
  BY <1>1, <1>9, Zenon DEF I2cProceed, BeginTx, TakeLock, Enable, Trigger, Poll, Clear, ReadWord, GiveUp,
                    deviceVars, historyVars
<1> QED
  BY <1>2, <1>3, <1>4, <1>5, <1>6, <1>7, <1>8, <1>9 DEF I2cNext, Apb

LEMMA ControllerStep == ASSUME RamInv, ApbInv, ControllerInv, I2cNext PROVE ControllerInv'
<1>0. MaxWords \in Nat
  BY DEF MaxWords
<1>1. CASE UNCHANGED <<regs, ctrl>>
  BY <1>1 DEF ControllerInv
<1>2. CASE ApbWrite
  <2>1. PICK f, v, n, target : /\ f = NextCommand /\ v = ram[f.address + 1].v /\ n = ram[f.address].i
                            /\ target = ram[f.address].r
    OBVIOUS
  <2>2. WellFormed(f) /\ ctrl' = ctrl
    BY <1>2, <2>1 DEF ApbWrite, ApbAt
  <2>3. v \in Values /\ n \in 0..MaxWords
    BY <2>1, <2>2, WellFormedTypes
  <2>4. regs' = CASE target = "num_bytes" -> [regs EXCEPT !.num_bytes = v]
                  [] target = "data" -> [regs EXCEPT !.data = PutWord(@, n, v)]
                  [] OTHER -> regs
    BY <1>2, <2>1 DEF ApbWrite
  <2>5. PutWord(regs.data, n, v) \in Seq(Values)
    <3>1. PICK d, k : d = regs.data /\ k = Len(d)
      BY Zenon
    <3>2. d \in Seq(Values) /\ k \in Nat /\ DOMAIN d = 1..k /\ \A i \in 1..k : d[i] \in Values
      BY <3>1 DEF ControllerInv
    <3>3. PICK l \in Nat : l = IF n > k THEN n ELSE k
      BY <1>0, <2>3, <3>2
    <3>4. PutWord(d, n, v) = [i \in 1..l |-> IF i = n THEN v ELSE IF i \in DOMAIN d THEN d[i] ELSE Zero]
      BY <3>1, <3>3 DEF PutWord
    <3>5. \A i \in 1..l : (IF i = n THEN v ELSE IF i \in DOMAIN d THEN d[i] ELSE Zero) \in Values
      BY <2>3, <3>2, ValueTypes
    <3> QED
      BY <3>1, <3>4, <3>5
  <2> QED
    BY <2>2, <2>3, <2>4, <2>5, Zenon DEF ControllerInv
<1>3. CASE ApbControl
  <2>1. PICK f, v : f = NextCommand /\ v = ram[f.address + 1].v
    OBVIOUS
  <2>2. WellFormed(f) /\ CommandAt(f) = "WR" /\ ram[f.address].r = "control" /\ ctrl.pc = "wait"
    BY <1>3, <2>1 DEF ApbControl, ApbAt, MutexFree
  <2>3. v \in Values /\ v.k \in Writable("control")
    BY <2>1, <2>2, WellFormedTypes
  <2>4. v.t \in (IF v.k = "start" THEN Txs ELSE {0}) /\ v.t \in Nat /\ v.k \in {"zero", "start"}
    BY <2>3, ValueTypes DEF Writable
  <2>5. "BUSY" \notin regs.status
    BY <2>2 DEF ControllerInv
  <2>6. /\ ctrl' = [ctrl EXCEPT !.cmd = v.k = "start", !.peripheral = v.t]
        /\ regs' = IF v.k = "zero" THEN [regs EXCEPT !.status = {}] ELSE regs
    BY <1>3, <2>1, <2>5 DEF ApbControl
  <2>7. /\ ctrl'.pc = "wait" /\ ctrl'.cmd = (v.k = "start") /\ ctrl'.peripheral = v.t
        /\ ctrl' \in [cmd : BOOLEAN, peripheral : Nat, pc : {"wait", "execute"}, words : Seq(Values)]
    BY <2>2, <2>4, <2>6, Zenon DEF ControllerInv
  <2>8. /\ regs' \in [num_bytes : Values, status : SUBSET Flags, data : Seq(Values)]
        /\ "BUSY" \notin regs'.status
    BY <2>5, <2>6 DEF ControllerInv
  <2> QED
    BY <2>4, <2>7, <2>8 DEF ControllerInv
<1>4. CASE I2cStart
  <2>1. PICK w, d : w = regs.num_bytes.t /\ d = regs.data
    OBVIOUS
  <2>2. w \in Nat /\ d \in Seq(Values)
    BY <2>1, ValueTypes DEF ControllerInv
  <2>3. PICK u : u = [i \in 1..w |-> IF i \in DOMAIN d THEN d[i] ELSE Zero]
    BY Zenon
  <2>4. u \in Seq(Values)
    <3>1. \A i \in 1..w : (IF i \in DOMAIN d THEN d[i] ELSE Zero) \in Values
      BY <2>2, ValueTypes
    <3> QED
      BY <2>2, <2>3, <3>1
  <2>5. /\ ctrl.cmd /\ regs' = [regs EXCEPT !.status = {"BUSY"}]
        /\ ctrl' = [ctrl EXCEPT !.pc = "execute", !.words = u]
    BY <1>4, <2>1, <2>3 DEF I2cStart
  <2>6. "BUSY" \in Flags
    BY DEF Flags
  <2> QED
    BY <2>4, <2>5, <2>6, Zenon DEF ControllerInv
<1>5. CASE I2cAnswer
  <2>1. PICK t, r, d, k : t = ctrl.peripheral /\ r = regs.num_bytes.i /\ d = regs.data /\ k = Len(d)
    BY Zenon
  <2>2. /\ t \in Nat /\ r \in 0..MaxWords /\ d \in Seq(Values) /\ k \in Nat /\ r \in Nat
        /\ \A i \in 1..k : d[i] \in Values
    BY <1>0, <2>1, ValueTypes DEF ControllerInv
  <2>3. PICK l \in Nat : l = IF r > k THEN r ELSE k
    BY <2>2
  <2>4. PICK u : u = [i \in 1..l |-> IF i <= r THEN Val("answer", t, i) ELSE d[i]]
    BY Zenon
  <2>5. u \in Seq(Values)
    <3>1. ASSUME NEW i \in 1..l PROVE (IF i <= r THEN Val("answer", t, i) ELSE d[i]) \in Values
      <4>1. CASE i <= r
        <5>1. i \in 0..MaxWords
          BY <1>0, <2>2, <4>1
        <5> QED
          BY <2>2, <4>1, <5>1, ValueTypes
      <4>2. CASE ~(i <= r)
        <5>1. i \in 1..k
          BY <2>2, <2>3, <4>2
        <5> QED
          BY <2>2, <4>2, <5>1
      <4> QED
        BY <4>1, <4>2
    <3> QED
      BY <2>4, <3>1
  <2>6. PICK s \in {{"DONE"}, {"DONE", "NAK"}, {"DONE", "I2C_ERR"}} :
           regs' = [regs EXCEPT !.status = s, !.data = u]
    BY <1>5, <2>1, <2>3, <2>4, Zenon DEF I2cAnswer
  <2>7. s \in SUBSET Flags /\ "BUSY" \notin s
    BY <2>6 DEF Flags
  <2>8. ctrl' = [cmd |-> FALSE, peripheral |-> 0, pc |-> "wait", words |-> <<>>]
    BY <1>5 DEF I2cAnswer, AfterDone
  <2> QED
    <3>1. /\ regs' \in [num_bytes : Values, status : SUBSET Flags, data : Seq(Values)]
          /\ "BUSY" \notin regs'.status
      BY <2>5, <2>6, <2>7, Zenon DEF ControllerInv
    <3>2. /\ ctrl' \in [cmd : BOOLEAN, peripheral : Nat, pc : {"wait", "execute"}, words : Seq(Values)]
          /\ ctrl'.peripheral = 0 /\ ctrl'.cmd = FALSE /\ ctrl'.pc = "wait"
      BY <2>8
    <3> QED
      BY <3>1, <3>2 DEF ControllerInv
<1>6. CASE I2cFail
  <2>1. /\ regs' = [regs EXCEPT !.status = {"I2C_ERR"}]
        /\ ctrl' = [ctrl EXCEPT !.pc = "wait", !.words = <<>>]
    BY <1>6 DEF I2cFail
  <2> QED
    <3>1. {"I2C_ERR"} \in SUBSET Flags /\ "BUSY" \notin {"I2C_ERR"}
      BY DEF Flags
    <3>2. /\ regs' \in [num_bytes : Values, status : SUBSET Flags, data : Seq(Values)]
          /\ "BUSY" \notin regs'.status
      BY <2>1, <3>1 DEF ControllerInv
    <3>3. /\ ctrl' \in [cmd : BOOLEAN, peripheral : Nat, pc : {"wait", "execute"}, words : Seq(Values)]
          /\ ctrl'.peripheral = ctrl.peripheral /\ ctrl'.cmd = ctrl.cmd /\ ctrl'.pc = "wait"
      <4>1. ctrl \in [cmd : BOOLEAN, peripheral : Nat, pc : {"wait", "execute"}, words : Seq(Values)]
            /\ <<>> \in Seq(Values)
        BY DEF ControllerInv
      <4> QED
        BY <2>1, <4>1, Zenon
    <3> QED
      BY <3>2, <3>3 DEF ControllerInv
<1>7. CASE ApbTake \/ ApbDone \/ ApbDerail \/ ApbRead \/ ApbPoll \/ ApbPolled
  BY <1>1, <1>7 DEF ApbTake, ApbDone, ApbDerail, ApbRead, ApbPoll, ApbPolled
<1>8. ASSUME NEW h \in Hosts, BeginTx(h) \/ I2cProceed(h) PROVE ControllerInv'
  BY <1>1, <1>8, Zenon DEF I2cProceed, BeginTx, TakeLock, Enable, Trigger, Poll, Clear, ReadWord, GiveUp,
                    deviceVars
<1> QED
  BY <1>2, <1>3, <1>4, <1>5, <1>6, <1>7, <1>8 DEF I2cNext, Apb, Controller

-----------------------------------------------------------------------------
(* The hosts. *)

LEMMA WordNumbers == \A n \in 0..MaxWords : n \in Nat
BY DEF MaxWords

LEMMA BufferLength ==
    ASSUME NEW t, NEW w, NEW r, Shaped(t, w, r)
    PROVE  Len(Buffer[t][<<w, r>>]) \in Nat /\ Len(Buffer[t][<<w, r>>]) > 1
<1>1. PICK b : b = Buffer[t][<<w, r>>]
  OBVIOUS
<1>2. Layout(t, w, r, b)
  BY <1>1, BufferLayout
<1>3. 0 \in 0..Calls(w, r)
  BY SequencerStep DEF Shaped
<1>4. Pos(t, w, r, 0) = 1 /\ Pos(t, w, r, 0) < Len(b) /\ b \in Seq(Cells)
  BY <1>2, <1>3 DEF Layout
<1>5. Len(b) \in Nat
  BY <1>4
<1> QED
  BY <1>1, <1>4, <1>5

LEMMA HostKept ==
    ASSUME HostInv, NEW g \in Hosts, NEW c, c = host[g],
           begun \in Nat, begun' \in Nat, begun <= begun',
           \A t \in 1..begun : asked'[t] = asked[t],
           c.pc \in {"lock", "enable", "trigger"} => triggers'[c.tx] = triggers[c.tx],
           Locked(c) => lock' = lock,
           Len(ram) \in Nat, Len(ram') \in Nat, Len(ram) <= Len(ram')
    PROVE  HostOK(g, c)'
<1>1. HostOK(g, c) /\ c \in HostRecords
  BY DEF HostInv
<1>2. c.tx <= begun'
  BY <1>1 DEF HostOK, HostRecords
<1>3. InTx(c) \/ c.code = "ok" => asked'[c.tx] = asked[c.tx]
  BY HostShaped
<1>4. Enabled(c) => Len(Buffer[c.tx][<<c.w, c.r>>]) <= Len(ram')
  <2>1. SUFFICES ASSUME Enabled(c) PROVE Len(Buffer[c.tx][<<c.w, c.r>>]) <= Len(ram')
    OBVIOUS
  <2>2. InTx(c)
    BY <2>1 DEF InTx, Enabled
  <2>3. Shaped(c.tx, c.w, c.r)
    BY <2>2, HostShaped
  <2>4. Len(Buffer[c.tx][<<c.w, c.r>>]) \in Nat
    BY <2>3, BufferLength
  <2>5. Len(Buffer[c.tx][<<c.w, c.r>>]) <= Len(ram)
    BY <1>1, <2>1 DEF HostOK
  <2> QED
    BY <2>4, <2>5
<1> QED
  BY <1>1, <1>2, <1>3, <1>4 DEF HostOK

\* The length of the memory only grows.
LEMMA RamGrows ==
    ASSUME MemoryInv, HostInv, I2cNext PROVE Len(ram) \in Nat /\ Len(ram') \in Nat /\ Len(ram) <= Len(ram')
<1>1. RamInv' /\ RamInv
  BY RamStep DEF MemoryInv
<1>2. Len(ram) \in Nat /\ Len(ram') \in Nat
  BY <1>1 DEF RamInv
<1>3. CASE ram' = ram
  BY <1>2, <1>3
<1>4. CASE ApbRead
  <2>1. PICK j, x : ram' = [ram EXCEPT ![j] = x]
    BY <1>4, Zenon DEF ApbRead
  <2>2. DOMAIN ram' = DOMAIN ram
    BY <2>1, <1>1 DEF RamInv
  <2>3. DOMAIN ram = 1..Len(ram) /\ DOMAIN ram' = 1..Len(ram')
    BY <1>1 DEF RamInv
  <2>4. \A m, n \in Nat : 1..m = 1..n => m <= n
    <3>1. ASSUME NEW m \in Nat, NEW n \in Nat, 1..m = 1..n PROVE m <= n
      <4>1. m = 0 \/ m \in 1..m
        OBVIOUS
      <4> QED
        BY <3>1, <4>1
    <3> QED
      BY <3>1
  <2> QED
    BY <1>2, <2>2, <2>3, <2>4
<1>5. ASSUME NEW h \in Hosts, Enable(h) PROVE Len(ram) <= Len(ram')
  <2>1. PICK t, w, r : t = host[h].tx /\ w = host[h].w /\ r = host[h].r
    OBVIOUS
  <2>2. PICK b, m : b = Buffer[t][<<w, r>>] /\ m = b \o SubSeq(ram, Len(b) + 1, Len(ram))
    BY Zenon
  <2>3. ram' = m /\ host[h].pc = "enable"
    BY <1>5, <2>1, <2>2, Zenon DEF Enable
  <2>4. Shaped(t, w, r)
    BY <2>1, <2>3, HostShaped DEF InTx
  <2>5. RamMade(m, b)
    BY <1>1, <2>2, <2>4, RamWritten, Zenon
  <2> QED
    BY <2>3, <2>5 DEF RamMade
<1> QED
  BY <1>2, <1>3, <1>4, <1>5, Zenon
     DEF I2cNext, Apb, Controller, I2cProceed, ApbTake, ApbDone, ApbDerail, ApbWrite, ApbControl,
         ApbPoll, ApbPolled, I2cStart, I2cAnswer, I2cFail, BeginTx, TakeLock, Trigger, Poll, Clear,
         ReadWord, GiveUp, deviceVars

\* Only the record of h changes.
LEMMA HostChanged ==
    ASSUME HostInv, NEW h \in Hosts, NEW c \in HostRecords, host' = [host EXCEPT ![h] = c]
    PROVE  /\ host' \in [Hosts -> HostRecords] /\ host'[h] = c
           /\ \A g \in Hosts : g # h => host'[g] = host[g]
<1>1. host \in [Hosts -> HostRecords]
  BY DEF HostInv
<1> QED
  BY <1>1

\* Of the hosts only h is between taking the lock and giving it back.
LEMMA OneHolder ==
    ASSUME HostInv, NEW h \in Hosts, Locked(host[h]) \/ lock = NoHost, NEW g \in Hosts, Locked(host[g])
    PROVE  g = h
<1>1. NoHost \notin Hosts
  BY I2cAssumption
<1> QED
  BY <1>1, Zenon DEF HostInv, HostOK

LEMMA HostUpdated ==
    ASSUME HostInv, NEW h \in Hosts, NEW c \in HostRecords, host' = [host EXCEPT ![h] = c],
           lock' \in Hosts \cup {NoHost}, HistoryInv', HostOK(h, c)',
           begun <= begun', \A t \in 1..begun : asked'[t] = asked[t],
           \A g \in Hosts : g # h /\ host[g].pc \in {"lock", "enable", "trigger"} =>
                               triggers'[host[g].tx] = triggers[host[g].tx],
           \A g \in Hosts : g # h /\ Locked(host[g]) => lock' = lock,
           Len(ram) \in Nat, Len(ram') \in Nat, Len(ram) <= Len(ram'),
           InTx(c) => (InTx(host[h]) /\ c.tx = host[h].tx) \/ c.tx > begun
    PROVE  HostInv'
<1>1. /\ host' \in [Hosts -> HostRecords] /\ host'[h] = c
      /\ \A g \in Hosts : g # h => host'[g] = host[g]
  BY HostChanged, Zenon
<1>2. begun \in Nat /\ begun' \in Nat
  BY I2cAssumption DEF HostInv, HistoryInv
<1>3. ASSUME NEW g \in Hosts PROVE HostOK(g, host[g])'
  <2>1. CASE g = h
    BY <1>1, <2>1
  <2>2. CASE g # h
    <3>1. PICK d : d = host[g]
      OBVIOUS
    <3>2. HostOK(g, d)'
      BY <1>2, <2>2, <3>1, HostKept
    <3> QED
      BY <1>1, <2>2, <3>1, <3>2
  <2> QED
    BY <2>1, <2>2
<1>4. ASSUME NEW g \in Hosts, NEW k \in Hosts, InTx(host'[g]), InTx(host'[k]), host'[g].tx = host'[k].tx
      PROVE  g = k
  <2>1. \A i \in Hosts : host[i].tx <= begun /\ host[i].tx \in Nat
    <3>1. \A i \in Hosts : host[i] \in HostRecords /\ HostOK(i, host[i])
      BY DEF HostInv
    <3>2. MaxTx \in Nat
      BY I2cAssumption
    <3>3. ASSUME NEW i \in Hosts PROVE host[i].tx <= begun /\ host[i].tx \in Nat
      <4>1. host[i] \in HostRecords /\ host[i].tx <= begun
        BY <3>1, Zenon DEF HostOK
      <4>2. host[i].tx \in 0..MaxTx
        BY <4>1 DEF HostRecords
      <4> QED
        BY <3>2, <4>1, <4>2
    <3> QED
      BY <3>3
  <2>2. \A i, j \in Hosts : InTx(host[i]) /\ InTx(host[j]) /\ host[i].tx = host[j].tx => i = j
    BY DEF HostInv
  <2>3. CASE g # h /\ k # h
    BY <1>1, <1>4, <2>2, <2>3
  <2>4. CASE g = h /\ k = h
    BY <2>4
  <2>5. CASE g = h /\ k # h
    <3>1. InTx(c) /\ InTx(host[k]) /\ c.tx = host[k].tx
      BY <1>1, <1>4, <2>5
    <3>2. ~(c.tx > begun)
      BY <1>2, <2>1, <3>1
    <3> QED
      BY <2>2, <2>5, <3>1, <3>2
  <2>6. CASE g # h /\ k = h
    <3>1. InTx(c) /\ InTx(host[g]) /\ c.tx = host[g].tx
      BY <1>1, <1>4, <2>6
    <3>2. ~(c.tx > begun)
      BY <1>2, <2>1, <3>1
    <3> QED
      BY <2>2, <2>6, <3>1, <3>2
  <2> QED
    BY <2>3, <2>4, <2>5, <2>6
<1> QED
  BY <1>1, <1>3, <1>4 DEF HostInv, InTx

\* A step of the device leaves the hosts as they are.
LEMMA HostSame ==
    ASSUME MemoryInv, HostInv, I2cNext, HistoryInv',
           UNCHANGED <<host, lock, begun, asked, triggers>>
    PROVE  HostInv'
<1>1. Len(ram) \in Nat /\ Len(ram') \in Nat /\ Len(ram) <= Len(ram')
  BY RamGrows
<1>2. begun \in Nat /\ begun <= begun
  BY I2cAssumption DEF HostInv, HistoryInv
<1>3. ASSUME NEW g \in Hosts PROVE HostOK(g, host[g])'
  <2>1. PICK d : d = host[g]
    OBVIOUS
  <2>2. HostOK(g, d)'
    BY <1>1, <1>2, <2>1, HostKept
  <2> QED
    BY <2>1, <2>2
<1> QED
  BY <1>3 DEF HostInv, InTx

LEMMA HistoryStep == ASSUME MemoryInv, HostInv, I2cNext PROVE HistoryInv'
<1>0. HistoryInv /\ MaxTx \in Nat
  BY I2cAssumption DEF HostInv
<1>1. CASE UNCHANGED <<begun, asked, triggers, runs, repeats, gave_up, overwritten, wrong>>
  BY <1>0, <1>1 DEF HistoryInv
<1>2. ASSUME NEW h \in Hosts, BeginTx(h) PROVE HistoryInv'
  <2>0. PICK n : n = begun'
    OBVIOUS
  <2>1. PICK shape \in Shapes : asked' = [asked EXCEPT ![n] = shape]
    BY <1>2, <2>0, Zenon DEF BeginTx
  <2>2. /\ begun < MaxTx /\ n = begun + 1
        /\ UNCHANGED <<triggers, runs, repeats, gave_up, overwritten, wrong>>
    BY <1>2, <2>0 DEF BeginTx
  <2>3. n \in Txs /\ n \in 0..MaxTx /\ begun \in Nat /\ n = begun + 1
    BY <1>0, <2>2 DEF HistoryInv, Txs
  <2>4. asked' \in [Txs -> Shapes \cup {<<0, 0>>}]
    BY <1>0, <2>1, <2>3 DEF HistoryInv
  <2>5. ASSUME NEW t \in 1..n PROVE asked'[t] \in Shapes
    <3>1. t \in Txs
      BY <1>0, <2>3 DEF Txs
    <3>2. CASE t = n
      BY <1>0, <2>1, <2>3, <3>2 DEF HistoryInv
    <3>3. CASE t # n
      <4>1. t \in 1..begun
        BY <2>3, <3>3
      <4> QED
        BY <1>0, <2>1, <2>3, <3>1, <3>3, <4>1 DEF HistoryInv
    <3> QED
      BY <3>2, <3>3
  <2>6. \A t \in Txs : triggers[t] <= 1 + repeats /\ (t > n => triggers[t] = 0)
    BY <1>0, <2>3 DEF HistoryInv, Txs
  <2> QED
    BY <1>0, <2>0, <2>2, <2>3, <2>4, <2>5, <2>6 DEF HistoryInv
<1>3. ASSUME NEW h \in Hosts, Enable(h) PROVE HistoryInv'
  <2>1. /\ UNCHANGED <<begun, asked, triggers, runs, repeats, wrong>>
        /\ overwritten' \in BOOLEAN
        /\ gave_up' = gave_up \/ gave_up' = TRUE
    BY <1>0, <1>3, Zenon DEF Enable, HistoryInv
  <2> QED
    BY <1>0, <2>1, Zenon DEF HistoryInv
<1>4. ASSUME NEW h \in Hosts, Trigger(h) PROVE HistoryInv'
  <2>0. PICK t : t = host[h].tx
    OBVIOUS
  <2>1. PICK n \in 1..2 : repeats' = repeats + n - 1 /\ triggers' = [triggers EXCEPT ![t] = @ + n]
    BY <1>4, <2>0, Zenon DEF Trigger
  <2>2. /\ UNCHANGED <<begun, asked, runs, overwritten, wrong>>
        /\ gave_up' = gave_up \/ gave_up' = TRUE
        /\ host[h].pc = "trigger"
    BY <1>4 DEF Trigger
  <2>3. triggers[t] = 0 /\ t \in 1..begun /\ t \in Txs
    <3>1. triggers[t] = 0
      BY <2>0, <2>2, Zenon DEF HostInv, HostOK
    <3>2. Shaped(host[h].tx, host[h].w, host[h].r) /\ host[h].tx \in 1..begun
      BY <2>2, HostShaped DEF InTx
    <3> QED
      BY <2>0, <3>1, <3>2 DEF Shaped
  <2>4. repeats' \in Nat /\ repeats <= repeats' /\ n <= 1 + repeats' /\ repeats \in Nat
    BY <1>0, <2>1 DEF HistoryInv
  <2>5. triggers' \in [Txs -> Nat] /\ triggers'[t] = n /\ \A u \in Txs : u # t => triggers'[u] = triggers[u]
    BY <1>0, <2>1, <2>3 DEF HistoryInv
  <2>6. ASSUME NEW u \in Txs PROVE triggers'[u] <= 1 + repeats' /\ (u > begun => triggers'[u] = 0)
    <3>1. CASE u = t
      <4>1. begun \in Nat /\ t <= begun /\ t \in Nat
        BY <1>0, <2>3 DEF HistoryInv
      <4>2. ~(t > begun)
        BY <4>1
      <4> QED
        BY <2>4, <2>5, <3>1, <4>2, Zenon
    <3>2. CASE u # t
      <4>1. triggers[u] <= 1 + repeats /\ (u > begun => triggers[u] = 0) /\ triggers[u] \in Nat
        BY <1>0 DEF HistoryInv
      <4> QED
        BY <2>4, <2>5, <3>2, <4>1
    <3> QED
      BY <3>1, <3>2
  <2> QED
    BY <1>0, <2>2, <2>4, <2>5, <2>6, Zenon DEF HistoryInv
<1>5. CASE I2cAnswer \/ I2cFail
  <2>1. UNCHANGED <<begun, asked, triggers, repeats, gave_up, overwritten>> /\ Given
    BY <1>5 DEF I2cAnswer, I2cFail
  <2>2. ctrl.peripheral \in Txs
    BY <1>5 DEF I2cAnswer, I2cFail, MemoryInv, ControllerInv
  <2>3. runs' \in [Txs -> Nat]
    BY <1>0, <1>5, <2>2 DEF I2cAnswer, I2cFail, HistoryInv
  <2>4. wrong' \in BOOLEAN
    BY <1>0, <2>1 DEF Given, HistoryInv
  <2> QED
    BY <1>0, <2>1, <2>3, <2>4 DEF HistoryInv
<1>6. ASSUME NEW h \in Hosts, GiveUp(h) PROVE HistoryInv'
  <2>1. /\ UNCHANGED <<begun, asked, triggers, runs, repeats, overwritten, wrong>>
        /\ gave_up' = TRUE
    BY <1>6 DEF GiveUp
  <2> QED
    BY <1>0, <2>1 DEF HistoryInv
<1>7. CASE Apb \/ I2cStart
  BY <1>1, <1>7 DEF Apb, ApbTake, ApbDone, ApbDerail, ApbWrite, ApbControl, ApbRead, ApbPoll, ApbPolled,
                    I2cStart, historyVars
<1>8. ASSUME NEW h \in Hosts, TakeLock(h) \/ Poll(h) \/ Clear(h) \/ ReadWord(h) PROVE HistoryInv'
  BY <1>1, <1>8, Zenon DEF TakeLock, Poll, Clear, ReadWord, historyVars
<1> QED
  BY <1>2, <1>3, <1>4, <1>5, <1>6, <1>7, <1>8 DEF I2cNext, Controller, I2cProceed

\* The record of h becomes d, which differs at most in pc, got and code.
Becomes(h, d) ==
    /\ d \in HostRecords /\ host' = [host EXCEPT ![h] = d]
    /\ d.tx = host[h].tx /\ d.w = host[h].w /\ d.r = host[h].r

HostMoves(h, p) ==
    \E d \in HostRecords : Becomes(h, d) /\ d.pc = p /\ d.got = host[h].got /\ d.code = host[h].code

LEMMA GotoMoves ==
    ASSUME HostInv, NEW h \in Hosts,
           NEW p \in {"idle", "lock", "enable", "trigger", "poll", "clear", "read"}
    PROVE  host' = [host EXCEPT ![h].pc = p] => HostMoves(h, p)
<1>1. PICK c : c = host[h]
  OBVIOUS
<1>2. c \in HostRecords /\ host \in [Hosts -> HostRecords]
  BY <1>1 DEF HostInv
<1>3. PICK d : /\ [host EXCEPT ![h].pc = p] = [host EXCEPT ![h] = d] /\ d \in HostRecords /\ d.pc = p
               /\ d.tx = c.tx /\ d.w = c.w /\ d.r = c.r /\ d.got = c.got /\ d.code = c.code
  <2>1. /\ [host EXCEPT ![h].pc = p] = [host EXCEPT ![h] = [c EXCEPT !.pc = p]]
        /\ [c EXCEPT !.pc = p] \in HostRecords /\ [c EXCEPT !.pc = p].pc = p
        /\ [c EXCEPT !.pc = p].tx = c.tx /\ [c EXCEPT !.pc = p].w = c.w
        /\ [c EXCEPT !.pc = p].r = c.r /\ [c EXCEPT !.pc = p].got = c.got
        /\ [c EXCEPT !.pc = p].code = c.code
    BY <1>1, <1>2, Zenon DEF HostRecords
  <2> QED
    BY <2>1, Zenon
<1> QED
  BY <1>1, <1>3, Zenon DEF HostMoves, Becomes

\* A host goes on to p with the lock.
LEMMA HostGoesOn ==
    ASSUME MemoryInv, HostInv, I2cNext, NEW h \in Hosts,
           NEW p \in {"enable", "trigger", "poll", "clear", "read"},
           Locked(host[h]) \/ (host[h].pc = "lock" /\ lock = NoHost),
           host[h].pc \in {"poll", "clear"} \/ p \in {"enable", "trigger", "poll"},
           p = "enable" => host[h].pc = "lock", host[h].pc # "read",
           p = "trigger" => host[h].pc = "enable",
           HostMoves(h, p), lock' = h,
           p # "enable" => Len(Buffer[host[h].tx][<<host[h].w, host[h].r>>]) <= Len(ram'),
           UNCHANGED <<begun, asked>>,
           \A t \in Txs : t # host[h].tx \/ p # "poll" => triggers'[t] = triggers[t]
    PROVE  HostInv'
<1>1. PICK c : c = host[h]
  OBVIOUS
<1>2. PICK d \in HostRecords :
         /\ host' = [host EXCEPT ![h] = d] /\ d.pc = p
         /\ d.tx = c.tx /\ d.w = c.w /\ d.r = c.r /\ d.got = c.got /\ d.code = c.code
  BY <1>1, Zenon DEF HostMoves, Becomes
<1>2a. c \in HostRecords /\ HostOK(h, c)
  BY <1>1 DEF HostInv
<1>3. HistoryInv' /\ Len(ram) \in Nat /\ Len(ram') \in Nat /\ Len(ram) <= Len(ram')
  BY HistoryStep, RamGrows
<1>4. InTx(c)
  BY <1>1 DEF InTx, Locked, Enabled
<1>5. c.tx \in 1..begun /\ c.tx \in Txs
  BY <1>1, <1>4, HostShaped DEF Shaped
<1>6. HostOK(h, d)'
  <2>1. d.tx <= begun' /\ (d.tx # 0 /\ asked'[d.tx] = <<d.w, d.r>>) /\ d.code = "none"
    BY <1>2, <1>2a, <1>4 DEF HostOK
  <2>2. d.pc \in {"lock", "enable", "trigger"} => triggers'[d.tx] = 0
    BY <1>1, <1>2, <1>2a, <1>5 DEF HostOK
  <2>3. Enabled(d) => Len(Buffer[d.tx][<<d.w, d.r>>]) <= Len(ram')
    BY <1>1, <1>2 DEF Enabled
  <2>4. d.got = <<>>
    BY <1>1, <1>2, <1>2a, <1>4 DEF HostOK
  <2>5. d.r \in Nat /\ (Len(d.got) < d.r \/ d.r = 0)
    <3>1. d.r \in Nat
      <4>1. d.r \in 0..MaxWords
        BY <1>2 DEF HostRecords
      <4> QED
        BY <4>1, WordNumbers
    <3> QED
      BY <2>4, <3>1
  <2> QED
    BY <2>1, <2>2, <2>3, <2>4, <2>5 DEF HostOK
<1>7. ASSUME NEW g \in Hosts, g # h, host[g].pc \in {"lock", "enable", "trigger"}
      PROVE  triggers'[host[g].tx] = triggers[host[g].tx]
  <2>1. InTx(host[g])
    BY <1>7 DEF InTx
  <2>2. host[g].tx \in Txs
    BY <2>1, HostShaped, Zenon DEF Shaped
  <2>3. host[g].tx # host[h].tx
    BY <1>1, <1>4, <1>7, <2>1 DEF HostInv
  <2> QED
    BY <2>2, <2>3
<1>8. \A g \in Hosts : g # h /\ Locked(host[g]) => lock' = lock
  BY OneHolder
<1>9. begun \in Nat
  BY I2cAssumption DEF HostInv, HistoryInv
<1>10. begun <= begun' /\ (\A t \in 1..begun : asked'[t] = asked[t]) /\ lock' \in Hosts \cup {NoHost}
  BY <1>9
<1>11. InTx(d) => (InTx(host[h]) /\ d.tx = host[h].tx) \/ d.tx > begun
  BY <1>1, <1>2, <1>4
<1>12. \A g \in Hosts : g # h /\ host[g].pc \in {"lock", "enable", "trigger"} =>
                         triggers'[host[g].tx] = triggers[host[g].tx]
  BY <1>7
<1> QED
  BY <1>2, <1>3, <1>6, <1>8, <1>10, <1>11, <1>12, HostUpdated, Zenon

\* The transaction of h ends.
Leaves(h, code, got) ==
    /\ lock' = NoHost
    /\ \E d \in HostRecords : Becomes(h, d) /\ d.pc = "idle" /\ d.code = code /\ d.got = got

LEMMA ReturnLeaves ==
    ASSUME HostInv, NEW h \in Hosts, NEW code \in {"none", "ok", "nak", "error"},
           NEW got \in Seq(Values), Return(h, code, got)
    PROVE  Leaves(h, code, got)
<1>1. PICK c : c = host[h]
  OBVIOUS
<1>2. c \in HostRecords
  BY <1>1 DEF HostInv
<1>3. PICK d : d = [c EXCEPT !.pc = "idle", !.code = code, !.got = got]
  OBVIOUS
<1>4. /\ d \in HostRecords /\ d.pc = "idle" /\ d.code = code /\ d.got = got
      /\ d.tx = c.tx /\ d.w = c.w /\ d.r = c.r
  BY <1>2, <1>3, Zenon DEF HostRecords
<1>5. host' = [host EXCEPT ![h] = d] /\ lock' = NoHost
  BY <1>1, <1>3, Zenon DEF Return
<1> QED
  BY <1>1, <1>4, <1>5, Zenon DEF Leaves, Becomes

LEMMA ThrowLeaves ==
    ASSUME HostInv, NEW h \in Hosts, Throw(h) PROVE Leaves(h, "error", <<>>)
<1>1. Return(h, "error", <<>>)
  BY Zenon DEF Throw, Return
<1>2. <<>> \in Seq(Values)
  OBVIOUS
<1> QED
  BY <1>1, <1>2, ReturnLeaves, Zenon

LEMMA HostLeaves ==
    ASSUME MemoryInv, HostInv, I2cNext, NEW h \in Hosts, Locked(host[h]), NEW code, NEW got,
           Leaves(h, code, got), UNCHANGED <<begun, asked>>,
           \A t \in Txs : t # host[h].tx => triggers'[t] = triggers[t]
    PROVE  HostInv'
<1>1. PICK d \in HostRecords :
         /\ host' = [host EXCEPT ![h] = d] /\ d.pc = "idle" /\ d.code = code /\ d.got = got
         /\ d.tx = host[h].tx /\ d.w = host[h].w /\ d.r = host[h].r
  BY Zenon DEF Leaves, Becomes
<1>2. HistoryInv' /\ Len(ram) \in Nat /\ Len(ram') \in Nat /\ Len(ram) <= Len(ram')
  BY HistoryStep, RamGrows
<1>3. InTx(host[h]) /\ HostOK(h, host[h])
  BY DEF InTx, Locked, Enabled, HostInv
<1>4. HostOK(h, d)'
  BY <1>1, <1>3 DEF HostOK, InTx, Locked, Enabled
<1>5. ASSUME NEW g \in Hosts, g # h, host[g].pc \in {"lock", "enable", "trigger"}
      PROVE  triggers'[host[g].tx] = triggers[host[g].tx]
  <2>1. InTx(host[g])
    BY <1>5 DEF InTx
  <2>2. host[g].tx \in Txs
    BY <2>1, HostShaped, Zenon DEF Shaped
  <2>3. host[g].tx # host[h].tx
    BY <1>3, <1>5, <2>1 DEF HostInv
  <2> QED
    BY <2>2, <2>3
<1>6. \A g \in Hosts : g # h /\ Locked(host[g]) => lock' = lock
  BY OneHolder
<1>7. begun <= begun' /\ (\A t \in 1..begun : asked'[t] = asked[t]) /\ lock' \in Hosts \cup {NoHost}
  <2>1. begun \in Nat
    BY I2cAssumption DEF HostInv, HistoryInv
  <2> QED
    BY <2>1 DEF Leaves
<1>8. ~InTx(d)
  BY <1>1 DEF InTx
<1>9. \A g \in Hosts : g # h /\ host[g].pc \in {"lock", "enable", "trigger"} =>
                         triggers'[host[g].tx] = triggers[host[g].tx]
  BY <1>5
<1> QED
  BY <1>1, <1>2, <1>4, <1>6, <1>7, <1>8, <1>9, HostUpdated, Zenon

\* A host is in the memory that holds its sequence.
LEMMA ReadCell ==
    ASSUME RamInv, HostInv, NEW h \in Hosts, Enabled(host[h]), NEW n \in 0..host[h].r, NEW i,
           i = ReadIndex[host[h].tx][<<host[h].w, host[h].r>>][n]
    PROVE  i \in DOMAIN ram /\ i = Pos(host[h].tx, host[h].w, host[h].r, host[h].w + 6 + n)
<1>1. PICK t, w, r : t = host[h].tx /\ w = host[h].w /\ r = host[h].r
  BY Zenon
<1>2. Shaped(t, w, r) /\ w \in Nat /\ r \in Nat
  <2>1. InTx(host[h])
    BY DEF InTx, Enabled
  <2>2. Shaped(t, w, r)
    BY <1>1, <2>1, HostShaped
  <2> QED
    BY <2>2, WordNumbers DEF Shaped
<1>3. PICK b : b = Buffer[t][<<w, r>>]
  OBVIOUS
<1>4. Layout(t, w, r, b) /\ Len(b) <= Len(ram)
  <2>1. HostOK(h, host[h])
    BY DEF HostInv
  <2> QED
    BY <1>1, <1>2, <1>3, <2>1, BufferLayout, Zenon DEF HostOK
<1>5. i = Pos(t, w, r, w + 6 + n)
  <2>1. i = ReadIndex[t][<<w, r>>][n] /\ n \in 0..r
    BY <1>1, Zenon
  <2>2. Shaped(t, w, r)
    BY <1>2
  <2> QED
    BY <2>1, <2>2, ReadIndexOf
<1>6. w + 6 + n \in 0..Calls(w, r)
  BY <1>1, <1>2 DEF Calls
<1>7. i \in Nat \ {0} /\ i < Len(b)
  BY <1>4, <1>5, <1>6 DEF Layout
<1>8. Len(b) \in Nat /\ Len(ram) \in Nat /\ DOMAIN ram = 1..Len(ram)
  BY <1>4 DEF Layout, RamInv
<1>9. i \in DOMAIN ram
  BY <1>4, <1>7, <1>8
<1> QED
  BY <1>1, <1>5, <1>9

\* What a word read adds to the answer.
LEMMA ReadAdds ==
    ASSUME RamInv, HostInv, NEW h \in Hosts, ReadWord(h)
    PROVE  \E got \in Seq(Values) :
              /\ \/ host[h].r = 0 /\ got = <<>>
                 \/ /\ host[h].r # 0 /\ Len(host[h].got) + 1 \in 0..host[h].r
                    /\ \E v \in Values :
                          /\ got = Append(host[h].got, v)
                          /\ LET i == Pos(host[h].tx, host[h].w, host[h].r,
                                          host[h].w + 6 + (Len(host[h].got) + 1))
                             IN  ram[i].c = "data" => v = ram[i].v
              /\ \/ Len(got) = host[h].r /\ Leaves(h, "ok", got)
                 \/ /\ Len(got) # host[h].r /\ lock' = lock
                    /\ \E d \in HostRecords : /\ Becomes(h, d) /\ d.pc = "read" /\ d.got = got
                                              /\ d.code = host[h].code
<1>1. PICK c, n : c = host[h] /\ n = Len(c.got) + 1
  OBVIOUS
<1>2. c \in HostRecords /\ HostOK(h, c) /\ host \in [Hosts -> HostRecords] /\ c.pc = "read"
  BY <1>1, Zenon DEF HostInv, ReadWord
<1>3. PICK j, cell : j = ReadIndex[c.tx][<<c.w, c.r>>][n] /\ cell = ram[j]
  OBVIOUS
<1>4. PICK v : v = IF cell.c = "data" THEN cell.v ELSE NoValue
  OBVIOUS
<1>5. PICK got : got = IF c.r = 0 THEN <<>> ELSE Append(c.got, v)
  BY Zenon
<1>6. IF Len(got) = c.r THEN Return(h, "ok", got)
      ELSE host' = [host EXCEPT ![h].got = got] /\ lock' = lock
  BY <1>1, <1>3, <1>4, <1>5, Zenon DEF ReadWord
<1>7. c.got \in Seq(Values) /\ c.r \in 0..MaxWords /\ c.r \in Nat
  BY <1>2, WordNumbers DEF HostRecords
<1>8. c.r # 0 => n \in 0..c.r /\ j \in DOMAIN ram /\ j = Pos(c.tx, c.w, c.r, c.w + 6 + n)
  <2>1. SUFFICES ASSUME c.r # 0
                 PROVE  n \in 0..c.r /\ j \in DOMAIN ram /\ j = Pos(c.tx, c.w, c.r, c.w + 6 + n)
    OBVIOUS
  <2>2. Len(c.got) < c.r /\ Len(c.got) \in Nat
    BY <1>2, <1>7, <2>1 DEF HostOK
  <2>3. n \in 0..c.r
    BY <1>1, <1>7, <2>2
  <2>4. Enabled(host[h])
    BY <1>1, <1>2 DEF Enabled
  <2> QED
    BY <1>1, <1>3, <2>3, <2>4, ReadCell, Zenon
<1>9. c.r # 0 => v \in Values
  <2>1. SUFFICES ASSUME c.r # 0 PROVE v \in Values
    OBVIOUS
  <2>2. cell \in Cells
    BY <1>3, <1>8, <2>1 DEF RamInv
  <2> QED
    BY <1>4, <2>2, CellKinds, ValueTypes
<1>10. got \in Seq(Values)
  BY <1>5, <1>7, <1>9
<1>11. Len(got) = c.r => Leaves(h, "ok", got)
  <2>1. SUFFICES ASSUME Len(got) = c.r PROVE Leaves(h, "ok", got)
    OBVIOUS
  <2>2. Return(h, "ok", got)
    BY <1>6, <2>1
  <2> QED
    BY <1>10, <2>2, ReturnLeaves
<1>12. Len(got) # c.r => lock' = lock /\ \E d \in HostRecords :
           Becomes(h, d) /\ d.pc = "read" /\ d.got = got /\ d.code = c.code
  <2>1. SUFFICES ASSUME Len(got) # c.r
                 PROVE  lock' = lock /\ \E d \in HostRecords :
                           Becomes(h, d) /\ d.pc = "read" /\ d.got = got /\ d.code = c.code
    OBVIOUS
  <2>2. /\ [host EXCEPT ![h].got = got] = [host EXCEPT ![h] = [c EXCEPT !.got = got]]
        /\ [c EXCEPT !.got = got] \in HostRecords /\ [c EXCEPT !.got = got].pc = "read"
        /\ [c EXCEPT !.got = got].got = got
        /\ [c EXCEPT !.got = got].tx = c.tx /\ [c EXCEPT !.got = got].w = c.w
        /\ [c EXCEPT !.got = got].r = c.r /\ [c EXCEPT !.got = got].code = c.code
    BY <1>1, <1>2, <1>10, Zenon DEF HostRecords
  <2>3. PICK d : d = [c EXCEPT !.got = got]
    BY Zenon
  <2>4. /\ [host EXCEPT ![h].got = got] = [host EXCEPT ![h] = d]
        /\ d \in HostRecords /\ d.pc = "read" /\ d.got = got
        /\ d.tx = c.tx /\ d.w = c.w /\ d.r = c.r /\ d.code = c.code
    BY <2>2, <2>3, Zenon
  <2>5. host' = [host EXCEPT ![h] = d] /\ lock' = lock
    BY <1>6, <2>1, <2>4, Zenon
  <2> QED
    BY <1>1, <2>4, <2>5, Zenon DEF Becomes
<1>13. c.r # 0 => (ram[Pos(c.tx, c.w, c.r, c.w + 6 + n)].c = "data" =>
                      v = ram[Pos(c.tx, c.w, c.r, c.w + 6 + n)].v)
  BY <1>3, <1>4, <1>8
<1>14. \/ c.r = 0 /\ got = <<>>
       \/ /\ c.r # 0 /\ n \in 0..c.r
          /\ \E x \in Values :
                /\ got = Append(c.got, x)
                /\ ram[Pos(c.tx, c.w, c.r, c.w + 6 + n)].c = "data" =>
                      x = ram[Pos(c.tx, c.w, c.r, c.w + 6 + n)].v
  BY <1>5, <1>8, <1>9, <1>13, Zenon
<1> QED
  BY <1>1, <1>10, <1>11, <1>12, <1>14, Zenon

-----------------------------------------------------------------------------
(* What the hosts hold, after each step. *)

LEMMA HostBegins ==
    ASSUME MemoryInv, HostInv, I2cNext, NEW h \in Hosts, BeginTx(h) PROVE HostInv'
<1>1. PICK n : n = begun'
  OBVIOUS
<1>2. PICK shape \in Shapes :
         /\ host' = [host EXCEPT ![h] = [pc |-> "lock", tx |-> n, w |-> shape[1], r |-> shape[2],
                                         got |-> <<>>, code |-> "none"]]
         /\ asked' = [asked EXCEPT ![n] = shape]
  BY <1>1, Zenon DEF BeginTx
<1>3. PICK c : c = [pc |-> "lock", tx |-> n, w |-> shape[1], r |-> shape[2], got |-> <<>>,
                    code |-> "none"]
  BY Zenon
<1>4. n = begun + 1 /\ begun < MaxTx /\ begun \in Nat /\ n \in Txs /\ n \in 0..MaxTx /\ n # 0
      /\ lock' = lock /\ triggers' = triggers /\ MaxTx \in Nat
  BY <1>1, I2cAssumption DEF BeginTx, HostInv, HistoryInv, Txs
<1>5. shape[1] \in 0..MaxWords /\ shape[2] \in 0..MaxWords /\ shape = <<shape[1], shape[2]>>
  BY I2cAssumption
<1>6. c \in HostRecords /\ host' = [host EXCEPT ![h] = c]
  BY <1>2, <1>3, <1>4, <1>5 DEF HostRecords
<1>7. HistoryInv' /\ Len(ram) \in Nat /\ Len(ram') \in Nat /\ Len(ram) <= Len(ram')
  BY HistoryStep, RamGrows
<1>8. asked \in [Txs -> Shapes \cup {<<0, 0>>}] /\ triggers[n] = 0
  BY <1>4 DEF HostInv, HistoryInv
<1>9. asked'[n] = shape /\ \A t \in 1..begun : asked'[t] = asked[t]
  <2>1. \A t \in 1..begun : t # n /\ t \in Txs
    BY <1>4 DEF Txs
  <2> QED
    BY <1>2, <1>4, <1>8, <2>1
<1>10. HostOK(h, c)'
  BY <1>1, <1>3, <1>4, <1>5, <1>8, <1>9 DEF HostOK, InTx, Enabled, Locked
<1>11. c.tx > begun /\ begun <= begun'
  BY <1>1, <1>3, <1>4
<1>12. \A g \in Hosts : g # h /\ Locked(host[g]) => lock' = lock
  BY <1>4
<1>13. lock' \in Hosts \cup {NoHost}
  BY <1>4 DEF HostInv
<1>14. \A g \in Hosts : g # h /\ host[g].pc \in {"lock", "enable", "trigger"} =>
                         triggers'[host[g].tx] = triggers[host[g].tx]
  BY <1>4
<1> QED
  BY <1>6, <1>7, <1>9, <1>10, <1>11, <1>12, <1>13, <1>14, HostUpdated, Zenon

LEMMA HostEnables ==
    ASSUME MemoryInv, HostInv, I2cNext, NEW h \in Hosts, Enable(h) PROVE HostInv'
<1>1. host[h].pc = "enable" /\ UNCHANGED <<begun, asked, triggers>> /\ (Goto(h, "trigger") \/ Throw(h))
  BY Zenon DEF Enable
<1>2. Locked(host[h]) /\ InTx(host[h])
  BY <1>1 DEF Locked, InTx
<1>3. CASE Throw(h)
  BY <1>1, <1>2, <1>3, ThrowLeaves, HostLeaves
<1>4. CASE Goto(h, "trigger")
  <2>1. HostMoves(h, "trigger") /\ lock' = lock
    BY <1>4, GotoMoves, Zenon DEF Goto
  <2>2. lock = h
    BY <1>2, Zenon DEF HostInv, HostOK
  <2>3. Len(Buffer[host[h].tx][<<host[h].w, host[h].r>>]) <= Len(ram')
    <3>1. PICK t, w, r, b : t = host[h].tx /\ w = host[h].w /\ r = host[h].r /\ b = Buffer[t][<<w, r>>]
      BY Zenon
    <3>2. PICK m : m = b \o SubSeq(ram, Len(b) + 1, Len(ram))
      BY Zenon
    <3>3. ram' = m
      BY <3>1, <3>2, Zenon DEF Enable
    <3>4. RamMade(m, b)
      BY <1>2, <3>1, <3>2, HostShaped, RamWritten, Zenon DEF MemoryInv
    <3> QED
      BY <3>1, <3>3, <3>4 DEF RamMade
  <2> QED
    BY <1>1, <1>2, <2>1, <2>2, <2>3, HostGoesOn, Zenon
<1> QED
  BY <1>1, <1>3, <1>4

LEMMA HostTriggers ==
    ASSUME MemoryInv, HostInv, I2cNext, NEW h \in Hosts, Trigger(h) PROVE HostInv'
<1>1. host[h].pc = "trigger" /\ UNCHANGED <<begun, asked, ram>> /\ (Goto(h, "poll") \/ Throw(h))
  BY DEF Trigger
<1>2. Locked(host[h]) /\ InTx(host[h]) /\ Enabled(host[h])
  BY <1>1 DEF Locked, InTx, Enabled
<1>3. \A t \in Txs : t # host[h].tx => triggers'[t] = triggers[t]
  <2>1. PICK t : t = host[h].tx
    OBVIOUS
  <2>2. PICK n : triggers' = [triggers EXCEPT ![t] = @ + n]
    BY <2>1, Zenon DEF Trigger
  <2>3. triggers \in [Txs -> Nat]
    BY DEF HostInv, HistoryInv
  <2> QED
    BY <2>1, <2>2, <2>3
<1>4. CASE Throw(h)
  BY <1>1, <1>2, <1>3, <1>4, ThrowLeaves, HostLeaves
<1>5. CASE Goto(h, "poll")
  <2>1. HostMoves(h, "poll") /\ lock' = lock
    BY <1>5, GotoMoves, Zenon DEF Goto
  <2>2. lock = h /\ Len(Buffer[host[h].tx][<<host[h].w, host[h].r>>]) <= Len(ram')
    BY <1>1, <1>2 DEF HostInv, HostOK
  <2>3. \A t \in Txs : t # host[h].tx \/ "poll" # "poll" => triggers'[t] = triggers[t]
    BY <1>3
  <2> QED
    BY <1>1, <1>2, <2>1, <2>2, <2>3, HostGoesOn
<1> QED
  BY <1>1, <1>4, <1>5

\* BusSteps of h from a sequence in the memory that change nothing but h.
LEMMA HostReads ==
    ASSUME MemoryInv, HostInv, I2cNext, NEW h \in Hosts, Poll(h) \/ Clear(h) \/ GiveUp(h) \/ TakeLock(h)
    PROVE  HostInv'
<1>1. UNCHANGED <<begun, asked, triggers, ram>>
  BY DEF Poll, Clear, GiveUp, TakeLock, deviceVars, historyVars
<1>2. CASE Leaves(h, "nak", <<>>) \/ Leaves(h, "error", <<>>)
  <2>1. Locked(host[h])
    <3>1. host[h].pc # "lock"
      <4>1. ASSUME TakeLock(h) PROVE FALSE
        <5>1. NoHost \notin Hosts /\ lock' = h
          BY <4>1, I2cAssumption DEF TakeLock
        <5> QED
          BY <1>2, <5>1 DEF Leaves
      <4> QED
        BY <4>1 DEF Poll, Clear, GiveUp
    <3> QED
      BY <3>1 DEF Poll, Clear, GiveUp, TakeLock, Locked, Enabled
  <2> QED
    BY <1>1, <1>2, <2>1, HostLeaves
<1>3. CASE Poll(h) /\ HostMoves(h, "clear") /\ lock' = lock
  <2>1. host[h].pc = "poll" /\ Locked(host[h]) /\ Enabled(host[h])
    BY <1>3 DEF Poll, Locked, Enabled
  <2>2. lock = h /\ Len(Buffer[host[h].tx][<<host[h].w, host[h].r>>]) <= Len(ram')
    BY <1>1, <2>1 DEF HostInv, HostOK
  <2> QED
    BY <1>1, <1>3, <2>1, <2>2, HostGoesOn
<1>4. CASE Clear(h) /\ HostMoves(h, "read") /\ lock' = lock
  <2>1. host[h].pc = "clear" /\ Locked(host[h]) /\ Enabled(host[h])
    BY <1>4 DEF Clear, Locked, Enabled
  <2>2. lock = h /\ Len(Buffer[host[h].tx][<<host[h].w, host[h].r>>]) <= Len(ram')
    BY <1>1, <2>1 DEF HostInv, HostOK
  <2> QED
    BY <1>1, <1>4, <2>1, <2>2, HostGoesOn
<1>5. CASE TakeLock(h)
  <2>1. host[h].pc = "lock" /\ lock = NoHost /\ lock' = h /\ HostMoves(h, "enable")
    BY <1>5, GotoMoves, Zenon DEF TakeLock
  <2> QED
    BY <1>1, <2>1, HostGoesOn, Zenon
<1>6. CASE GiveUp(h)
  BY <1>2, <1>6, ThrowLeaves DEF GiveUp
<1>7. CASE Poll(h)
  BY <1>3, <1>7, GotoMoves, Zenon DEF Poll, Goto
<1>8. CASE Clear(h)
  <2>1. Throw(h) \/ Return(h, "nak", <<>>) \/ Goto(h, "read")
    BY <1>8 DEF Clear
  <2>2. CASE Throw(h)
    BY <1>2, <2>2, ThrowLeaves
  <2>3. CASE Return(h, "nak", <<>>)
    <3>1. <<>> \in Seq(Values)
      OBVIOUS
    <3> QED
      BY <1>2, <2>3, <3>1, ReturnLeaves, Zenon
  <2>4. CASE Goto(h, "read")
    BY <1>4, <1>8, <2>4, GotoMoves, Zenon DEF Goto
  <2> QED
    BY <2>1, <2>2, <2>3, <2>4
<1> QED
  BY <1>5, <1>6, <1>7, <1>8

LEMMA HostReadsWord ==
    ASSUME MemoryInv, HostInv, I2cNext, NEW h \in Hosts, ReadWord(h) PROVE HostInv'
<1>1. UNCHANGED <<begun, asked, triggers, ram>> /\ host[h].pc = "read"
  BY Zenon DEF ReadWord, deviceVars, historyVars
<1>2. Locked(host[h]) /\ InTx(host[h]) /\ Enabled(host[h]) /\ HostOK(h, host[h])
  BY <1>1 DEF Locked, InTx, Enabled, HostInv
<1>3. RamInv
  BY DEF MemoryInv
<1>4. PICK got \in Seq(Values) :
          /\ host[h].r = 0 => got = <<>>
          /\ host[h].r # 0 => Len(host[h].got) + 1 \in 0..host[h].r /\ Len(got) = Len(host[h].got) + 1
          /\ \/ Len(got) = host[h].r /\ Leaves(h, "ok", got)
             \/ /\ Len(got) # host[h].r /\ lock' = lock
                /\ \E d \in HostRecords : /\ Becomes(h, d) /\ d.pc = "read" /\ d.got = got
                                          /\ d.code = host[h].code
  <2>1. PICK got \in Seq(Values) :
          /\ \/ host[h].r = 0 /\ got = <<>>
             \/ /\ host[h].r # 0 /\ Len(host[h].got) + 1 \in 0..host[h].r
                /\ \E v \in Values : got = Append(host[h].got, v)
          /\ \/ Len(got) = host[h].r /\ Leaves(h, "ok", got)
             \/ /\ Len(got) # host[h].r /\ lock' = lock
                /\ \E d \in HostRecords : /\ Becomes(h, d) /\ d.pc = "read" /\ d.got = got
                                          /\ d.code = host[h].code
    BY <1>3, ReadAdds, Zenon
  <2>2. host[h].got \in Seq(Values)
    <3>1. host[h] \in HostRecords
      BY DEF HostInv
    <3> QED
      BY <3>1 DEF HostRecords
  <2>3. \A v \in Values : Len(Append(host[h].got, v)) = Len(host[h].got) + 1
    BY <2>2
  <2>4. host[h].r # 0 => Len(host[h].got) + 1 \in 0..host[h].r /\ Len(got) = Len(host[h].got) + 1
    BY <2>1, <2>3, Zenon
  <2> QED
    BY <2>1, <2>4, Zenon
<1>5. CASE Leaves(h, "ok", got)
  BY <1>1, <1>2, <1>5, HostLeaves
<1>6. CASE /\ Len(got) # host[h].r /\ lock' = lock
           /\ \E d \in HostRecords : /\ Becomes(h, d) /\ d.pc = "read" /\ d.got = got
                                     /\ d.code = host[h].code
  <2>1. PICK d \in HostRecords : /\ Becomes(h, d) /\ d.pc = "read" /\ d.got = got
                                 /\ d.code = host[h].code
    BY <1>6, Zenon
  <2>2. d.tx = host[h].tx /\ d.w = host[h].w /\ d.r = host[h].r /\ host' = [host EXCEPT ![h] = d]
    BY <2>1, Zenon DEF Becomes
  <2>3. HistoryInv' /\ Len(ram) \in Nat /\ Len(ram') \in Nat /\ Len(ram) <= Len(ram')
    BY HistoryStep, RamGrows
  <2>4. Len(d.got) < d.r \/ d.r = 0
    <3>1. d.r \in Nat
      <4>1. d.r \in 0..MaxWords
        BY <2>1 DEF HostRecords
      <4> QED
        BY <4>1, WordNumbers
    <3>2. PICK k : k = Len(got)
      OBVIOUS
    <3>3. k \in Nat /\ k # d.r /\ (d.r # 0 => k \in 0..d.r)
      BY <1>4, <1>6, <2>2, <3>2
    <3> QED
      BY <2>1, <3>1, <3>2, <3>3
  <2>5. HostOK(h, d)'
    <3>1. d.tx <= begun' /\ asked'[d.tx] = <<d.w, d.r>> /\ d.tx # 0 /\ d.code = "none"
      BY <1>1, <1>2, <2>1, <2>2 DEF HostOK
    <3>2. lock' = h /\ Len(Buffer[d.tx][<<d.w, d.r>>]) <= Len(ram')
      BY <1>1, <1>2, <1>6, <2>2 DEF HostOK
    <3> QED
      BY <2>1, <2>4, <3>1, <3>2 DEF HostOK
  <2>6. begun <= begun' /\ (\A t \in 1..begun : asked'[t] = asked[t]) /\ lock' \in Hosts \cup {NoHost}
        /\ (\A g \in Hosts : g # h /\ Locked(host[g]) => lock' = lock)
        /\ \A g \in Hosts : g # h /\ host[g].pc \in {"lock", "enable", "trigger"} =>
                         triggers'[host[g].tx] = triggers[host[g].tx]
    <3>1. begun \in Nat
      BY I2cAssumption DEF HostInv, HistoryInv
    <3> QED
      BY <1>1, <1>6, <3>1 DEF HostInv
  <2>7. InTx(d) => (InTx(host[h]) /\ d.tx = host[h].tx) \/ d.tx > begun
    BY <1>2, <2>2
  <2> QED
    BY <2>1, <2>2, <2>3, <2>5, <2>6, <2>7, HostUpdated, Zenon
<1> QED
  BY <1>4, <1>5, <1>6, Zenon

LEMMA HostStep == ASSUME MemoryInv, HostInv, I2cNext PROVE HostInv'
<1>1. CASE Apb \/ Controller
  <2>1. UNCHANGED <<host, lock, begun, asked, triggers>>
    BY <1>1 DEF Apb, ApbTake, ApbDone, ApbDerail, ApbWrite, ApbControl, ApbRead, ApbPoll, ApbPolled,
                Controller, I2cStart, I2cAnswer, I2cFail, historyVars
  <2> QED
    BY <2>1, HistoryStep, HostSame
<1>2. ASSUME NEW h \in Hosts, BeginTx(h) \/ I2cProceed(h) PROVE HostInv'
  BY <1>2, HostBegins, HostEnables, HostTriggers, HostReads, HostReadsWord DEF I2cProceed
<1> QED
  BY <1>1, <1>2 DEF I2cNext

LEMMA MemoryStep == ASSUME MemoryInv, HostInv, I2cNext PROVE MemoryInv'
BY RamStep, ApbStep, ControllerStep DEF MemoryInv

-----------------------------------------------------------------------------
(* The run of a sequence. *)

\* The calls by operation and register.
CallIs(t, w, r, m, call) ==
    /\ call.op = "WR" /\ call.r = "control" =>
          \/ m \in {1, w + r + 7} /\ call.v = Zero
          \/ m = w + 4 /\ call.v = Val("start", t, 0)
    /\ call.op = "WR" /\ call.r = "data" =>
          m \in 2..(w + 1) /\ call.i = m - 1 /\ call.v = Val("word", t, m - 1)
    /\ call.op = "WR" /\ call.r = "num_bytes" => m = w + 2 /\ call.v = Val("bytes", w, r)
    /\ call.op = "WR" /\ call.r = "bus_en" => m = w + 3
    /\ call.op = "POLL" => m = w + 5
    /\ call.op = "RD" /\ call.r = "status" => m = w + 6
    /\ call.op = "RD" /\ call.r = "data" => m \in (w + 7)..(w + 6 + r) /\ call.i = m - (w + 6)

LEMMA CallCases ==
    ASSUME NEW t, NEW w \in Nat, NEW r \in Nat, NEW m \in 1..Calls(w, r), NEW call,
           call = CallAt(t, w, r, m)
    PROVE  CallIs(t, w, r, m, call)
<1>1. CallTable(t, w, r)
  BY EncodedCalls
<1>2. \A op, x, i, v : /\ Call(op, x, i, v).op = op /\ Call(op, x, i, v).r = x
                       /\ Call(op, x, i, v).i = i /\ Call(op, x, i, v).v = v
  BY DEF Call
<1>3. CASE m \in {1, w + r + 7}
  <2>1. call = Call("WR", "control", 0, Zero)
    BY <1>1, <1>3, Zenon DEF CallTable
  <2> QED
    BY <1>2, <1>3, <2>1 DEF CallIs
<1>4. CASE m \in 2..(w + 1)
  <2>1. call = Call("WR", "data", m - 1, Val("word", t, m - 1))
    BY <1>1, <1>4 DEF CallTable
  <2> QED
    BY <1>2, <1>4, <2>1 DEF CallIs
<1>5. CASE m = w + 2
  <2>1. call = Call("WR", "num_bytes", 0, Val("bytes", w, r))
    BY <1>1, <1>5 DEF CallTable
  <2> QED
    BY <1>2, <1>5, <2>1 DEF CallIs
<1>6. CASE m = w + 3
  <2>1. call = Call("WR", "bus_en", 0, Val("bus", 0, 0))
    BY <1>1, <1>6 DEF CallTable
  <2> QED
    BY <1>2, <1>6, <2>1 DEF CallIs
<1>7. CASE m = w + 4
  <2>1. call = Call("WR", "control", 0, Val("start", t, 0))
    BY <1>1, <1>7 DEF CallTable
  <2> QED
    BY <1>2, <1>7, <2>1 DEF CallIs
<1>8. CASE m = w + 5
  <2>1. call = Call("POLL", "status", 0, Status({"DONE"}))
    BY <1>1, <1>8 DEF CallTable
  <2> QED
    BY <1>2, <1>8, <2>1 DEF CallIs
<1>9. CASE m = w + 6
  <2>1. call = Call("RD", "status", 0, Zero)
    BY <1>1, <1>9 DEF CallTable
  <2> QED
    BY <1>2, <1>9, <2>1 DEF CallIs
<1>10. CASE m \in (w + 7)..(w + 6 + r)
  <2>1. call = Call("RD", "data", m - (w + 6), NoValue)
    BY <1>1, <1>10 DEF CallTable
  <2> QED
    BY <1>2, <1>10, <2>1 DEF CallIs
<1> QED
  BY <1>3, <1>4, <1>5, <1>6, <1>7, <1>8, <1>9, <1>10 DEF Calls

\* The command it executes is the next call.
LEMMA RunFinds ==
    ASSUME NEW t, NEW w, NEW r, Shaped(t, w, r), MemoryInv, Holds(t, w, r),
           NEW n, RunAt(t, w, r, n), NEW op, NEW R, ApbAt(op, R), NEW f, f = NextCommand,
           NEW call, call = CallAt(t, w, r, n + 1)
    PROVE  /\ n + 1 \in 1..Calls(w, r) /\ call.op = op /\ call.r \in R
           /\ Finds(t, w, r, n, f, call) /\ CallIs(t, w, r, n + 1, call)
           /\ ram[f.address].r = call.r /\ ram[f.address].i = call.i
<1>1. n \in 0..Calls(w, r) /\ AtCall(t, w, r, n) /\ ram \in Seq(Cells)
  BY DEF RunAt, MemoryInv, RamInv
<1>2. w \in Nat /\ r \in Nat /\ Calls(w, r) \in Nat
  BY WordNumbers DEF Shaped, Calls
<1>3. Cell(f.address).c # "end" /\ CommandAt(f) = op /\ ram[f.address].r \in R
  BY DEF ApbAt
<1>4. (n < Calls(w, r) => Finds(t, w, r, n, f, call)) /\ (n = Calls(w, r) => Cell(f.address).c = "end")
  BY <1>1, CommandFetched
<1>5. n < Calls(w, r) /\ n + 1 \in 1..Calls(w, r)
  BY <1>1, <1>2, <1>3, <1>4
<1>6. Finds(t, w, r, n, f, call)
  BY <1>4, <1>5
<1>7. ram[f.address] = Register(call.r, call.i) /\ CommandAt(f) = call.op
  BY <1>6 DEF Finds
<1>8. ram[f.address].r = call.r /\ ram[f.address].i = call.i
  BY <1>7 DEF Register
<1> QED
  BY <1>2, <1>3, <1>5, <1>6, <1>7, <1>8, CallCases

LEMMA RunExecutes ==
    ASSUME NEW t, NEW w, NEW r, Shaped(t, w, r), MemoryInv, Holds(t, w, r),
           NEW n, RunAt(t, w, r, n), n = Len(ran), NEW op, NEW R, ApbAt(op, R),
           NEW p, NEW l, l = 1 + Operands(op),
           Execute(NextCommand, l, p)
    PROVE  RunAt(t, w, r, n + 1)' /\ Len(ran') = n + 1 /\ apb'.pc = p
<1>1. PICK f : f = NextCommand
  OBVIOUS
<1>2. PICK call : call = CallAt(t, w, r, n + 1)
  OBVIOUS
<1>3. /\ n + 1 \in 1..Calls(w, r) /\ call.op = op /\ Finds(t, w, r, n, f, call)
      /\ ram[f.address].r = call.r
  BY <1>1, <1>2, RunFinds
<1>4. /\ apb' = [pc |-> p, word |-> f.word, bit |-> f.bit + 1,
                 address |-> f.address + l]
      /\ ran' = Append(ran, <<CommandAt(f), ram[f.address].r>>)
  BY <1>1 DEF Execute
<1>5. CommandAt(f) = call.op
  BY <1>3 DEF Finds
<1>6. ran \in Seq(OpNames \X RegisterNames) /\ n \in Nat
  BY DEF MemoryInv, ApbInv
<1>7. PICK x : x = <<call.op, call.r>>
  BY Zenon
<1>8. ran' = Append(ran, x)
  BY <1>3, <1>4, <1>5, <1>7
<1>9. Len(ran') = n + 1 /\ ran'[n + 1] = x /\ \A i \in 1..n : ran'[i] = ran[i]
  BY <1>6, <1>8
<1>10. ASSUME NEW i \in 1..(n + 1)
       PROVE  ran'[i] = <<CallAt(t, w, r, i).op, CallAt(t, w, r, i).r>>
  <2>1. CASE i = n + 1
    BY <1>2, <1>7, <1>9, <2>1
  <2>2. CASE i # n + 1
    <3>1. i \in 1..n
      BY <1>6, <2>2
    <3> QED
      BY <1>9, <3>1 DEF RunAt
  <2> QED
    BY <2>1, <2>2
<1>11. AtCall(t, w, r, n + 1)'
  <2>1. f.address + Operands(op) = Pos(t, w, r, n + 1) /\ f.address \in Nat
    BY <1>3 DEF Finds
  <2>2. apb'.address = Pos(t, w, r, n + 1) + 1
    BY <1>4, <2>1 DEF Operands
  <2>3. apb'.bit = Bit(t, w, r, n + 1) /\ apb'.word = Buffer[t][<<w, r>>][Idx(t, w, r, n + 1)].ops
    BY <1>3, <1>4 DEF Finds
  <2> QED
    BY <2>2, <2>3 DEF AtCall
<1>12. n + 1 \in 0..Calls(w, r)
  BY <1>3, <1>6
<1> QED
  BY <1>4, <1>9, <1>10, <1>11, <1>12 DEF RunAt

LEMMA Buffered ==
    ASSUME NEW s \in Seq(Values), NEW n \in Nat \ {0}, NEW v
    PROVE  /\ n \in DOMAIN PutWord(s, n, v) /\ PutWord(s, n, v)[n] = v
           /\ \A i \in DOMAIN s : i # n => i \in DOMAIN PutWord(s, n, v) /\ PutWord(s, n, v)[i] = s[i]
<1>1. PICK k : k = Len(s)
  OBVIOUS
<1>2. k \in Nat /\ DOMAIN s = 1..k
  BY <1>1
<1>3. PICK l : l = IF n > k THEN n ELSE k
  OBVIOUS
<1>4. l \in Nat /\ n \in 1..l /\ \A i \in 1..k : i \in 1..l
  BY <1>2, <1>3
<1>5. PutWord(s, n, v) = [i \in 1..l |-> IF i = n THEN v ELSE IF i \in DOMAIN s THEN s[i] ELSE Zero]
  BY <1>1, <1>3 DEF PutWord
<1> QED
  BY <1>2, <1>4, <1>5

LEMMA WriteRuns ==
    ASSUME NEW t, NEW w, NEW r, Shaped(t, w, r), MemoryInv, Holds(t, w, r),
           NEW n, n = Len(ran), RunInv(t, w, r, n), ApbWrite
    PROVE  RunInv(t, w, r, n + 1)' /\ Len(ran') = n + 1 /\ n \in 1..(w + 2)
<1>1. PICK f, call : f = NextCommand /\ call = CallAt(t, w, r, n + 1)
  OBVIOUS
<1>2. PICK v : v = ram[f.address + 1].v
  OBVIOUS
<1>3. ApbAt("WR", {"num_bytes", "bus_en", "data"}) /\ Execute(NextCommand, 2, "command") /\ apb.pc = "command"
  BY DEF ApbWrite, ApbAt
<1>4. RunAt(t, w, r, n + 1)' /\ Len(ran') = n + 1 /\ apb'.pc = "command"
  <2>1. RunAt(t, w, r, n) /\ 2 = 1 + Operands("WR")
    BY DEF RunInv, Operands
  <2> QED
    BY <1>3, <2>1, RunExecutes
<1>5. /\ call.op = "WR" /\ call.r \in {"num_bytes", "bus_en", "data"}
      /\ Finds(t, w, r, n, f, call) /\ CallIs(t, w, r, n + 1, call)
      /\ ram[f.address].r = call.r /\ ram[f.address].i = call.i
  BY <1>1, <1>3, RunFinds DEF RunInv
<1>6. v = call.v
  <2>1. ram[f.address + 1] = Data(call.v)
    BY <1>5 DEF Finds
  <2> QED
    BY <1>2, <2>1 DEF Data
<1>7. w \in Nat /\ r \in Nat /\ n \in Nat /\ n \in 1..(w + 2)
  <2>1. w \in Nat /\ r \in Nat /\ n \in Nat
    BY WordNumbers DEF Shaped, RunInv, RunAt
  <2>2. n + 1 \in 2..(w + 1) \/ n + 1 = w + 2 \/ n + 1 = w + 3
    BY <1>5 DEF CallIs
  <2> QED
    BY <2>1, <2>2
<1>8. RunData(t, w, r, n) /\ ~ctrl.cmd /\ ctrl'= ctrl /\ runs' = runs
  BY <1>3, <1>7 DEF RunInv, RunData, ApbWrite
<1>9. regs' = CASE call.r = "num_bytes" -> [regs EXCEPT !.num_bytes = v]
                [] call.r = "data" -> [regs EXCEPT !.data = PutWord(@, call.i, v)]
                [] OTHER -> regs
  BY <1>1, <1>2, <1>5 DEF ApbWrite
<1>10. regs \in [num_bytes : Values, status : SUBSET Flags, data : Seq(Values)]
       /\ (ctrl.pc = "execute" => ctrl.cmd)
  BY DEF MemoryInv, ControllerInv
<1>11. regs'.status = regs.status /\ regs.status = {}
  BY <1>7, <1>8, <1>9, <1>10, <1>5 DEF RunData
<1>12. n + 1 >= w + 2 => regs'.num_bytes = Val("bytes", w, r)
  <2>1. CASE call.r = "num_bytes"
    BY <1>5, <1>6, <1>9, <1>10, <2>1 DEF CallIs
  <2>2. CASE call.r = "data"
    BY <1>5, <1>7, <2>2 DEF CallIs
  <2>3. CASE call.r = "bus_en"
    BY <1>5, <1>7, <1>8, <1>9, <2>3 DEF CallIs, RunData
  <2> QED
    BY <1>5, <2>1, <2>2, <2>3
<1>13. ASSUME NEW i \in 1..w, i < n + 1
       PROVE  i \in DOMAIN regs'.data /\ regs'.data[i] = Val("word", t, i)
  <2>1. i < n => i \in DOMAIN regs.data /\ regs.data[i] = Val("word", t, i)
    BY <1>7, <1>8 DEF RunData, Answered
  <2>2. CASE call.r = "data"
    <3>1. call.i = n /\ v = Val("word", t, n) /\ n \in Nat \ {0}
      BY <1>5, <1>6, <1>7, <2>2 DEF CallIs
    <3>2. regs'.data = PutWord(regs.data, n, v) /\ regs.data \in Seq(Values)
      BY <1>9, <1>10, <2>2, <3>1
    <3>3. CASE i = n
      BY <3>1, <3>2, <3>3, Buffered
    <3>4. CASE i # n
      <4>1. i < n
        BY <1>7, <1>13, <3>4
      <4> QED
        BY <2>1, <3>1, <3>2, <3>4, <4>1, Buffered
    <3> QED
      BY <3>3, <3>4
  <2>3. CASE call.r # "data"
    <3>1. regs'.data = regs.data
      BY <1>5, <1>9, <1>10, <2>3
    <3>2. n + 1 \in {w + 2, w + 3}
      BY <1>5, <2>3 DEF CallIs
    <3>3. i < n
      BY <1>7, <3>2
    <3> QED
      BY <2>1, <3>1, <3>3
  <2> QED
    BY <2>2, <2>3
<1>14. ~(n + 1 >= w + 4)
  BY <1>7
<1>15. RunData(t, w, r, n + 1)'
  BY <1>4, <1>8, <1>10, <1>11, <1>12, <1>13, <1>14 DEF RunData, Answered
<1> QED
  BY <1>4, <1>7, <1>15 DEF RunInv

LEMMA ControlRuns ==
    ASSUME NEW t, NEW w, NEW r, Shaped(t, w, r), MemoryInv, Holds(t, w, r),
           NEW n, n = Len(ran), RunInv(t, w, r, n), ApbControl
    PROVE  /\ RunInv(t, w, r, n + 1)' /\ Len(ran') = n + 1 /\ n \in {0, w + 3, w + r + 6}
           /\ apb'.pc = "command"
           /\ Answered(w, n + 1)' <=> Answered(w, n)
<1>1. PICK f, call : f = NextCommand /\ call = CallAt(t, w, r, n + 1)
  OBVIOUS
<1>2. PICK v : v = ram[f.address + 1].v
  OBVIOUS
<1>3. ApbAt("WR", {"control"}) /\ apb.pc = "command" /\ ctrl.pc = "wait"
  BY DEF ApbControl, ApbAt, MutexFree
<1>4. regs \in [num_bytes : Values, status : SUBSET Flags, data : Seq(Values)] /\ "BUSY" \notin regs.status
      /\ ctrl \in [cmd : BOOLEAN, peripheral : Nat, pc : {"wait", "execute"}, words : Seq(Values)]
  BY <1>3 DEF MemoryInv, ControllerInv
<1>5. /\ Execute(NextCommand, 2, "command")
      /\ ctrl' = [ctrl EXCEPT !.cmd = v.k = "start", !.peripheral = v.t]
      /\ regs' = IF v.k = "zero" THEN [regs EXCEPT !.status = {}] ELSE regs
      /\ runs' = runs
  BY <1>1, <1>2, <1>4 DEF ApbControl
<1>6. RunAt(t, w, r, n + 1)' /\ Len(ran') = n + 1 /\ apb'.pc = "command"
  <2>1. RunAt(t, w, r, n) /\ 2 = 1 + Operands("WR")
    BY DEF RunInv, Operands
  <2> QED
    BY <1>3, <1>5, <2>1, RunExecutes
<1>7. /\ call.op = "WR" /\ call.r = "control"
      /\ Finds(t, w, r, n, f, call) /\ CallIs(t, w, r, n + 1, call)
  BY <1>1, <1>3, RunFinds DEF RunInv
<1>8. v = call.v
  <2>1. ram[f.address + 1] = Data(call.v)
    BY <1>7 DEF Finds
  <2> QED
    BY <1>2, <2>1 DEF Data
<1>9. w \in Nat /\ r \in Nat /\ n \in Nat
  BY WordNumbers DEF Shaped, RunInv, RunAt
<1>10. \/ n \in {0, w + r + 6} /\ v = Zero
       \/ n = w + 3 /\ v = Val("start", t, 0)
  BY <1>7, <1>8, <1>9 DEF CallIs
<1>11. RunData(t, w, r, n) /\ ~ctrl.cmd
  BY <1>3, <1>9, <1>10 DEF RunInv, RunData
<1>12. CASE n = 0 /\ v = Zero
  <2>1. ctrl'.cmd = FALSE /\ ctrl'.pc = "wait" /\ regs'.status = {}
    BY <1>3, <1>4, <1>5, <1>12, Zenon DEF Zero, Val
  <2>2. \A i \in 1..w : ~(i < 1)
    BY <1>9
  <2>3. ~(1 >= w + 2) /\ ~(1 >= w + 4) /\ n + 1 = 1 /\ ~(n >= w + 4)
    BY <1>9, <1>12
  <2>4. RunData(t, w, r, 1)'
    BY <1>6, <2>1, <2>2, <2>3 DEF RunData, Answered
  <2> QED
    BY <1>6, <1>12, <2>3, <2>4 DEF RunInv, Answered
<1>13. CASE n = w + 3 /\ v = Val("start", t, 0)
  <2>1. ctrl'.cmd = TRUE /\ ctrl'.peripheral = t /\ ctrl'.pc = "wait" /\ regs' = regs
    BY <1>3, <1>4, <1>5, <1>13, Zenon DEF Val
  <2>2. regs.status = {} /\ regs.num_bytes = Val("bytes", w, r)
    BY <1>9, <1>11, <1>13 DEF RunData
  <2>3. \A i \in 1..w : i \in DOMAIN regs.data /\ regs.data[i] = Val("word", t, i)
    BY <1>9, <1>11, <1>13 DEF RunData, Answered
  <2>4. n + 1 = w + 4 /\ ~(w + 4 \in 1..(w + 3)) /\ ~(n >= w + 4)
    BY <1>9, <1>13
  <2>5. RunData(t, w, r, w + 4)'
    BY <1>6, <2>1, <2>2, <2>3, <2>4 DEF RunData, Answered
  <2> QED
    BY <1>6, <1>13, <2>1, <2>4, <2>5 DEF RunInv, Answered
<1>14. CASE n = w + r + 6 /\ v = Zero
  <2>1. ctrl'.cmd = FALSE /\ ctrl'.pc = "wait" /\ regs'.data = regs.data
        /\ regs'.num_bytes = regs.num_bytes
    BY <1>3, <1>4, <1>5, <1>14, Zenon DEF Zero, Val
  <2>2. n >= w + 4 /\ n + 1 >= w + 4 /\ n + 1 = Calls(w, r) /\ ~(n + 1 \in 1..(w + 3)) /\ n >= w + 2
        /\ ~(n + 1 < Calls(w, r))
    BY <1>9, <1>14 DEF Calls
  <2>3. /\ regs.num_bytes = Val("bytes", w, r) /\ runs[t] > 0
        /\ \A i \in 1..r : i \in DOMAIN regs.data /\ regs.data[i] = Val("answer", t, i)
    BY <1>11, <2>2 DEF RunData, Answered
  <2>4. RunData(t, w, r, n + 1)'
    BY <1>5, <1>6, <2>1, <2>2, <2>3 DEF RunData, Answered
  <2> QED
    BY <1>6, <1>11, <1>14, <2>1, <2>2, <2>4 DEF RunInv, Answered
<1> QED
  BY <1>10, <1>12, <1>13, <1>14

LEMMA ReadRuns ==
    ASSUME NEW t, NEW w, NEW r, Shaped(t, w, r), MemoryInv, Holds(t, w, r),
           NEW n, n = Len(ran), RunInv(t, w, r, n), StoreInv(t, w, r, n), ApbRead
    PROVE  /\ RunInv(t, w, r, n + 1)' /\ Len(ran') = n + 1 /\ n \in (w + 5)..(w + 5 + r)
           /\ Holds(t, w, r)' /\ StoreInv(t, w, r, n + 1)'
           /\ Answered(w, n) /\ Answered(w, n + 1)' /\ apb'.pc = "command"
           /\ Finished(t, w, r) => Finished(t, w, r)'
           /\ n >= w + 6 /\ Finished(t, w, r)' => Finished(t, w, r)
<1>1. PICK f, call : f = NextCommand /\ call = CallAt(t, w, r, n + 1)
  OBVIOUS
<1>2. PICK k, v : /\ k = ram[f.address].i
                  /\ v = IF ram[f.address].r = "status" THEN Status(regs.status)
                         ELSE IF k \in DOMAIN regs.data THEN regs.data[k] ELSE Zero
  OBVIOUS
<1>3. ApbAt("RD", {"status", "data"}) /\ apb.pc = "command" /\ Execute(NextCommand, 2, "command")
      /\ UNCHANGED <<regs, ctrl, runs>>
  BY DEF ApbRead, ApbAt
<1>4. RunAt(t, w, r, n + 1)' /\ Len(ran') = n + 1 /\ apb'.pc = "command"
  <2>1. RunAt(t, w, r, n) /\ 2 = 1 + Operands("RD")
    BY DEF RunInv, Operands
  <2> QED
    BY <1>3, <2>1, RunExecutes
<1>5. /\ call.op = "RD" /\ call.r \in {"status", "data"}
      /\ Finds(t, w, r, n, f, call) /\ CallIs(t, w, r, n + 1, call)
      /\ ram[f.address].r = call.r /\ k = call.i
  BY <1>1, <1>2, <1>3, RunFinds DEF RunInv
<1>6. w \in Nat /\ r \in Nat /\ n \in Nat /\ n \in 0..Calls(w, r) /\ RunAt(t, w, r, n)
  BY WordNumbers DEF Shaped, RunInv, RunAt
<1>7. n \in (w + 5)..(w + 5 + r) /\ n + 1 \in (w + 6)..(w + 6 + r)
  <2>1. n + 1 = w + 6 \/ n + 1 \in (w + 7)..(w + 6 + r)
    BY <1>5 DEF CallIs
  <2> QED
    BY <1>6, <2>1
<1>8. RunData(t, w, r, n) /\ ~ctrl.cmd /\ Answered(w, n) /\ n + 1 >= w + 4
  BY <1>3, <1>6, <1>7 DEF RunInv, RunData, Answered
<1>9. ctrl.pc # "execute"
  BY <1>8 DEF MemoryInv, ControllerInv
<1>10. RunInv(t, w, r, n + 1)' /\ Answered(w, n + 1)'
  <2>1. n < Calls(w, r) /\ ~(n + 1 \in 1..(w + 3)) /\ n >= w + 2
    BY <1>6, <1>7 DEF Calls
  <2>2. RunData(t, w, r, n + 1)'
    BY <1>3, <1>4, <1>8, <1>9, <2>1 DEF RunData, Answered
  <2> QED
    BY <1>3, <1>4, <1>8, <2>2 DEF RunInv, Answered
<1>11. PICK p : p = Pos(t, w, r, n + 1)
  OBVIOUS
<1>12. f.address + 1 = p /\ p \in DOMAIN ram
  BY <1>5, <1>11 DEF Finds, Operands
<1>13. ram' = [ram EXCEPT ![p] = Data(v)]
  <2>1. ram' = [ram EXCEPT ![f.address + 1] = Data(v)]
    BY <1>1, <1>2 DEF ApbRead
  <2> QED
    BY <1>12, <2>1, Zenon
<1>14. ram \in Seq(Cells) /\ ram' \in Seq(Cells) /\ Len(ram') = Len(ram) /\ Len(ram) \in Nat
       /\ ram'[p] = Data(v) /\ \A i \in DOMAIN ram : i # p => ram'[i] = ram[i]
  <2>1. ram \in Seq(Cells)
    BY DEF MemoryInv, RamInv
  <2>2. v \in Values
    <3>1. regs.data \in Seq(Values) /\ regs.status \in SUBSET Flags
      BY DEF MemoryInv, ControllerInv
    <3> QED
      BY <1>2, <3>1, ValueTypes
  <2>3. Data(v) \in Cells
    BY <2>2, CellsMade
  <2> QED
    BY <1>12, <1>13, <2>1, <2>3
<1>15. PICK b : b = Buffer[t][<<w, r>>]
  OBVIOUS
<1>16. /\ Layout(t, w, r, b)
       /\ \A i \in StoreCells(t, w, r) : i \in 1..Len(b)
       /\ \A m \in 0..Calls(w, r) : Pos(t, w, r, m) \in StoreCells(t, w, r) <=> m \in (w + 6)..(w + 6 + r)
       /\ \A m, j \in 0..Calls(w, r) : Pos(t, w, r, m) = Pos(t, w, r, j) => m = j
  <2>1. Layout(t, w, r, b)
    BY <1>15, BufferLayout
  <2> QED
    BY <2>1, StoresAreData
<1>17. Len(b) \in Nat /\ Len(b) <= Len(ram) /\ DOMAIN ram = 1..Len(ram)
       /\ \A i \in 1..Len(b) :
             IF i \in StoreCells(t, w, r) THEN ram[i].c = "data" ELSE ram[i] = b[i]
  <2>1. b \in Seq(Cells)
    BY <1>16 DEF Layout
  <2>2. /\ Len(b) <= Len(ram)
        /\ \A i \in 1..Len(b) :
             IF i \in StoreCells(t, w, r) THEN ram[i].c = "data" ELSE ram[i] = b[i]
    BY <1>15, Zenon DEF Holds
  <2>3. Len(b) \in Nat /\ DOMAIN ram = 1..Len(ram)
    BY <1>14, <2>1
  <2> QED
    BY <2>2, <2>3, Zenon
<1>18. n + 1 \in 0..Calls(w, r) /\ p \in StoreCells(t, w, r)
  <2>1. n + 1 \in 0..Calls(w, r)
    BY <1>6, <1>7 DEF Calls
  <2> QED
    BY <1>7, <1>11, <1>16, <2>1
<1>19. Holds(t, w, r)'
  <2>1. Len(b) <= Len(ram')
    BY <1>14, <1>17
  <2>2. ASSUME NEW i \in 1..Len(b)
        PROVE  IF i \in StoreCells(t, w, r) THEN ram'[i].c = "data" ELSE ram'[i] = b[i]
    <3>1. CASE i = p
      <4>1. ram'[i].c = "data"
        BY <1>14, <3>1 DEF Data
      <4> QED
        BY <1>18, <3>1, <4>1
    <3>2. CASE i # p
      <4>1. i \in DOMAIN ram
        BY <1>14, <1>17
      <4> QED
        BY <1>14, <1>17, <3>2, <4>1
    <3> QED
      BY <3>1, <3>2
  <2> QED
    BY <1>15, <2>1, <2>2, Zenon DEF Holds
<1>20. ASSUME NEW m \in (w + 6)..(w + 6 + r), m # n + 1
       PROVE  ram'[Pos(t, w, r, m)] = ram[Pos(t, w, r, m)]
  <2>1. m \in 0..Calls(w, r) /\ m \in Nat
    BY <1>6 DEF Calls
  <2>2. Pos(t, w, r, m) # p
    BY <1>11, <1>16, <1>18, <1>20, <2>1
  <2>3. Pos(t, w, r, m) \in 1..Len(b)
    BY <1>16, <2>1
  <2>4. Pos(t, w, r, m) \in DOMAIN ram
    BY <1>14, <1>17, <2>3
  <2> QED
    BY <1>14, <2>2, <2>4
<1>21. w + 6 \in (w + 6)..(w + 6 + r) /\ \A j \in 1..r : w + 6 + j \in (w + 6)..(w + 6 + r)
  BY <1>6
<1>22. "DONE" \in regs.status /\ runs[t] > 0
       /\ \A i \in 1..r : i \in DOMAIN regs.data /\ regs.data[i] = Val("answer", t, i)
  <2>1. n < Calls(w, r)
    BY <1>6, <1>7 DEF Calls
  <2> QED
    BY <1>8, <2>1 DEF RunData
<1>23. CASE n + 1 = w + 6
  <2>1. call.r = "status"
    BY <1>5, <1>6, <1>23 DEF CallIs
  <2>2. v = Status(regs.status)
    BY <1>2, <1>5, <2>1
  <2>3. v.f = regs.status
    BY <2>2 DEF Status
  <2>4. StatusCell(t, w, r)' = v
    BY <1>11, <1>14, <1>23 DEF StatusCell, Data
  <2>5. Finished(t, w, r)'
    BY <1>22, <2>3, <2>4 DEF Finished
  <2>6. \A j \in 1..r : n + 1 \in (w + 6)..(w + 5 + j)
    BY <1>6, <1>23
  <2>7. StoreInv(t, w, r, n + 1)'
    BY <1>3, <1>4, <1>22, <2>5, <2>6 DEF StoreInv
  <2>8. ~(n >= w + 6)
    BY <1>6, <1>23
  <2> QED
    BY <1>4, <1>7, <1>8, <1>10, <1>19, <2>5, <2>7, <2>8
<1>24. CASE n + 1 # w + 6
  <2>1. call.r = "data" /\ k = n + 1 - (w + 6) /\ k \in 1..r /\ k \in Nat
    BY <1>5, <1>6, <1>7, <1>24 DEF CallIs
  <2>2. v = Val("answer", t, k)
    BY <1>2, <1>5, <1>22, <2>1
  <2>3. StatusCell(t, w, r)' = StatusCell(t, w, r)
    BY <1>20, <1>21, <1>24 DEF StatusCell
  <2>4. Finished(t, w, r)' <=> Finished(t, w, r)
    BY <2>3 DEF Finished
  <2>5. ASSUME NEW j \in 1..r, Finished(t, w, r), ~(n + 1 \in (w + 6)..(w + 5 + j))
        PROVE  AnswerCell(t, w, r, j)' = Val("answer", t, j)
    <3>1. j \in Nat /\ n + 1 = w + 6 + k
      BY <1>6, <2>1
    <3>2. CASE j = k
      <4>1. ram'[Pos(t, w, r, w + 6 + j)] = Data(v)
        BY <1>11, <1>14, <3>1, <3>2
      <4> QED
        BY <2>2, <3>2, <4>1 DEF AnswerCell, Data
    <3>3. CASE j # k
      <4>1. ram'[Pos(t, w, r, w + 6 + j)] = ram[Pos(t, w, r, w + 6 + j)]
        <5>1. w + 6 + j # n + 1 /\ w + 6 + j \in (w + 6)..(w + 6 + r)
          BY <1>6, <3>1, <3>3, <2>1
        <5> QED
          BY <1>20, <5>1
      <4>2. ~(n \in (w + 6)..(w + 5 + j))
        BY <1>6, <2>1, <2>5, <3>1, <3>3
      <4>3. AnswerCell(t, w, r, j) = Val("answer", t, j)
        BY <2>5, <4>2 DEF StoreInv
      <4> QED
        BY <4>1, <4>3 DEF AnswerCell
    <3> QED
      BY <3>2, <3>3
  <2>6. StoreInv(t, w, r, n + 1)'
    BY <1>3, <1>4, <2>3, <2>4, <2>5 DEF StoreInv
  <2> QED
    BY <1>4, <1>7, <1>8, <1>10, <1>19, <2>4, <2>6
<1> QED
  BY <1>23, <1>24

LEMMA PollRuns ==
    ASSUME NEW t, NEW w, NEW r, Shaped(t, w, r), MemoryInv, Holds(t, w, r),
           NEW n, n = Len(ran), RunInv(t, w, r, n), ApbPoll
    PROVE  /\ RunInv(t, w, r, n + 1)' /\ Len(ran') = n + 1 /\ n = w + 4 /\ apb'.pc = "poll"
           /\ Answered(w, n + 1)' <=> Answered(w, n)
<1>1. PICK f, call : f = NextCommand /\ call = CallAt(t, w, r, n + 1)
  OBVIOUS
<1>2. ApbAt("POLL", {"status"}) /\ apb.pc = "command" /\ Execute(NextCommand, 3, "poll")
      /\ UNCHANGED <<regs, ctrl, runs>>
  BY DEF ApbPoll, ApbAt
<1>3. RunAt(t, w, r, n + 1)' /\ Len(ran') = n + 1 /\ apb'.pc = "poll"
  <2>1. RunAt(t, w, r, n) /\ 3 = 1 + Operands("POLL")
    BY DEF RunInv, Operands
  <2> QED
    BY <1>2, <2>1, RunExecutes
<1>4. call.op = "POLL" /\ CallIs(t, w, r, n + 1, call)
  BY <1>1, <1>2, RunFinds DEF RunInv
<1>5. w \in Nat /\ r \in Nat /\ n \in Nat
  BY WordNumbers DEF Shaped, RunInv, RunAt
<1>6. n = w + 4 /\ n + 1 = w + 5
  BY <1>4, <1>5 DEF CallIs
<1>7. RunData(t, w, r, n)
  BY DEF RunInv
<1>8. /\ n >= w + 4 /\ n + 1 >= w + 4 /\ n >= w + 2 /\ n >= 1 /\ n < Calls(w, r)
      /\ ~(n + 1 \in 1..(w + 3)) /\ \A i \in 1..w : i < n
  BY <1>5, <1>6 DEF Calls
<1>9. RunData(t, w, r, n + 1)'
  BY <1>2, <1>3, <1>6, <1>7, <1>8 DEF RunData, Answered
<1> QED
  BY <1>2, <1>3, <1>6, <1>8, <1>9 DEF RunInv, Answered

LEMMA PolledRuns ==
    ASSUME NEW t, NEW w, NEW r, Shaped(t, w, r), MemoryInv, NEW n,
           RunInv(t, w, r, n), ApbPolled
    PROVE  /\ RunInv(t, w, r, n)' /\ n = w + 5
           /\ apb'.pc = "command" /\ (Answered(w, n)' <=> Answered(w, n))
<1>1. apb.pc = "poll" /\ "DONE" \in regs.status /\ apb' = [apb EXCEPT !.pc = "command"]
      /\ UNCHANGED <<regs, ctrl, runs, ran>>
  BY DEF ApbPolled, historyVars
<1>2. n = w + 5 /\ ~ctrl.cmd
  BY <1>1 DEF RunInv, RunData
<1>3. apb'.address = apb.address /\ apb'.bit = apb.bit /\ apb'.word = apb.word
  BY <1>1
<1>4. RunAt(t, w, r, n)'
  BY <1>1, <1>3 DEF RunInv, RunAt, AtCall
<1>5. apb'.pc = "command"
  <2>1. "pc" \in DOMAIN apb
    BY DEF MemoryInv, ApbInv
  <2> QED
    BY <1>1, <2>1
<1>6. RunData(t, w, r, n)'
  BY <1>1, <1>2, <1>5 DEF RunInv, RunData, Answered
<1> QED
  BY <1>1, <1>2, <1>4, <1>5, <1>6 DEF RunInv, Answered

LEMMA TakeRuns ==
    ASSUME NEW t, NEW w, NEW r, Shaped(t, w, r), MemoryInv, Holds(t, w, r), ~ctrl.cmd, ApbTake
    PROVE  /\ RunInv(t, w, r, 0)' /\ Len(ran') = 0 /\ ~Answered(w, 0)' /\ apb'.pc = "command"
           /\ queue' = queue - 1 /\ queue \in Nat /\ queue > 0 /\ 0 <= w + 5
<1>1. apb' = [pc |-> "command", address |-> 2, word |-> ram[1].ops, bit |-> 0] /\ ran' = <<>>
      /\ UNCHANGED <<regs, ctrl, runs>> /\ queue' = queue - 1 /\ queue > 0
  BY Zenon DEF ApbTake, IdleApb
<1>2. PICK b : b = Buffer[t][<<w, r>>]
  OBVIOUS
<1>3. Layout(t, w, r, b)
  BY <1>2, BufferLayout
<1>4. w \in Nat /\ r \in Nat /\ Calls(w, r) \in Nat
  BY WordNumbers DEF Shaped, Calls
<1>5. Pos(t, w, r, 0) = 1 /\ Idx(t, w, r, 0) = 1 /\ Bit(t, w, r, 0) = 0 /\ b[1].c = "command"
  BY <1>3 DEF Layout
<1>6. ram[1] = b[1]
  <2>1. Len(b) \in Nat /\ Len(b) > 1
    BY <1>2, BufferLength
  <2>2. ram \in Seq(Cells)
    BY DEF MemoryInv, RamInv
  <2>3. \A i \in 1..Len(b) : b[i].c # "data" => ram[i] = b[i]
    BY <1>2, <2>2, HoldsCells
  <2> QED
    BY <1>5, <2>1, <2>3
<1>7. RunAt(t, w, r, 0)'
  <2>1. AtCall(t, w, r, 0)'
    BY <1>1, <1>2, <1>5, <1>6 DEF AtCall
  <2>2. 0 \in 0..Calls(w, r) /\ 1..0 = {}
    BY <1>4
  <2> QED
    BY <2>1, <2>2 DEF RunAt
<1>8. ~(0 >= w + 4) /\ ~(0 >= w + 2) /\ ~(0 >= 1) /\ ~(0 \in 1..(w + 3)) /\ 0 <= w + 5
  BY <1>4
<1>9. ctrl.pc # "execute" /\ queue \in Nat
  BY DEF MemoryInv, ControllerInv, RamInv
<1>10. RunData(t, w, r, 0)'
  BY <1>1, <1>8, <1>9 DEF RunData, Answered
<1> QED
  BY <1>1, <1>7, <1>8, <1>9, <1>10 DEF RunInv, Answered

LEMMA RunEnds ==
    ASSUME NEW t, NEW w, NEW r, Shaped(t, w, r), MemoryInv, Holds(t, w, r),
           NEW n, RunInv(t, w, r, n)
    PROVE  ~ApbDerail /\ (ApbDone => n = Calls(w, r) /\ ~ctrl.cmd)
<1>1. PICK f, call : f = NextCommand /\ call = CallAt(t, w, r, n + 1)
  OBVIOUS
<1>2. n \in 0..Calls(w, r) /\ AtCall(t, w, r, n) /\ ram \in Seq(Cells)
  BY DEF RunInv, RunAt, MemoryInv, RamInv
<1>3. w \in Nat /\ r \in Nat /\ Calls(w, r) \in Nat /\ n \in Nat
      /\ w \in 0..MaxWords /\ r \in 0..MaxWords /\ t \in Txs
  BY <1>2, WordNumbers DEF Shaped, Calls
<1>4. (n < Calls(w, r) => Finds(t, w, r, n, f, call)) /\ (n = Calls(w, r) => Cell(f.address).c = "end")
  BY <1>1, <1>2, CommandFetched
<1>5. Finds(t, w, r, n, f, call) => Cell(f.address).c = "register" /\ Cell(f.address).r = call.r
  BY DEF Finds, Register
<1>6. n < Calls(w, r) \/ n = Calls(w, r)
  BY <1>2, <1>3
<1>7. ApbDone => n = Calls(w, r) /\ ~ctrl.cmd
  <2>1. SUFFICES ASSUME ApbDone PROVE n = Calls(w, r) /\ ~ctrl.cmd
    OBVIOUS
  <2>2. Cell(f.address).c = "end" /\ apb.pc = "command"
    BY <1>1, <2>1 DEF ApbDone
  <2>3. n = Calls(w, r)
    BY <1>4, <1>5, <1>6, <2>2
  <2>4. n # w + 4 /\ n # w + 5
    BY <1>3, <2>3 DEF Calls
  <2> QED
    BY <2>2, <2>3, <2>4 DEF RunInv, RunData
<1>8. ASSUME n < Calls(w, r) PROVE WellFormed(f)
  <2>1. Finds(t, w, r, n, f, call) /\ n + 1 \in 1..Calls(w, r)
    BY <1>3, <1>4, <1>8
  <2>2. /\ call.op \in OpNames /\ call.v \in Values
        /\ call.op = "WR" => call.v.k \in Writable(call.r)
    BY <1>1, <1>3, <2>1, CallKinds
  <2>3. CommandAt(f) = call.op /\ call.op # "ERROR"
    BY <2>1, <2>2 DEF Finds, OpNames
  <2>4. Cell(f.address).c = "register" /\ Cell(f.address).r = call.r /\ Cell(f.address + 1).c = "data"
    BY <1>5, <2>1 DEF Finds
  <2>5. call.op = "WR" => Cell(f.address + 1).v = call.v
    BY <2>1 DEF Finds, Data
  <2>6. call.op = "POLL" => Cell(f.address + 2).c = "data"
    BY <2>1 DEF Finds
  <2> QED
    BY <2>2, <2>3, <2>4, <2>5, <2>6 DEF WellFormed, Writable
<1>9. ~ApbDerail
  BY <1>1, <1>4, <1>6, <1>8 DEF ApbDerail
<1> QED
  BY <1>7, <1>9

\* The controller's thread while a sequence runs.
LEMMA StartRuns ==
    ASSUME NEW t, NEW w, NEW r, Shaped(t, w, r), MemoryInv, NEW n, RunInv(t, w, r, n), I2cStart
    PROVE  RunInv(t, w, r, n)' /\ (Answered(w, n)' <=> Answered(w, n))
<1>1. /\ ctrl.cmd /\ UNCHANGED <<apb, ran, runs>> /\ regs' = [regs EXCEPT !.status = {"BUSY"}]
      /\ ctrl' = [ctrl EXCEPT !.pc = "execute",
                  !.words = [i \in 1..regs.num_bytes.t |->
                                IF i \in DOMAIN regs.data THEN regs.data[i] ELSE Zero]]
  BY DEF I2cStart, historyVars
<1>2. w \in Nat /\ r \in Nat /\ n \in Nat
  BY WordNumbers DEF Shaped, RunInv, RunAt
<1>3. RunData(t, w, r, n) /\ n \in {w + 4, w + 5} /\ ~Answered(w, n)
  BY <1>1 DEF RunInv, RunData, Answered
<1>4. /\ n >= w + 2 /\ n >= 1 /\ \A i \in 1..w : i < n
      /\ ~(n \in 1..(w + 3))
  BY <1>2, <1>3
<1>5. /\ regs.num_bytes = Val("bytes", w, r)
      /\ \A i \in 1..w : i \in DOMAIN regs.data /\ regs.data[i] = Val("word", t, i)
  BY <1>3, <1>4 DEF RunData
<1>6. regs.num_bytes.t = w
  BY <1>5 DEF Val
<1>7. PICK words : words = [i \in 1..w |-> Val("word", t, i)]
  BY Zenon
<1>8. ctrl' = [ctrl EXCEPT !.pc = "execute", !.words = words]
  <2>1. [i \in 1..w |-> IF i \in DOMAIN regs.data THEN regs.data[i] ELSE Zero] = words
    BY <1>5, <1>7
  <2> QED
    BY <1>1, <1>6, <2>1, Zenon
<1>9. /\ regs \in [num_bytes : Values, status : SUBSET Flags, data : Seq(Values)]
      /\ ctrl \in [cmd : BOOLEAN, peripheral : Nat, pc : {"wait", "execute"}, words : Seq(Values)]
  BY DEF MemoryInv, ControllerInv
<1>10. /\ regs'.num_bytes = regs.num_bytes /\ regs'.data = regs.data /\ regs'.status = {"BUSY"}
       /\ ctrl'.cmd = ctrl.cmd /\ ctrl'.peripheral = ctrl.peripheral /\ ctrl'.words = words
  BY <1>1, <1>8, <1>9, Zenon
<1>11. RunData(t, w, r, n)'
  BY <1>1, <1>3, <1>4, <1>7, <1>10 DEF RunData, Answered
<1> QED
  BY <1>1, <1>10, <1>11 DEF RunInv, RunAt, AtCall, Answered

LEMMA FailRuns ==
    ASSUME NEW t, NEW w, NEW r, Shaped(t, w, r), MemoryInv, NEW n, RunInv(t, w, r, n), I2cFail,
           \A u \in Txs : runs'[u] >= runs[u] /\ runs[u] \in Nat /\ runs'[u] \in Nat
    PROVE  RunInv(t, w, r, n)' /\ ~Answered(w, n)' /\ ~Answered(w, n) /\ ctrl.cmd
<1>1. /\ ctrl.cmd /\ UNCHANGED <<apb, ran>> /\ regs' = [regs EXCEPT !.status = {"I2C_ERR"}]
      /\ ctrl' = [ctrl EXCEPT !.pc = "wait", !.words = <<>>]
  BY DEF I2cFail, MemoryInv, ControllerInv
<1>2. w \in Nat /\ r \in Nat /\ n \in Nat
  BY WordNumbers DEF Shaped, RunInv, RunAt
<1>3. RunData(t, w, r, n) /\ n \in {w + 4, w + 5} /\ ~Answered(w, n) /\ ~(n \in 1..(w + 3))
  BY <1>1, <1>2 DEF RunInv, RunData, Answered
<1>4. /\ regs \in [num_bytes : Values, status : SUBSET Flags, data : Seq(Values)]
      /\ ctrl \in [cmd : BOOLEAN, peripheral : Nat, pc : {"wait", "execute"}, words : Seq(Values)]
  BY DEF MemoryInv, ControllerInv
<1>5. /\ regs'.num_bytes = regs.num_bytes /\ regs'.data = regs.data /\ regs'.status = {"I2C_ERR"}
      /\ ctrl'.cmd = ctrl.cmd /\ ctrl'.peripheral = ctrl.peripheral /\ ctrl'.pc = "wait"
  BY <1>1, <1>4, Zenon
<1>6. RunData(t, w, r, n)'
  BY <1>1, <1>3, <1>5 DEF RunData, Answered
<1> QED
  BY <1>1, <1>3, <1>5, <1>6 DEF RunInv, RunAt, AtCall, Answered

LEMMA AnswerRuns ==
    ASSUME NEW t, NEW w, NEW r, Shaped(t, w, r), MemoryInv, NEW n, RunInv(t, w, r, n), I2cAnswer,
           runs \in [Txs -> Nat]
    PROVE  /\ RunInv(t, w, r, n)' /\ Answered(w, n)' /\ ~Answered(w, n) /\ ctrl.cmd
<1>1. /\ ctrl.cmd /\ UNCHANGED <<apb, ran>>
      /\ ctrl' = [cmd |-> FALSE, peripheral |-> 0, pc |-> "wait", words |-> <<>>]
  BY DEF I2cAnswer, AfterDone, MemoryInv, ControllerInv
<1>2. w \in Nat /\ r \in Nat /\ n \in Nat
  BY WordNumbers DEF Shaped, RunInv, RunAt
<1>3. RunData(t, w, r, n) /\ n \in {w + 4, w + 5} /\ ~Answered(w, n) /\ ctrl.peripheral = t
      /\ ~(n \in 1..(w + 3)) /\ n >= w + 4 /\ n >= w + 2 /\ (apb.pc = "poll" => n = w + 5)
  BY <1>1, <1>2 DEF RunInv, RunData, Answered
<1>4. regs \in [num_bytes : Values, status : SUBSET Flags, data : Seq(Values)]
      /\ regs.num_bytes = Val("bytes", w, r)
  BY <1>3 DEF MemoryInv, ControllerInv, RunData
<1>5. PICK k : k = (IF r > Len(regs.data) THEN r ELSE Len(regs.data))
  OBVIOUS
<1>6. PICK data : data = [i \in 1..k |-> IF i <= r THEN Val("answer", t, i) ELSE regs.data[i]]
  BY Zenon
<1>7. PICK flags \in {{"DONE"}, {"DONE", "NAK"}, {"DONE", "I2C_ERR"}} :
         regs' = [regs EXCEPT !.status = flags, !.data = data]
  <2>1. regs.num_bytes.i = r /\ ctrl.peripheral = t
    BY <1>3, <1>4 DEF Val
  <2> QED
    BY <1>5, <1>6, <2>1, Zenon DEF I2cAnswer
<1>8. /\ regs'.num_bytes = regs.num_bytes /\ regs'.data = data /\ "DONE" \in regs'.status
      /\ ctrl'.cmd = FALSE /\ ctrl'.pc = "wait"
  BY <1>1, <1>4, <1>7
<1>9. \A i \in 1..r : i \in DOMAIN data /\ data[i] = Val("answer", t, i)
  <2>1. Len(regs.data) \in Nat
    BY <1>4
  <2>2. ASSUME NEW i \in 1..r PROVE i \in 1..k /\ i <= r
    BY <1>2, <1>5, <2>1
  <2> QED
    BY <1>6, <2>2
<1>10. runs'[t] > 0
  <2>1. runs' = [runs EXCEPT ![t] = @ + 1] /\ t \in Txs
    BY <1>3 DEF I2cAnswer, Shaped
  <2> QED
    BY <2>1
<1>11. Answered(w, n)'
  BY <1>3, <1>8 DEF Answered
<1>12. RunData(t, w, r, n)'
  BY <1>1, <1>3, <1>4, <1>8, <1>9, <1>10, <1>11 DEF RunData
<1> QED
  BY <1>1, <1>3, <1>11, <1>12 DEF RunInv, RunAt, AtCall

-----------------------------------------------------------------------------
(* The sequence in the memory, after each step of the device. *)

InMemory(t, w, r, n) ==
    /\ t \in 1..begun /\ Shaped(t, w, r) /\ n \in Nat /\ n = Len(ran)
    /\ CurrentInv(t, w, r, n)

LEMMA Current ==
    ASSUME MemoryInv, HostInv, SequenceInv, ~overwritten, ram # <<>>
    PROVE  \E t : \E w : \E r : \E n : InMemory(t, w, r, n)
<1>1. PICK t \in 1..begun : CurrentInv(t, asked[t][1], asked[t][2], Len(ran))
  BY DEF SequenceInv
<1>2. PICK w : w = asked[t][1]
  OBVIOUS
<1>3. PICK r : r = asked[t][2]
  OBVIOUS
<1>4. PICK n : n = Len(ran)
  BY Zenon
<1>5. n \in Nat
  BY <1>4 DEF MemoryInv, ApbInv
<1>6. Shaped(t, w, r)
  <2>1. begun \in 0..MaxTx /\ MaxTx \in Nat
    BY I2cAssumption DEF HostInv, HistoryInv
  <2>2. t \in Txs
    BY <2>1 DEF Txs
  <2>3. asked[t] \in Shapes
    BY DEF HostInv, HistoryInv
  <2>4. asked[t] \in (0..MaxWords) \X (0..MaxWords)
    BY <2>3, I2cAssumption
  <2>5. asked[t] = <<w, r>> /\ w \in 0..MaxWords /\ r \in 0..MaxWords
    BY <1>2, <1>3, <2>4
  <2> QED
    BY <2>2, <2>3, <2>5 DEF Shaped
<1>7. CurrentInv(t, w, r, n)
  BY <1>1, <1>2, <1>3, <1>4
<1>8. InMemory(t, w, r, n)
  BY <1>4, <1>5, <1>6, <1>7 DEF InMemory
<1> QED
  BY <1>8

LEMMA CurrentAfter ==
    ASSUME NEW t, NEW w, NEW r, NEW n, InMemory(t, w, r, n)', ram' # <<>>,
           \A u \in Txs : runs'[u] <= triggers'[u]
    PROVE  SequenceInv'
<1>1. t \in 1..begun' /\ n = Len(ran') /\ CurrentInv(t, w, r, n)'
  BY DEF InMemory
<1>2. asked'[t] = <<w, r>>
  BY <1>1 DEF CurrentInv
<1>3. w = asked'[t][1] /\ r = asked'[t][2]
  BY <1>2
<1>4. CurrentInv(t, asked[t][1], asked[t][2], Len(ran))'
  BY <1>1, <1>3
<1> QED
  BY <1>1, <1>4 DEF SequenceInv

\* What the sequence stored stays.
LEMMA StoreKept ==
    ASSUME NEW t, NEW w, NEW r, NEW n, NEW m, StoreInv(t, w, r, n), ram' = ram,
           runs[t] > 0 => runs'[t] > 0,
           \A j \in 1..r : apb.pc = "command" /\ n \in (w + 6)..(w + 5 + j) =>
                              apb'.pc = "command" /\ m \in (w + 6)..(w + 5 + j)
    PROVE  StoreInv(t, w, r, m)' /\ (Finished(t, w, r)' <=> Finished(t, w, r))
<1>1. StatusCell(t, w, r)' = StatusCell(t, w, r)
  BY DEF StatusCell
<1>2. Finished(t, w, r)' <=> Finished(t, w, r)
  BY <1>1 DEF Finished
<1>3. \A j \in 1..r : AnswerCell(t, w, r, j)' = AnswerCell(t, w, r, j)
  BY DEF AnswerCell
<1> QED
  BY <1>1, <1>2, <1>3 DEF StoreInv

LEMMA HeldStill ==
    ASSUME NEW t, NEW w, NEW r, Holds(t, w, r), ram' = ram PROVE Holds(t, w, r)'
BY DEF Holds

LEMMA CountKept ==
    ASSUME NEW t \in Txs, NEW w, NEW r, NEW n, NEW m, MemoryInv, HostInv,
           UNCHANGED <<runs, triggers>>, queue' \in Nat, NEW q \in 0..1, queue' = queue - q,
           CountInv(t, w, r, n),
           Busy' /\ ~Answered(w, m)' => (Busy /\ ~Answered(w, n)) \/ q = 1,
           Busy' /\ m <= w + 5 => (Busy /\ n <= w + 5) \/ q = 1,
           \/ Finished(t, w, r)' => Finished(t, w, r)
           \/ Busy /\ n <= w + 5 /\ ~(m <= w + 5)
    PROVE  CountInv(t, w, r, m)'
<1>1. runs[t] \in Nat /\ triggers[t] \in Nat /\ queue \in Nat
  BY DEF HostInv, HistoryInv, MemoryInv, RamInv
<1>2. PICK a : a = Count(Busy /\ ~Answered(w, n))
  OBVIOUS
<1>3. PICK b : b = Count(Busy /\ n <= w + 5)
  OBVIOUS
<1>4. PICK c : c = Count(Finished(t, w, r))
  OBVIOUS
<1>5. PICK a2 : a2 = Count(Busy /\ ~Answered(w, m))'
  OBVIOUS
<1>6. PICK b2 : b2 = Count(Busy /\ m <= w + 5)'
  OBVIOUS
<1>7. PICK c2 : c2 = Count(Finished(t, w, r))'
  OBVIOUS
<1>8. /\ a \in {0, 1} /\ (Busy /\ ~Answered(w, n) => a = 1)
      /\ b \in {0, 1} /\ (Busy /\ n <= w + 5 => b = 1)
      /\ c \in {0, 1} /\ (Finished(t, w, r) => c = 1)
  BY <1>2, <1>3, <1>4 DEF Count
<1>9. /\ a2 \in {0, 1} /\ (a2 = 1 => Busy' /\ ~Answered(w, m)')
      /\ b2 \in {0, 1} /\ (b2 = 1 => Busy' /\ m <= w + 5)
      /\ c2 \in {0, 1} /\ (c2 = 1 => Finished(t, w, r)')
  BY <1>5, <1>6, <1>7 DEF Count
<1>10. (a2 = 1 => a = 1 \/ q = 1) /\ (b2 = 1 => b = 1 \/ q = 1)
       /\ ((c2 = 1 => c = 1) \/ (b = 1 /\ b2 = 0))
  <2>1. (a2 = 1 => a = 1 \/ q = 1) /\ (b2 = 1 => b = 1 \/ q = 1)
    BY <1>8, <1>9
  <2>2. CASE Finished(t, w, r)' => Finished(t, w, r)
    BY <1>8, <1>9, <2>1, <2>2
  <2>3. CASE Busy /\ n <= w + 5 /\ ~(m <= w + 5)
    BY <1>8, <1>9, <2>1, <2>3
  <2> QED
    BY <2>2, <2>3
<1>11. runs[t] + queue + a <= triggers[t] /\ queue + b + c <= triggers[t]
  BY <1>2, <1>3, <1>4 DEF CountInv
<1>12. runs[t] + queue' + a2 <= triggers[t] /\ queue' + b2 + c2 <= triggers[t]
  BY <1>1, <1>8, <1>9, <1>10, <1>11
<1>13. runs'[t] + queue' + a2 <= triggers'[t] /\ queue' + b2 + c2 <= triggers'[t]
  BY <1>12
<1> QED
  BY <1>5, <1>6, <1>7, <1>13 DEF CountInv

LEMMA InMemoryAfter ==
    ASSUME NEW t, NEW w, NEW r, NEW n, InMemory(t, w, r, n), UNCHANGED <<begun, asked, host>>,
           NEW m \in Nat, m = Len(ran'), Holds(t, w, r)', apb'.pc # "derailed",
           Busy' => RunInv(t, w, r, m)', ~Busy' => ~ctrl'.cmd,
           StoreInv(t, w, r, m)', CountInv(t, w, r, m)'
    PROVE  InMemory(t, w, r, m)'
BY DEF InMemory, CurrentInv, Enabled

\* The APB event thread.
LEMMA ApbKeeps ==
    ASSUME MemoryInv, HostInv, I2cNext, Apb, NEW t, NEW w, NEW r, NEW n, InMemory(t, w, r, n)
    PROVE  /\ \E m : InMemory(t, w, r, m)'
           /\ Finished(t, w, r) => Finished(t, w, r)'
<1>1. /\ Shaped(t, w, r) /\ t \in Txs /\ n = Len(ran) /\ n \in Nat /\ CurrentInv(t, w, r, n)
      /\ w \in Nat /\ r \in Nat
  BY WordNumbers DEF InMemory, Shaped
<1>2. /\ Holds(t, w, r) /\ (Busy => RunInv(t, w, r, n)) /\ (~Busy => ~ctrl.cmd)
      /\ StoreInv(t, w, r, n) /\ CountInv(t, w, r, n)
  BY <1>1 DEF CurrentInv
<1>3. UNCHANGED <<host, begun, asked, triggers, runs>>
  BY DEF Apb, ApbTake, ApbDone, ApbDerail, ApbWrite, ApbControl, ApbRead, ApbPoll, ApbPolled,
         historyVars
<1>4. queue \in Nat /\ queue' \in Nat /\ queue - 0 = queue /\ MemoryInv'
  BY MemoryStep DEF MemoryInv, RamInv
<1>5. CASE ApbTake
  <2>1. ram' = ram /\ ~Busy /\ apb.pc # "command"
    BY <1>5 DEF ApbTake, Busy
  <2>2. /\ RunInv(t, w, r, 0)' /\ Len(ran') = 0 /\ ~Answered(w, 0)' /\ apb'.pc = "command"
        /\ queue' = queue - 1 /\ 0 <= w + 5
    BY <1>1, <1>2, <1>5, <2>1, TakeRuns
  <2>3. Busy'
    BY <2>2 DEF Busy
  <2>4. StoreInv(t, w, r, 0)' /\ (Finished(t, w, r)' <=> Finished(t, w, r))
    BY <1>2, <1>3, <2>1, StoreKept
  <2>5. CountInv(t, w, r, 0)'
    <3>1. 1 \in 0..1
      OBVIOUS
    <3> QED
      BY <1>1, <1>2, <1>3, <1>4, <2>2, <2>4, <3>1, CountKept
  <2>6. InMemory(t, w, r, 0)'
    BY <1>2, <1>3, <2>1, <2>2, <2>3, <2>4, <2>5, HeldStill, InMemoryAfter
  <2> QED
    BY <2>4, <2>6
<1>6. CASE ApbDone
  <2>1. ram' = ram /\ UNCHANGED <<ctrl, ran, queue>> /\ apb.pc = "command" /\ apb'.pc = "idle"
    BY <1>6 DEF ApbDone, historyVars, IdleApb
  <2>2. Busy /\ ~Busy'
    BY <2>1 DEF Busy
  <2>3. n = Calls(w, r) /\ ~ctrl.cmd
    BY <1>1, <1>2, <1>6, <2>2, RunEnds
  <2>4. \A j \in 1..r : ~(n \in (w + 6)..(w + 5 + j))
    BY <1>1, <2>3 DEF Calls
  <2>5. StoreInv(t, w, r, n)' /\ (Finished(t, w, r)' <=> Finished(t, w, r))
    BY <1>2, <1>3, <2>1, <2>4, StoreKept
  <2>6. CountInv(t, w, r, n)'
    <3>1. 0 \in 0..1 /\ queue' = queue - 0
      BY <1>4, <2>1
    <3> QED
      BY <1>1, <1>2, <1>3, <1>4, <2>2, <2>5, <3>1, CountKept
  <2>7. InMemory(t, w, r, n)'
    BY <1>1, <1>2, <1>3, <2>1, <2>2, <2>3, <2>5, <2>6, HeldStill, InMemoryAfter
  <2> QED
    BY <2>5, <2>7
<1>7. CASE ApbDerail
  <2>1. Busy
    BY <1>7 DEF ApbDerail, Busy
  <2> QED
    BY <1>1, <1>2, <1>7, <2>1, RunEnds
\* A command that leaves the sequence as it is.
<1>8. ASSUME NEW m \in Nat, m = Len(ran'), RunInv(t, w, r, m)', apb'.pc \in {"command", "poll"},
             Busy, UNCHANGED <<ram, queue>>,
             ~Answered(w, m)' => ~Answered(w, n), m <= w + 5 => n <= w + 5,
             \A j \in 1..r : ~(apb.pc = "command" /\ n \in (w + 6)..(w + 5 + j))
      PROVE  InMemory(t, w, r, m)' /\ (Finished(t, w, r)' <=> Finished(t, w, r))
  <2>1. StoreInv(t, w, r, m)' /\ (Finished(t, w, r)' <=> Finished(t, w, r))
    BY <1>2, <1>3, <1>8, StoreKept
  <2>2. CountInv(t, w, r, m)'
    <3>1. 0 \in 0..1 /\ queue' = queue - 0
      BY <1>4, <1>8
    <3> QED
      BY <1>1, <1>2, <1>3, <1>4, <1>8, <2>1, <3>1, CountKept
  <2>3. Busy' /\ apb'.pc # "derailed"
    BY <1>8 DEF Busy
  <2>4. InMemory(t, w, r, m)'
    BY <1>2, <1>3, <1>8, <2>1, <2>2, <2>3, HeldStill, InMemoryAfter
  <2> QED
    BY <2>1, <2>4
<1>9. CASE ApbWrite
  <2>1. Busy /\ UNCHANGED <<ram, queue, ctrl>> /\ apb'.pc = "command"
    BY <1>9 DEF ApbWrite, ApbAt, Busy, Execute
  <2>2. RunInv(t, w, r, n + 1)' /\ Len(ran') = n + 1 /\ n \in 1..(w + 2)
    BY <1>1, <1>2, <1>9, <2>1, WriteRuns
  <2>3. ~Answered(w, n) /\ n <= w + 5 /\ \A j \in 1..r : ~(n \in (w + 6)..(w + 5 + j))
    BY <1>1, <2>2 DEF Answered
  <2>4. n + 1 \in Nat
    BY <1>1
  <2> QED
    BY <1>8, <2>1, <2>2, <2>3, <2>4
<1>10. CASE ApbControl
  <2>1. Busy /\ UNCHANGED <<ram, queue>>
    BY <1>10 DEF ApbControl, ApbAt, Busy
  <2>2. /\ RunInv(t, w, r, n + 1)' /\ Len(ran') = n + 1 /\ n \in {0, w + 3, w + r + 6}
        /\ apb'.pc = "command" /\ (Answered(w, n + 1)' <=> Answered(w, n))
    BY <1>1, <1>2, <1>10, <2>1, ControlRuns
  <2>3. n + 1 \in Nat /\ (n + 1 <= w + 5 => n <= w + 5)
        /\ \A j \in 1..r : ~(n \in (w + 6)..(w + 5 + j))
    BY <1>1, <2>2
  <2> QED
    BY <1>8, <2>1, <2>2, <2>3
<1>11. CASE ApbPoll
  <2>1. Busy /\ UNCHANGED <<ram, queue>>
    BY <1>11 DEF ApbPoll, ApbAt, Busy
  <2>2. /\ RunInv(t, w, r, n + 1)' /\ Len(ran') = n + 1 /\ n = w + 4 /\ apb'.pc = "poll"
        /\ Answered(w, n + 1)' <=> Answered(w, n)
    BY <1>1, <1>2, <1>11, <2>1, PollRuns
  <2>3. n + 1 \in Nat /\ n <= w + 5 /\ \A j \in 1..r : ~(n \in (w + 6)..(w + 5 + j))
    BY <1>1, <2>2
  <2> QED
    BY <1>8, <2>1, <2>2, <2>3
<1>12. CASE ApbPolled
  <2>1. Busy /\ UNCHANGED <<ram, queue, ran>> /\ apb.pc = "poll"
    BY <1>12 DEF ApbPolled, Busy, historyVars
  <2>2. /\ RunInv(t, w, r, n)' /\ n = w + 5
        /\ apb'.pc = "command" /\ (Answered(w, n)' <=> Answered(w, n))
    BY <1>1, <1>2, <1>12, <2>1, PolledRuns
  <2> QED
    BY <1>1, <1>8, <2>1, <2>2
<1>13. CASE ApbRead
  <2>1. Busy /\ UNCHANGED <<queue, ctrl>>
    BY <1>13 DEF ApbRead, ApbAt, Busy
  <2>2. /\ RunInv(t, w, r, n + 1)' /\ Len(ran') = n + 1 /\ n \in (w + 5)..(w + 5 + r)
        /\ Holds(t, w, r)' /\ StoreInv(t, w, r, n + 1)'
        /\ Answered(w, n) /\ Answered(w, n + 1)' /\ apb'.pc = "command"
        /\ Finished(t, w, r) => Finished(t, w, r)'
        /\ n >= w + 6 /\ Finished(t, w, r)' => Finished(t, w, r)
    BY <1>1, <1>2, <1>13, <2>1, ReadRuns
  <2>3. n + 1 \in Nat /\ ~(n + 1 <= w + 5) /\ (n >= w + 6 \/ n <= w + 5)
    BY <1>1, <2>2
  <2>4. CountInv(t, w, r, n + 1)'
    <3>1. 0 \in 0..1 /\ queue' = queue - 0
      BY <1>4, <2>1
    <3>2. \/ Finished(t, w, r)' => Finished(t, w, r)
          \/ Busy /\ n <= w + 5 /\ ~(n + 1 <= w + 5)
      BY <2>1, <2>2, <2>3
    <3> QED
      BY <1>1, <1>2, <1>3, <1>4, <2>2, <2>3, <3>1, <3>2, CountKept
  <2>5. Busy' /\ apb'.pc # "derailed"
    BY <2>2 DEF Busy
  <2>6. InMemory(t, w, r, n + 1)'
    BY <1>3, <2>2, <2>3, <2>4, <2>5, InMemoryAfter
  <2> QED
    BY <2>2, <2>6
<1> QED
  BY <1>5, <1>6, <1>7, <1>9, <1>10, <1>11, <1>12, <1>13 DEF Apb

\* The controller's thread.
LEMMA ControllerKeeps ==
    ASSUME MemoryInv, HostInv, I2cNext, Controller, NEW t, NEW w, NEW r, NEW n, InMemory(t, w, r, n),
           \A u \in Txs : runs[u] <= triggers[u]
    PROVE  /\ InMemory(t, w, r, n)' /\ (Finished(t, w, r)' <=> Finished(t, w, r))
           /\ (wrong' <=> wrong) /\ \A u \in Txs : runs'[u] >= runs[u]
           /\ \A u \in Txs : runs'[u] <= triggers'[u]
<1>1. /\ Shaped(t, w, r) /\ t \in Txs /\ n = Len(ran) /\ n \in Nat /\ CurrentInv(t, w, r, n)
      /\ w \in Nat /\ r \in Nat
  BY WordNumbers DEF InMemory, Shaped
<1>2. /\ Holds(t, w, r) /\ (Busy => RunInv(t, w, r, n)) /\ (~Busy => ~ctrl.cmd)
      /\ StoreInv(t, w, r, n) /\ CountInv(t, w, r, n) /\ asked[t] = <<w, r>> /\ apb.pc # "derailed"
  BY <1>1 DEF CurrentInv
<1>3. UNCHANGED <<host, begun, asked, triggers, ram, queue, apb, ran>>
  BY DEF Controller, I2cStart, I2cAnswer, I2cFail, historyVars
<1>4. runs \in [Txs -> Nat] /\ triggers \in [Txs -> Nat] /\ queue \in Nat
  BY DEF HostInv, HistoryInv, MemoryInv, RamInv
<1>5. ctrl.cmd /\ Busy /\ Busy'
  <2>1. ctrl.cmd
    BY DEF Controller, I2cStart, I2cAnswer, I2cFail, MemoryInv, ControllerInv
  <2> QED
    BY <1>2, <1>3, <2>1 DEF Busy
<1>6. RunInv(t, w, r, n) /\ RunData(t, w, r, n)
  BY <1>2, <1>5 DEF RunInv
<1>7. ASSUME Given, ctrl.pc = "execute" PROVE ctrl.peripheral = t /\ (wrong' <=> wrong)
  <2>1. ctrl.peripheral = t /\ ctrl.words = [i \in 1..w |-> Val("word", t, i)]
    BY <1>5, <1>6, <1>7 DEF RunData
  <2>2. asked[ctrl.peripheral][1] = w
    BY <1>2, <2>1
  <2> QED
    BY <1>7, <2>1, <2>2, Zenon DEF Given
\* What remains to be shown of each step.
<1>8. ASSUME RunInv(t, w, r, n)', CountInv(t, w, r, n)', \A u \in Txs : runs'[u] >= runs[u],
             runs' \in [Txs -> Nat]
      PROVE  InMemory(t, w, r, n)' /\ (Finished(t, w, r)' <=> Finished(t, w, r))
  <2>1. runs[t] > 0 => runs'[t] > 0
    BY <1>1, <1>4, <1>8
  <2>2. StoreInv(t, w, r, n)' /\ (Finished(t, w, r)' <=> Finished(t, w, r))
    BY <1>2, <1>3, <2>1, StoreKept
  <2>3. InMemory(t, w, r, n)'
    BY <1>1, <1>2, <1>3, <1>5, <1>8, <2>2, HeldStill, InMemoryAfter
  <2> QED
    BY <2>2, <2>3
<1>9. CASE I2cStart \/ I2cFail
  <2>1. runs' = runs /\ (wrong' <=> wrong)
    <3>1. CASE I2cStart
      BY <3>1 DEF I2cStart, historyVars
    <3>2. CASE I2cFail
      <4>1. Given /\ ctrl.pc = "execute" /\ runs' = runs
        BY <3>2 DEF I2cFail
      <4> QED
        BY <1>7, <4>1
    <3> QED
      BY <1>9, <3>1, <3>2
  <2>2. \A u \in Txs : runs'[u] >= runs[u] /\ runs[u] \in Nat /\ runs'[u] \in Nat
    BY <1>4, <2>1
  <2>3. RunInv(t, w, r, n)' /\ (Answered(w, n)' => Answered(w, n)) /\ (Answered(w, n) => Answered(w, n)')
    <3>1. CASE I2cStart
      BY <1>1, <1>6, <3>1, StartRuns
    <3>2. CASE I2cFail
      BY <1>1, <1>6, <2>2, <3>2, FailRuns
    <3> QED
      BY <1>9, <3>1, <3>2
  <2>4. CountInv(t, w, r, n)'
    <3>1. Finished(t, w, r)' => Finished(t, w, r)
      BY <1>3 DEF Finished, StatusCell
    <3>2. 0 \in 0..1 /\ queue' = queue - 0 /\ queue' \in Nat
      BY <1>3, <1>4
    <3> QED
      BY <1>1, <1>2, <1>3, <1>5, <2>1, <2>3, <3>1, <3>2, CountKept
  <2> QED
    BY <1>3, <1>4, <1>8, <2>1, <2>2, <2>3, <2>4
<1>10. CASE I2cAnswer
  <2>1. Given /\ ctrl.pc = "execute" /\ runs' = [runs EXCEPT ![ctrl.peripheral] = @ + 1]
    BY <1>10 DEF I2cAnswer
  <2>2. runs' = [runs EXCEPT ![t] = @ + 1] /\ (wrong' <=> wrong)
    BY <1>7, <2>1
  <2>3. /\ runs' \in [Txs -> Nat] /\ runs'[t] = runs[t] + 1
        /\ \A u \in Txs : u # t => runs'[u] = runs[u]
    BY <1>1, <1>4, <2>2
  <2>4. \A u \in Txs : runs'[u] >= runs[u] /\ runs[u] \in Nat /\ runs'[u] \in Nat
    BY <1>4, <2>3
  <2>5. RunInv(t, w, r, n)' /\ ~Answered(w, n) /\ Answered(w, n)'
    BY <1>1, <1>4, <1>6, <1>10, AnswerRuns
  <2>6. CountInv(t, w, r, n)'
    <3>1. PICK a : a = Count(Busy /\ ~Answered(w, n))
      OBVIOUS
    <3>2. PICK a2 : a2 = Count(Busy /\ ~Answered(w, n))'
      OBVIOUS
    <3>3. a = 1 /\ a2 = 0
      BY <1>5, <2>5, <3>1, <3>2 DEF Count
    <3>4. runs[t] + queue + a <= triggers[t]
      BY <1>2, <3>1 DEF CountInv
    <3>5. runs'[t] + queue' + a2 <= triggers'[t]
      <4>1. runs[t] \in Nat /\ triggers[t] \in Nat
        BY <1>1, <1>4
      <4> QED
        BY <1>3, <1>4, <1>10, <2>3, <2>5, <3>3, <3>4, <4>1
    <3>6. (queue + Count(Busy /\ n <= w + 5) + Count(Finished(t, w, r)) <= triggers[t])'
      <4>1. Finished(t, w, r)' <=> Finished(t, w, r)
        BY <1>3 DEF Finished, StatusCell
      <4> QED
        BY <1>2, <1>3, <1>5, <4>1 DEF CountInv, Count
    <3> QED
      BY <3>2, <3>5, <3>6 DEF CountInv
  <2>7. ASSUME NEW u \in Txs PROVE runs'[u] <= triggers'[u]
    <3>1. runs[u] <= triggers[u] /\ runs[u] \in Nat /\ triggers[u] \in Nat
      BY <1>4
    <3>2. CASE u = t
      <4>1. PICK a2 : a2 = Count(Busy /\ ~Answered(w, n))'
        OBVIOUS
      <4>2. a2 \in {0, 1}
        BY <4>1 DEF Count
      <4>3. runs'[t] + queue' + a2 <= triggers'[t]
        BY <2>6, <4>1 DEF CountInv
      <4> QED
        BY <1>3, <1>4, <2>4, <3>1, <3>2, <4>2, <4>3
    <3>3. CASE u # t
      BY <1>3, <1>4, <2>3, <3>1, <3>3
    <3> QED
      BY <3>2, <3>3
  <2> QED
    BY <1>8, <2>2, <2>3, <2>4, <2>5, <2>6, <2>7
<1> QED
  BY <1>9, <1>10 DEF Controller

-----------------------------------------------------------------------------
(* What a step makes of a host, and of the sequence in the memory. *)

\* got is what h has after reading a word.
ReadGot(h, got) ==
    \/ host[h].r = 0 /\ got = <<>>
    \/ /\ host[h].r # 0 /\ Len(host[h].got) + 1 \in 0..host[h].r
       /\ \E v \in Values :
             /\ got = Append(host[h].got, v)
             /\ LET i == Pos(host[h].tx, host[h].w, host[h].r,
                             host[h].w + 6 + (Len(host[h].got) + 1))
                IN  ram[i].c = "data" => v = ram[i].v

\* What a step of h makes of it.
GoesOn(h, d, p) == Becomes(h, d) /\ d.pc = p /\ d.code = host[h].code
Outcome(h, d) ==
    \/ TakeLock(h) /\ GoesOn(h, d, "enable")
    \/ Enable(h) /\ GoesOn(h, d, "trigger") /\ lock' = lock
    \/ Trigger(h) /\ GoesOn(h, d, "poll")
    \/ Poll(h) /\ GoesOn(h, d, "clear")
    \/ Clear(h) /\ GoesOn(h, d, "read") /\ d.got = host[h].got
    \/ ReadWord(h) /\ GoesOn(h, d, "read") /\ ReadGot(h, d.got)
    \/ /\ ReadWord(h) /\ Becomes(h, d) /\ ReadGot(h, d.got) /\ d.pc = "idle" /\ d.code = "ok"
       /\ Len(d.got) = d.r
    \/ /\ (Enable(h) /\ gave_up') \/ (Trigger(h) /\ gave_up') \/ Clear(h) \/ (GiveUp(h) /\ gave_up')
       /\ Becomes(h, d) /\ d.pc = "idle" /\ d.code \in {"nak", "error"} /\ lock' = NoHost

LEMMA Outcomes ==
    ASSUME RamInv, HostInv, NEW h \in Hosts, I2cProceed(h) PROVE \E d \in HostRecords : Outcome(h, d)
<1>1. ASSUME NEW p, HostMoves(h, p)
      PROVE  \E d \in HostRecords : GoesOn(h, d, p) /\ d.got = host[h].got
  BY <1>1, Zenon DEF HostMoves, GoesOn
<1>2. Throw(h) => \E d \in HostRecords : /\ Becomes(h, d) /\ d.pc = "idle"
                                         /\ d.code \in {"nak", "error"} /\ lock' = NoHost
  <2>1. SUFFICES ASSUME Leaves(h, "error", <<>>)
                 PROVE  \E d \in HostRecords : /\ Becomes(h, d) /\ d.pc = "idle"
                                               /\ d.code \in {"nak", "error"} /\ lock' = NoHost
    BY ThrowLeaves
  <2> QED
    BY <2>1, Zenon DEF Leaves
<1>3. CASE TakeLock(h)
  <2>1. HostMoves(h, "enable")
    BY <1>3, GotoMoves, Zenon DEF TakeLock
  <2> QED
    BY <1>1, <1>3, <2>1, Zenon DEF Outcome
<1>4. CASE Enable(h)
  <2>1. Goto(h, "trigger") \/ (Throw(h) /\ gave_up')
    BY <1>4, Zenon DEF Enable
  <2>2. CASE Goto(h, "trigger")
    <3>1. HostMoves(h, "trigger") /\ lock' = lock
      BY <2>2, GotoMoves, Zenon DEF Goto
    <3> QED
      BY <1>1, <1>4, <3>1, Zenon DEF Outcome
  <2> QED
    BY <1>2, <1>4, <2>1, <2>2, Zenon DEF Outcome
<1>5. CASE Trigger(h)
  <2>1. Goto(h, "poll") \/ (Throw(h) /\ gave_up')
    BY <1>5 DEF Trigger
  <2>2. CASE Goto(h, "poll")
    <3>1. HostMoves(h, "poll")
      BY <2>2, GotoMoves, Zenon DEF Goto
    <3> QED
      BY <1>1, <1>5, <3>1, Zenon DEF Outcome
  <2> QED
    BY <1>2, <1>5, <2>1, <2>2, Zenon DEF Outcome
<1>6. CASE Poll(h)
  <2>1. HostMoves(h, "clear")
    BY <1>6, GotoMoves, Zenon DEF Poll, Goto
  <2> QED
    BY <1>1, <1>6, <2>1, Zenon DEF Outcome
<1>7. CASE Clear(h)
  <2>1. Throw(h) \/ Return(h, "nak", <<>>) \/ Goto(h, "read")
    BY <1>7 DEF Clear
  <2>2. CASE Goto(h, "read")
    <3>1. HostMoves(h, "read")
      BY <2>2, GotoMoves, Zenon DEF Goto
    <3> QED
      BY <1>1, <1>7, <3>1, Zenon DEF Outcome
  <2>3. CASE Return(h, "nak", <<>>)
    <3>1. <<>> \in Seq(Values)
      OBVIOUS
    <3>2. Leaves(h, "nak", <<>>)
      BY <2>3, <3>1, ReturnLeaves, Zenon
    <3> QED
      BY <1>7, <3>2, Zenon DEF Leaves, Outcome
  <2> QED
    BY <1>2, <1>7, <2>1, <2>2, <2>3, Zenon DEF Outcome
<1>8. CASE ReadWord(h)
  <2>1. PICK got \in Seq(Values) :
          /\ ReadGot(h, got)
          /\ \/ Len(got) = host[h].r /\ Leaves(h, "ok", got)
             \/ /\ Len(got) # host[h].r /\ lock' = lock
                /\ \E d \in HostRecords : /\ Becomes(h, d) /\ d.pc = "read" /\ d.got = got
                                          /\ d.code = host[h].code
    BY <1>8, ReadAdds, Zenon DEF ReadGot
  <2>2. CASE Len(got) = host[h].r /\ Leaves(h, "ok", got)
    <3>1. PICK d \in HostRecords : Becomes(h, d) /\ d.pc = "idle" /\ d.code = "ok" /\ d.got = got
      BY <2>2, Zenon DEF Leaves
    <3>2. Len(d.got) = d.r /\ ReadGot(h, d.got)
      BY <2>1, <2>2, <3>1, Zenon DEF Becomes
    <3> QED
      BY <1>8, <3>1, <3>2, Zenon DEF Outcome
  <2>3. CASE \E d \in HostRecords : /\ Becomes(h, d) /\ d.pc = "read" /\ d.got = got
                                    /\ d.code = host[h].code
    <3>1. PICK d \in HostRecords : /\ Becomes(h, d) /\ d.pc = "read" /\ d.got = got
                                   /\ d.code = host[h].code
      BY <2>3, Zenon
    <3>2. ReadGot(h, d.got)
      BY <2>1, <3>1, Zenon
    <3> QED
      BY <1>8, <3>1, <3>2, Zenon DEF Outcome, GoesOn
  <2> QED
    BY <2>1, <2>2, <2>3, Zenon
<1>9. CASE GiveUp(h)
  <2>1. Throw(h) /\ gave_up'
    BY <1>9 DEF GiveUp
  <2> QED
    BY <1>2, <1>9, <2>1, Zenon DEF Outcome
<1> QED
  BY <1>3, <1>4, <1>5, <1>6, <1>7, <1>8, <1>9 DEF I2cProceed

\* The device does nothing, and no other sequence is enabled.
LEMMA HostLeavesMemory ==
    ASSUME NEW t, NEW w, NEW r, NEW n, InMemory(t, w, r, n),
           UNCHANGED <<ram, queue, apb, regs, ctrl, ran, runs, triggers>>,
           begun \in Nat, begun' \in Nat, begun <= begun', asked'[t] = asked[t],
           \A g \in Hosts : Enabled(host'[g]) => host'[g].tx = t
    PROVE  InMemory(t, w, r, n)' /\ (Finished(t, w, r)' <=> Finished(t, w, r))
<1>1. CurrentInv(t, w, r, n) /\ t \in 1..begun'
  BY DEF InMemory
<1>2. StoreInv(t, w, r, n)' /\ (Finished(t, w, r)' <=> Finished(t, w, r))
  BY <1>1, StoreKept DEF CurrentInv
<1>3. Holds(t, w, r)'
  BY <1>1, HeldStill DEF CurrentInv
<1>4. Busy' <=> Busy
  BY DEF Busy
<1>5. RunInv(t, w, r, n)' <=> RunInv(t, w, r, n)
  BY DEF RunInv, RunAt, AtCall, RunData, Answered
<1>6. CountInv(t, w, r, n)'
  <2>1. Answered(w, n)' <=> Answered(w, n)
    BY DEF Answered
  <2> QED
    BY <1>1, <1>2, <1>4, <2>1 DEF CurrentInv, CountInv, Count
<1>7. CurrentInv(t, w, r, n)'
  BY <1>1, <1>2, <1>3, <1>4, <1>5, <1>6 DEF CurrentInv
<1> QED
  BY <1>1, <1>2, <1>7 DEF InMemory

\* The sequence is triggered, k times.
LEMMA TriggerKeeps ==
    ASSUME MemoryInv, HostInv, NEW t, NEW w, NEW r, NEW n, InMemory(t, w, r, n),
           NEW h \in Hosts, Trigger(h), host[h].tx = t,
           \A g \in Hosts : Enabled(host'[g]) => host'[g].tx = t,
           \A u \in Txs : runs[u] <= triggers[u]
    PROVE  /\ InMemory(t, w, r, n)' /\ (Finished(t, w, r)' <=> Finished(t, w, r))
           /\ \A u \in Txs : runs'[u] <= triggers'[u]
<1>1. CurrentInv(t, w, r, n) /\ t \in 1..begun /\ t \in Txs
  BY DEF InMemory, Shaped
<1>2. UNCHANGED <<ram, apb, regs, ctrl, ran, runs, begun, asked>>
  BY DEF Trigger
<1>3. PICK k \in 1..2 : queue' = queue + k /\ triggers' = [triggers EXCEPT ![t] = @ + k]
  BY Zenon DEF Trigger
<1>4. runs \in [Txs -> Nat] /\ triggers \in [Txs -> Nat] /\ queue \in Nat
  BY DEF HostInv, HistoryInv, MemoryInv, RamInv
<1>5. triggers'[t] = triggers[t] + k /\ \A u \in Txs : u # t => triggers'[u] = triggers[u]
  BY <1>1, <1>3, <1>4
<1>6. StoreInv(t, w, r, n)' /\ (Finished(t, w, r)' <=> Finished(t, w, r))
  BY <1>1, <1>2, StoreKept DEF CurrentInv
<1>7. Holds(t, w, r)'
  BY <1>1, <1>2, HeldStill DEF CurrentInv
<1>8. Busy' <=> Busy
  BY <1>2 DEF Busy
<1>9. RunInv(t, w, r, n)' <=> RunInv(t, w, r, n)
  BY <1>2 DEF RunInv, RunAt, AtCall, RunData, Answered
<1>10. CountInv(t, w, r, n)'
  <2>1. Answered(w, n)' <=> Answered(w, n)
    BY <1>2 DEF Answered
  <2>2. PICK a : a = Count(Busy /\ ~Answered(w, n))
    OBVIOUS
  <2>3. PICK b : b = Count(Busy /\ n <= w + 5)
    OBVIOUS
  <2>4. PICK c : c = Count(Finished(t, w, r))
    OBVIOUS
  <2>5. a \in {0, 1} /\ b \in {0, 1} /\ c \in {0, 1}
    BY <2>2, <2>3, <2>4 DEF Count
  <2>6. runs[t] + queue + a <= triggers[t] /\ queue + b + c <= triggers[t]
    BY <1>1, <2>2, <2>3, <2>4 DEF CurrentInv, CountInv
  <2>7. runs[t] \in Nat /\ triggers[t] \in Nat /\ k \in Nat
    BY <1>1, <1>4
  <2>8. runs'[t] + queue' + a <= triggers'[t] /\ queue' + b + c <= triggers'[t]
    BY <1>2, <1>3, <1>4, <1>5, <2>5, <2>6, <2>7
  <2>9. a = Count(Busy /\ ~Answered(w, n))' /\ b = Count(Busy /\ n <= w + 5)'
        /\ c = Count(Finished(t, w, r))'
    BY <1>6, <1>8, <2>1, <2>2, <2>3, <2>4 DEF Count
  <2> QED
    BY <2>8, <2>9 DEF CountInv
<1>11. CurrentInv(t, w, r, n)'
  BY <1>1, <1>2, <1>6, <1>7, <1>8, <1>9, <1>10 DEF CurrentInv
<1>12. ASSUME NEW u \in Txs PROVE runs'[u] <= triggers'[u]
  <2>1. runs[u] <= triggers[u] /\ runs[u] \in Nat /\ triggers[u] \in Nat
    BY <1>4
  <2>2. triggers'[u] >= triggers[u] /\ triggers'[u] \in Nat
    BY <1>3, <1>5, <2>1
  <2> QED
    BY <1>2, <1>4, <2>1, <2>2
<1> QED
  BY <1>1, <1>2, <1>6, <1>11, <1>12, Zenon DEF InMemory

\* A sequence is written that the device does not have yet.
LEMMA EnableHolds ==
    ASSUME MemoryInv, HostInv, HostInv', SequenceInv, NEW h \in Hosts, Enable(h), ~overwritten',
           overwritten \in BOOLEAN,
           NEW t, t = host[h].tx, NEW w, w = host[h].w, NEW r, r = host[h].r, NEW n, n = Len(ran),
           \A g \in Hosts : Enabled(host'[g]) => host'[g].tx = t
    PROVE  /\ ~overwritten /\ InMemory(t, w, r, n)' /\ ~Finished(t, w, r)' /\ ram' # <<>>
           /\ ~Busy /\ queue = 0
<1>1. /\ ~overwritten /\ ~Busy /\ queue = 0 /\ host[h].pc = "enable"
      /\ UNCHANGED <<queue, apb, regs, ctrl, begun, asked, triggers, runs, ran>>
  BY Zenon DEF Enable, Busy
<1>2. PICK b : b = Buffer[t][<<w, r>>]
  OBVIOUS
<1>3. PICK m : m = b \o SubSeq(ram, Len(b) + 1, Len(ram))
  BY Zenon
<1>4. ram' = m
  BY <1>2, <1>3, Zenon DEF Enable
<1>5. Shaped(t, w, r) /\ t \in 1..begun /\ asked[t] = <<w, r>> /\ triggers[t] = 0
  <2>1. InTx(host[h]) /\ HostOK(h, host[h])
    BY <1>1 DEF InTx, HostInv
  <2> QED
    BY <1>1, <2>1, HostShaped DEF HostOK
<1>6. RamMade(m, b) /\ Layout(t, w, r, b) /\ w \in Nat /\ r \in Nat /\ t \in Txs
  <2>1. RamInv
    BY DEF MemoryInv
  <2> QED
    BY <1>2, <1>3, <1>5, <2>1, RamWritten, BufferLayout, WordNumbers, Zenon DEF Shaped
<1>7. Holds(t, w, r)'
  <2>1. Len(b) <= Len(ram') /\ \A i \in 1..Len(b) : ram'[i] = b[i]
    BY <1>4, <1>6 DEF RamMade
  <2>2. \A i \in StoreCells(t, w, r) : b[i].c = "data"
    BY <1>5, <1>6, StoresAreData
  <2>3. \A i \in 1..Len(b) :
           IF i \in StoreCells(t, w, r) THEN ram'[i].c = "data" ELSE ram'[i] = b[i]
    BY <2>1, <2>2, Zenon
  <2> QED
    BY <1>2, <2>1, <2>3, Zenon DEF Holds
<1>8. StatusCell(t, w, r)' = Zero
  <2>1. PICK k, call : k = w + 5 /\ call = CallAt(t, w, r, k + 1)
    OBVIOUS
  <2>2. k \in 0..(Calls(w, r) - 1) /\ k + 1 = w + 6
    BY <1>6, <2>1, SMTT(30) DEF Calls
  <2>3. Placed(t, w, r, k, b, call)
    BY <1>6, <2>1, <2>2 DEF Layout
  <2>4. call = Call("RD", "status", 0, Zero)
    <3>1. CallAt(t, w, r, w + 6) = Call("RD", "status", 0, Zero)
      BY <1>6, EncodedCalls, Zenon DEF CallTable
    <3> QED
      BY <2>1, <2>2, <3>1
  <2>5. call.op = "RD" /\ call.v = Zero
    BY <2>4 DEF Call
  <2>6. Pos(t, w, r, w + 6) = At(t, w, r, k) + 1 /\ b[At(t, w, r, k) + 1] = Data(Zero)
    BY <2>2, <2>3, <2>5 DEF Placed, Operands
  <2>7. Pos(t, w, r, w + 6) \in 1..Len(b)
    <3>1. w + 6 \in 0..Calls(w, r)
      <4>1. w \in Nat /\ r \in Nat
        BY <1>6
      <4> QED
        BY <4>1 DEF Calls
    <3>2. Pos(t, w, r, w + 6) \in Nat \ {0} /\ Pos(t, w, r, w + 6) < Len(b) /\ b \in Seq(Cells)
      BY <1>6, <3>1, Zenon DEF Layout
    <3>3. Len(b) \in Nat
      BY <3>2
    <3> QED
      BY <3>2, <3>3
  <2>8. ram'[Pos(t, w, r, w + 6)] = Data(Zero)
    BY <1>4, <1>6, <2>6, <2>7 DEF RamMade
  <2> QED
    BY <2>8 DEF StatusCell, Data
<1>9. ~Finished(t, w, r)' /\ StatusCell(t, w, r)'.f = {}
  BY <1>8 DEF Finished, Zero, Val
<1>10. StoreInv(t, w, r, n)'
  BY <1>9 DEF StoreInv
<1>11. ~Busy' /\ ~ctrl'.cmd /\ apb'.pc # "derailed"
  <2>1. ~ctrl.cmd
    BY <1>1 DEF SequenceInv, CurrentInv
  <2> QED
    BY <1>1, <2>1 DEF Busy
<1>12. CountInv(t, w, r, n)'
  <2>1. runs[t] <= triggers[t] /\ runs[t] \in Nat
    BY <1>1, <1>6 DEF SequenceInv, HostInv, HistoryInv
  <2> QED
    BY <1>1, <1>5, <1>9, <1>11, <2>1 DEF CountInv, Count
<1>13. n \in Nat
  BY DEF MemoryInv, ApbInv
<1>14. CurrentInv(t, w, r, n)'
  BY <1>1, <1>5, <1>7, <1>10, <1>11, <1>12 DEF CurrentInv
<1>15. ram' # <<>>
  BY <1>4, <1>6 DEF RamMade
<1> QED
  BY <1>1, <1>5, <1>9, <1>13, <1>14, <1>15 DEF InMemory

\* The hosts whose sequence may be in the memory, but for the one that wrote it.
LEMMA EnabledBefore ==
    ASSUME MemoryInv, HostInv, NEW h \in Hosts, BeginTx(h) \/ I2cProceed(h), NEW g \in Hosts,
           Enabled(host'[g]), ~Enable(h) \/ g # h
    PROVE  Enabled(host[g]) /\ host'[g].tx = host[g].tx
<1>1. CASE BeginTx(h)
  <2>1. PICK c : host' = [host EXCEPT ![h] = c] /\ c.pc = "lock"
    <3>1. PICK shape \in Shapes :
             host' = [host EXCEPT ![h] = [pc |-> "lock", tx |-> begun', w |-> shape[1],
                         r |-> shape[2], got |-> <<>>, code |-> "none"]]
      BY <1>1, Zenon DEF BeginTx
    <3>2. PICK c : c = [pc |-> "lock", tx |-> begun', w |-> shape[1], r |-> shape[2], got |-> <<>>,
                        code |-> "none"]
      BY Zenon
    <3>3. host' = [host EXCEPT ![h] = c] /\ c.pc = "lock"
      BY <3>1, <3>2
    <3> QED
      BY <3>3, Zenon
  <2>2. host \in [Hosts -> HostRecords]
    BY DEF HostInv
  <2>3. g # h
    BY <2>1, <2>2 DEF Enabled
  <2> QED
    BY <2>1, <2>2, <2>3
<1>2. CASE I2cProceed(h)
  <2>1. PICK d \in HostRecords : Outcome(h, d)
    BY <1>2, Outcomes DEF MemoryInv
  <2>2. Becomes(h, d)
    BY <2>1, Zenon DEF Outcome, GoesOn
  <2>3. host' = [host EXCEPT ![h] = d] /\ d.tx = host[h].tx
    BY <2>2, Zenon DEF Becomes
  <2>4. host'[h] = d /\ \A k \in Hosts : k # h => host'[k] = host[k]
    BY <2>3, HostChanged, Zenon
  <2>5. CASE g = h
    <3>1. d.pc \in {"trigger", "poll", "clear", "read"} /\ ~Enable(h)
      BY <2>4, <2>5 DEF Enabled
    <3>2. Trigger(h) \/ Poll(h) \/ Clear(h) \/ ReadWord(h)
      BY <2>1, <3>1 DEF Outcome, GoesOn
    <3>3. Enabled(host[h])
      BY <3>2, Zenon DEF Enabled, Trigger, Poll, Clear, ReadWord
    <3> QED
      BY <2>3, <2>4, <2>5, <3>3
  <2> QED
    BY <2>4, <2>5
<1> QED
  BY <1>1, <1>2

\* Every step but that which writes another sequence.
LEMMA SequenceGoesOn ==
    ASSUME MemoryInv, HostInv, I2cNext, \A h \in Hosts : ~Enable(h),
           NEW t, NEW w, NEW r, NEW n, InMemory(t, w, r, n), ram # <<>>,
           \A u \in Txs : runs[u] <= triggers[u]
    PROVE  /\ \E m : InMemory(t, w, r, m)'
           /\ Finished(t, w, r) => Finished(t, w, r)'
           /\ \A u \in Txs : runs'[u] >= runs[u] /\ runs'[u] <= triggers'[u]
           /\ (wrong' <=> wrong) /\ (overwritten' <=> overwritten)
<1>1. begun \in Nat /\ begun' \in Nat /\ runs \in [Txs -> Nat] /\ t \in 1..begun /\ asked[t] = <<w, r>>
  BY I2cAssumption, HistoryStep DEF HostInv, HistoryInv, InMemory, CurrentInv
<1>2. \A u \in Txs : runs[u] >= runs[u]
  BY <1>1
<1>3. CASE Apb
  <2>1. UNCHANGED <<triggers, runs, wrong, overwritten>>
    BY <1>3 DEF Apb, ApbTake, ApbDone, ApbDerail, ApbWrite, ApbControl, ApbRead, ApbPoll, ApbPolled,
                historyVars
  <2>2. /\ \E m : InMemory(t, w, r, m)'
        /\ Finished(t, w, r) => Finished(t, w, r)'
    BY <1>3, ApbKeeps
  <2> QED
    BY <1>2, <2>1, <2>2
<1>4. CASE Controller
  <2>1. overwritten' = overwritten
    BY <1>4 DEF Controller, I2cStart, I2cAnswer, I2cFail, historyVars
  <2>2. /\ InMemory(t, w, r, n)' /\ (Finished(t, w, r)' <=> Finished(t, w, r))
        /\ (wrong' <=> wrong) /\ (\A u \in Txs : runs'[u] >= runs[u])
        /\ \A u \in Txs : runs'[u] <= triggers'[u]
    BY <1>4, ControllerKeeps
  <2> QED
    BY <2>1, <2>2
<1>5. ASSUME NEW h \in Hosts, BeginTx(h) \/ I2cProceed(h)
      PROVE  /\ \E m : InMemory(t, w, r, m)'
             /\ Finished(t, w, r) => Finished(t, w, r)'
             /\ \A u \in Txs : runs'[u] >= runs[u] /\ runs'[u] <= triggers'[u]
             /\ (wrong' <=> wrong) /\ (overwritten' <=> overwritten)
  <2>1. \A g \in Hosts : Enabled(host[g]) => host[g].tx = t
    BY DEF InMemory, CurrentInv
  <2>2. \A g \in Hosts : Enabled(host'[g]) => host'[g].tx = t
    <3>1. ASSUME NEW g \in Hosts, Enabled(host'[g]) PROVE host'[g].tx = t
      BY <1>5, <2>1, <3>1, EnabledBefore
    <3> QED
      BY <3>1
  <2>3. CASE Trigger(h)
    <3>1. UNCHANGED <<runs, wrong, overwritten>> /\ Enabled(host[h])
      BY <2>3 DEF Trigger, Enabled
    <3>2. host[h].tx = t
      BY <2>1, <3>1
    <3>3. /\ InMemory(t, w, r, n)' /\ (Finished(t, w, r)' <=> Finished(t, w, r))
          /\ \A u \in Txs : runs'[u] <= triggers'[u]
      BY <2>2, <2>3, <3>2, TriggerKeeps
    <3> QED
      BY <1>2, <3>1, <3>3
  <2>4. CASE BeginTx(h)
    <3>1. /\ UNCHANGED <<ram, queue, apb, regs, ctrl, ran, runs, triggers, wrong, overwritten>>
          /\ begun' = begun + 1
      BY <2>4 DEF BeginTx, deviceVars
    <3>2. asked'[t] = asked[t] /\ begun <= begun'
      <4>1. PICK k, x : asked' = [asked EXCEPT ![k] = x] /\ k = begun'
        BY <2>4, Zenon DEF BeginTx
      <4>2. k # t
        BY <1>1, <3>1, <4>1
      <4>3. asked \in [Txs -> Shapes \cup {<<0, 0>>}] /\ t \in Txs
        BY DEF HostInv, HistoryInv, InMemory, Shaped
      <4> QED
        BY <1>1, <3>1, <4>1, <4>2, <4>3
    <3>3. InMemory(t, w, r, n)' /\ (Finished(t, w, r)' <=> Finished(t, w, r))
      BY <1>1, <2>2, <3>1, <3>2, HostLeavesMemory
    <3> QED
      BY <1>2, <3>1, <3>3
  <2>5. CASE TakeLock(h) \/ Poll(h) \/ Clear(h) \/ ReadWord(h) \/ GiveUp(h)
    <3>1. /\ UNCHANGED <<ram, queue, apb, regs, ctrl, ran, runs, triggers, wrong, overwritten>>
          /\ UNCHANGED <<begun, asked>>
      BY <2>5, Zenon DEF TakeLock, Poll, Clear, ReadWord, GiveUp, deviceVars, historyVars
    <3>2. begun <= begun' /\ asked'[t] = asked[t]
      BY <1>1, <3>1
    <3>3. InMemory(t, w, r, n)' /\ (Finished(t, w, r)' <=> Finished(t, w, r))
      BY <1>1, <2>2, <3>1, <3>2, HostLeavesMemory
    <3> QED
      BY <1>2, <3>1, <3>3
  <2> QED
    BY <1>5, <2>3, <2>4, <2>5 DEF I2cProceed
<1> QED
  BY <1>3, <1>4, <1>5 DEF I2cNext

\* As long as no sequence was written the device does nothing.
LEMMA NothingYet ==
    ASSUME MemoryInv, HostInv, SequenceInv, FoundInv, I2cNext, ~overwritten, ram = <<>>,
           \A h \in Hosts : ~Enable(h)
    PROVE  /\ UNCHANGED <<ram, apb, ctrl, runs, triggers, wrong, overwritten>>
           /\ \A h \in Hosts : ~Enabled(host'[h])
<1>1. ~Busy /\ ~ctrl.cmd /\ ~(queue > 0)
  BY DEF SequenceInv, MemoryInv, RamInv
<1>2. \A h \in Hosts : ~Enabled(host[h])
  BY DEF FoundInv
<1>3. ~Apb
  BY <1>1 DEF Apb, Busy, ApbTake, ApbDone, ApbDerail, ApbWrite, ApbControl, ApbRead, ApbPoll, ApbPolled,
              ApbAt
<1>4. ~Controller
  BY <1>1 DEF Controller, I2cStart, I2cAnswer, I2cFail, MemoryInv, ControllerInv
<1>5. PICK h \in Hosts : BeginTx(h) \/ I2cProceed(h)
  BY <1>3, <1>4 DEF I2cNext
<1>6. ~Trigger(h)
  BY <1>2, SMTT(30) DEF Trigger, Enabled
<1>7. UNCHANGED <<ram, apb, ctrl, runs, triggers, wrong, overwritten>>
  BY <1>5, <1>6 DEF I2cProceed, BeginTx, TakeLock, Poll, Clear, ReadWord, GiveUp, deviceVars,
                    historyVars
<1>8. \A g \in Hosts : ~Enabled(host'[g])
  BY <1>2, <1>5, EnabledBefore
<1> QED
  BY <1>7, <1>8

\* After a sequence was written only its own host is enabled.
LEMMA EnableAlone ==
    ASSUME MemoryInv, HostInv, NEW h \in Hosts, Enable(h), NEW g \in Hosts, Enabled(host'[g])
    PROVE  g = h /\ host'[g].tx = host[h].tx /\ host'[g].pc = "trigger"
<1>1. host[h].pc = "enable" /\ Locked(host[h]) /\ I2cProceed(h)
  BY Zenon DEF Enable, Locked, I2cProceed
<1>2. g = h
  <2>1. g # h => Enabled(host[g])
    BY <1>1, EnabledBefore
  <2>2. Enabled(host[g]) => Locked(host[g])
    BY DEF Locked
  <2> QED
    BY <1>1, <2>1, <2>2, OneHolder
<1>3. PICK d \in HostRecords : Outcome(h, d)
  BY <1>1, Outcomes DEF MemoryInv
<1>4. Becomes(h, d)
  BY <1>3, Zenon DEF Outcome, GoesOn
<1>5. host'[h] = d /\ d.tx = host[h].tx
  BY <1>4, HostChanged, Zenon DEF Becomes
<1>6. d.pc = "trigger"
  <2>1. d.pc \in {"trigger", "poll", "clear", "read"}
    BY <1>2, <1>5 DEF Enabled
  <2> QED
    BY <1>1, <1>3, <2>1 DEF Outcome, GoesOn, Trigger, Poll, Clear, ReadWord
<1> QED
  BY <1>2, <1>5, <1>6

\* The three ways to go on, with no sequence overwritten.
After(t, w, r, m) ==
    /\ InMemory(t, w, r, m)' /\ ram' # <<>>
    /\ \A u \in Txs : runs'[u] <= triggers'[u]

LEMMA BusSteps ==
    ASSUME MemoryInv, HostInv, SequenceInv, FoundInv, I2cNext, ~overwritten'
    PROVE  /\ ~overwritten
           /\ \/ \E h \in Hosts : /\ Enable(h) /\ wrong' = wrong
                                  /\ \E t : \E w : \E r : \E m : After(t, w, r, m)
              \/ /\ UNCHANGED <<ram, apb, ctrl, runs, triggers, wrong>> /\ ram = <<>>
                 /\ \A h \in Hosts : ~Enable(h) /\ ~Enabled(host'[h])
              \/ /\ \A h \in Hosts : ~Enable(h)
                 /\ \E t : \E w : \E r : \E n : \E m :
                       /\ InMemory(t, w, r, n) /\ After(t, w, r, m) /\ (wrong' <=> wrong)
                       /\ Finished(t, w, r) => Finished(t, w, r)'
<1>0. overwritten \in BOOLEAN /\ RamInv'
  BY RamStep DEF MemoryInv, HostInv, HistoryInv
<1>1. CASE \E h \in Hosts : Enable(h)
  <2>1. PICK h \in Hosts : Enable(h)
    BY <1>1
  <2>2. PICK t : t = host[h].tx
    OBVIOUS
  <2>3. PICK w : w = host[h].w
    OBVIOUS
  <2>4. PICK r : r = host[h].r
    OBVIOUS
  <2>5. PICK m : m = Len(ran)
    BY Zenon
  <2>6. \A g \in Hosts : Enabled(host'[g]) => host'[g].tx = t
    BY <2>1, <2>2, EnableAlone
  <2>7. ~overwritten /\ InMemory(t, w, r, m)' /\ ram' # <<>>
    BY <1>0, <2>1, <2>2, <2>3, <2>4, <2>5, <2>6, HostStep, EnableHolds
  <2>8. UNCHANGED <<runs, triggers, wrong>>
    BY <2>1, Zenon DEF Enable
  <2>9. \A u \in Txs : runs[u] <= triggers[u]
    BY <2>7 DEF SequenceInv
  <2>10. After(t, w, r, m)
    BY <2>7, <2>8, <2>9 DEF After
  <2> QED
    BY <2>1, <2>7, <2>8, <2>10, Zenon
<1>2. CASE ~\E h \in Hosts : Enable(h)
  <2>1. \A h \in Hosts : ~Enable(h)
    BY <1>2
  <2>2. overwritten' = overwritten
    BY <2>1, Zenon DEF I2cNext, Apb, Controller, I2cProceed, ApbTake, ApbDone, ApbDerail, ApbWrite,
                ApbControl, ApbRead, ApbPoll, ApbPolled, I2cStart, I2cAnswer, I2cFail, BeginTx,
                TakeLock, Trigger, Poll, Clear, ReadWord, GiveUp, historyVars
  <2>3. CASE ram = <<>>
    BY <2>1, <2>2, <2>3, NothingYet
  <2>4. CASE ram # <<>>
    <3>1. PICK t : \E w : \E r : \E n : InMemory(t, w, r, n)
      BY <2>2, <2>4, Current
    <3>2. PICK w : \E r : \E n : InMemory(t, w, r, n)
      BY <3>1
    <3>3. PICK r : \E n : InMemory(t, w, r, n)
      BY <3>2
    <3>4. PICK n : InMemory(t, w, r, n)
      BY <3>3
    <3>5. \A u \in Txs : runs[u] <= triggers[u]
      BY <2>2 DEF SequenceInv
    <3>6. /\ \E m : InMemory(t, w, r, m)'
          /\ Finished(t, w, r) => Finished(t, w, r)'
          /\ \A u \in Txs : runs'[u] >= runs[u] /\ runs'[u] <= triggers'[u]
          /\ (wrong' <=> wrong) /\ (overwritten' <=> overwritten)
      BY <2>1, <2>4, <3>4, <3>5, SequenceGoesOn
    <3>7. PICK m : InMemory(t, w, r, m)'
      BY <3>6
    <3>8. ram' # <<>>
      <4>1. Len(ram) \in Nat /\ Len(ram') \in Nat /\ Len(ram) <= Len(ram')
        BY RamGrows
      <4>2. Len(ram) # 0
        BY <2>4 DEF MemoryInv, RamInv
      <4> QED
        BY <4>1, <4>2
    <3>9. After(t, w, r, m)
      BY <3>6, <3>7, <3>8 DEF After
    <3> QED
      BY <2>1, <2>2, <3>4, <3>6, <3>9, Zenon
  <2> QED
    BY <2>3, <2>4
<1> QED
  BY <1>1, <1>2

LEMMA SequenceStep ==
    ASSUME MemoryInv, HostInv, SequenceInv, FoundInv, I2cNext PROVE SequenceInv'
<1>1. SUFFICES ASSUME ~overwritten' PROVE SequenceInv'
  BY DEF SequenceInv
<1>2. CASE \E t : \E w : \E r : \E m : After(t, w, r, m)
  <2>1. PICK t : \E w : \E r : \E m : After(t, w, r, m)
    BY <1>2
  <2>2. PICK w : \E r : \E m : After(t, w, r, m)
    BY <2>1
  <2>3. PICK r : \E m : After(t, w, r, m)
    BY <2>2
  <2>4. PICK m : After(t, w, r, m)
    BY <2>3
  <2> QED
    BY <2>4, CurrentAfter DEF After
<1>3. CASE /\ UNCHANGED <<ram, apb, ctrl, runs, triggers, wrong>> /\ ram = <<>> /\ ~overwritten
  BY <1>3 DEF SequenceInv, Busy
<1> QED
  BY <1>1, <1>2, <1>3, BusSteps, Zenon

\* A host that found I2C_DONE found that of its own sequence.
LEMMA PollFinds ==
    ASSUME MemoryInv, HostInv, NEW h \in Hosts, Poll(h)
    PROVE  Finished(host[h].tx, host[h].w, host[h].r)
<1>1. PICK c : c = host[h]
  OBVIOUS
<1>2. PICK i : i = ReadIndex[c.tx][<<c.w, c.r>>][0]
  BY SMTT(30)
<1>3. "DONE" \in (IF ram[i].c = "data" THEN ram[i].v.f ELSE {}) /\ c.pc = "poll"
  BY <1>1, <1>2 DEF Poll, Cached
<1>4. c \in HostRecords /\ Enabled(c) /\ RamInv
  BY <1>1, <1>3 DEF HostInv, Enabled, MemoryInv
<1>5. c.r \in Nat /\ c.w \in Nat
  BY <1>4, WordNumbers DEF HostRecords
<1>6. 0 \in 0..c.r /\ c.w + 6 + 0 = c.w + 6
  BY <1>5
<1>7. i = Pos(c.tx, c.w, c.r, c.w + 6 + 0)
  BY <1>1, <1>2, <1>4, <1>6, ReadCell
<1>8. "DONE" \in ram[Pos(c.tx, c.w, c.r, c.w + 6)].v.f
  BY <1>3, <1>6, <1>7
<1> QED
  BY <1>1, <1>8 DEF Finished, StatusCell

-----------------------------------------------------------------------------
(* What hosts find. *)

\* An enabled host's sequence is the one in the memory.
LEMMA HostCurrent ==
    ASSUME HostInv, NEW g \in Hosts, Enabled(host[g]), NEW t, NEW w, NEW r, NEW n,
           CurrentInv(t, w, r, n)
    PROVE  host[g].tx = t /\ host[g].w = w /\ host[g].r = r
<1>1. host[g].tx = t /\ asked[t] = <<w, r>>
  BY DEF CurrentInv
<1>2. asked[host[g].tx] = <<host[g].w, host[g].r>>
  BY Zenon DEF HostInv, HostOK, InTx, Enabled
<1> QED
  BY <1>1, <1>2

\* What a host fetches is the answer to its transaction.
LEMMA ReadAnswers ==
    ASSUME Prompt = TRUE, MemoryInv, HostInv, FoundInv, ~overwritten,
           NEW t, NEW w, NEW r, NEW n, InMemory(t, w, r, n), NEW h \in Hosts, ReadWord(h),
           NEW got \in Seq(Values), ReadGot(h, got)
    PROVE  \A i \in 1..Len(got) : got[i] = Val("answer", t, i)
<1>1. PICK c : c = host[h]
  OBVIOUS
<1>2. c.pc = "read" /\ Enabled(c) /\ DeviceReady
  BY <1>1, Zenon DEF ReadWord, Enabled
<1>3. CurrentInv(t, w, r, n) /\ Shaped(t, w, r)
  BY DEF InMemory
<1>4. c.tx = t /\ c.w = w /\ c.r = r
  BY <1>1, <1>2, <1>3, HostCurrent
<1>5. Finished(t, w, r) /\ \A i \in 1..Len(c.got) : c.got[i] = Val("answer", t, i)
  BY <1>1, <1>2, <1>4 DEF FoundInv
<1>6. apb.pc # "command"
  BY <1>2 DEF DeviceReady
<1>7. \A j \in 1..r : AnswerCell(t, w, r, j) = Val("answer", t, j)
  BY <1>3, <1>5, <1>6 DEF CurrentInv, StoreInv
<1>8. w \in Nat /\ r \in Nat
  BY <1>3, WordNumbers DEF Shaped
<1>9. c.got \in Seq(Values)
  <2>1. c \in HostRecords
    BY <1>1 DEF HostInv
  <2> QED
    BY <2>1 DEF HostRecords
<1>10. PICK k : k = Len(c.got)
  BY Zenon
<1>11. k \in Nat
  BY <1>9, <1>10
<1>12. CASE got = <<>>
  BY <1>12
<1>13. CASE got # <<>>
  <2>1. k + 1 \in 0..r /\ \E v \in Values :
           /\ got = Append(c.got, v)
           /\ ram[Pos(t, w, r, w + 6 + (k + 1))].c = "data" => v = ram[Pos(t, w, r, w + 6 + (k + 1))].v
    BY <1>1, <1>4, <1>10, <1>13, Zenon DEF ReadGot
  <2>2. PICK v \in Values :
           /\ got = Append(c.got, v)
           /\ ram[Pos(t, w, r, w + 6 + (k + 1))].c = "data" => v = ram[Pos(t, w, r, w + 6 + (k + 1))].v
    BY <2>1
  <2>3. k + 1 \in 1..r
    BY <1>11, <2>1
  <2>4. PICK m : m = w + 6 + (k + 1)
    OBVIOUS
  <2>5. m \in (w + 6)..(w + 6 + r) /\ m \in 0..Calls(w, r)
    BY <1>8, <1>11, <2>3, <2>4 DEF Calls
  <2>6. ram[Pos(t, w, r, m)].c = "data"
    <3>1. PICK b : b = Buffer[t][<<w, r>>]
      OBVIOUS
    <3>2. Layout(t, w, r, b)
      BY <1>3, <3>1, BufferLayout
    <3>3. Pos(t, w, r, m) \in StoreCells(t, w, r) /\ Pos(t, w, r, m) \in 1..Len(b)
      BY <1>3, <2>5, <3>2, StoresAreData
    <3>4. \A i \in 1..Len(b) :
             IF i \in StoreCells(t, w, r) THEN ram[i].c = "data" ELSE ram[i] = b[i]
      BY <1>3, <3>1, Zenon DEF CurrentInv, Holds
    <3> QED
      BY <3>3, <3>4
  <2>7. v = AnswerCell(t, w, r, k + 1)
    BY <2>2, <2>4, <2>6 DEF AnswerCell
  <2>8. v = Val("answer", t, k + 1)
    BY <1>7, <2>3, <2>7
  <2>9. Len(got) = k + 1 /\ got[k + 1] = v /\ \A i \in 1..k : got[i] = c.got[i]
    BY <1>9, <1>10, <2>2
  <2>10. ASSUME NEW i \in 1..(k + 1) PROVE got[i] = Val("answer", t, i)
    <3>1. CASE i = k + 1
      BY <2>8, <2>9, <3>1
    <3>2. CASE i # k + 1
      <4>1. i \in 1..k
        BY <1>11, <3>2
      <4> QED
        BY <1>5, <1>10, <2>9, <4>1
    <3> QED
      BY <3>1, <3>2
  <2> QED
    BY <2>9, <2>10
<1> QED
  BY <1>12, <1>13

\* The step of one host, by what it was before.
LEMMA HostWas ==
    ASSUME MemoryInv, HostInv, NEW h \in Hosts, I2cProceed(h), NEW d, Outcome(h, d)
    PROVE  /\ host'[h] = d /\ d.tx = host[h].tx /\ d.w = host[h].w /\ d.r = host[h].r
           /\ d \in HostRecords
           /\ \A g \in Hosts : g # h => host'[g] = host[g]
<1>1. Becomes(h, d)
  BY Zenon DEF Outcome, GoesOn
<1> QED
  BY <1>1, HostChanged, Zenon DEF Becomes

LEMMA FoundStep ==
    ASSUME MemoryInv, HostInv, SequenceInv, FoundInv, I2cNext PROVE FoundInv'
<1>1. SUFFICES ASSUME ~overwritten', NEW g \in Hosts, NEW e, e = host'[g], Enabled(e)
               PROVE  /\ ram' # <<>>
                      /\ e.pc \in {"clear", "read"} => Finished(e.tx, e.w, e.r)'
                      /\ Prompt = TRUE /\ e.pc = "read" =>
                            \A i \in 1..Len(e.got) : e.got[i] = Val("answer", e.tx, i)
  <2>1. \A e : e.pc \in {"clear", "read"} => Enabled(e)
    BY DEF Enabled
  <2>2. ASSUME ~overwritten', NEW g \in Hosts
        PROVE  /\ Enabled(host'[g]) => ram' # <<>>
               /\ host'[g].pc \in {"clear", "read"} => Finished(host[g].tx, host[g].w, host[g].r)'
               /\ Prompt = TRUE /\ host'[g].pc = "read" =>
                     \A i \in 1..Len(host'[g].got) :
                        host'[g].got[i] = Val("answer", host'[g].tx, i)
    <3>1. PICK e : e = host'[g]
      OBVIOUS
    <3>2. CASE Enabled(e)
      BY <1>1, <2>2, <3>1, <3>2, Zenon
    <3>3. CASE ~Enabled(e)
      BY <2>1, <3>1, <3>3
    <3> QED
      BY <3>2, <3>3, Zenon
  <2> QED
    BY <2>2, Zenon DEF FoundInv
<1>2. HostInv'
  BY HostStep
<1>3. CASE \E h \in Hosts : Enable(h)
  <2>1. PICK h \in Hosts : Enable(h)
    BY <1>3
  <2>2. host'[g].pc = "trigger"
    BY <1>1, <2>1, EnableAlone
  <2>3. ram' # <<>>
    BY <1>1, <2>1, BusSteps DEF After
  <2> QED
    BY <1>1, <2>2, <2>3
<1>4. CASE ~\E h \in Hosts : Enable(h)
  <2>1. PICK t : \E w : \E r : \E n : \E m :
                       /\ InMemory(t, w, r, n) /\ After(t, w, r, m) /\ (wrong' <=> wrong)
                       /\ Finished(t, w, r) => Finished(t, w, r)'
    BY <1>1, <1>4, BusSteps
  <2>2. PICK w : \E r : \E n : \E m :
                       /\ InMemory(t, w, r, n) /\ After(t, w, r, m) /\ (wrong' <=> wrong)
                       /\ Finished(t, w, r) => Finished(t, w, r)'
    BY <2>1
  <2>3. PICK r : \E n : \E m :
                       /\ InMemory(t, w, r, n) /\ After(t, w, r, m) /\ (wrong' <=> wrong)
                       /\ Finished(t, w, r) => Finished(t, w, r)'
    BY <2>2
  <2>4. PICK n : \E m :
                       /\ InMemory(t, w, r, n) /\ After(t, w, r, m) /\ (wrong' <=> wrong)
                       /\ Finished(t, w, r) => Finished(t, w, r)'
    BY <2>3
  <2>5. PICK m : /\ InMemory(t, w, r, n) /\ After(t, w, r, m) /\ (wrong' <=> wrong)
                 /\ Finished(t, w, r) => Finished(t, w, r)'
    BY <2>4
  <2>6. CurrentInv(t, w, r, m)' /\ CurrentInv(t, w, r, n) /\ ram' # <<>> /\ ~overwritten
    BY <1>1, <2>5, BusSteps DEF After, InMemory
  <2>7. host'[g].tx = t /\ host'[g].w = w /\ host'[g].r = r
    <3>1. asked'[t] = <<w, r>> /\ host'[g].tx = t
      BY <1>1, <2>6 DEF CurrentInv
    <3>2. asked'[host'[g].tx] = <<host'[g].w, host'[g].r>>
      BY <1>1, <1>2, Zenon DEF HostInv, HostOK, InTx, Enabled
    <3> QED
      BY <3>1, <3>2
  <2>8. ASSUME NEW c, c = e,
               c.pc \in {"clear", "read"} => Finished(t, w, r),
               Prompt = TRUE /\ c.pc = "read" => \A i \in 1..Len(c.got) : c.got[i] = Val("answer", t, i)
        PROVE  /\ e.pc \in {"clear", "read"} => Finished(e.tx, e.w, e.r)'
               /\ Prompt = TRUE /\ e.pc = "read" => \A i \in 1..Len(e.got) : e.got[i] = Val("answer", e.tx, i)
    <3>1. c.pc \in {"clear", "read"} => Finished(t, w, r)'
      BY <2>5, <2>8
    <3>2. e.tx = t /\ e.w = w /\ e.r = r
      BY <1>1, <2>7
    <3> QED
      BY <2>8, <3>1, <3>2
  <2>9. CASE host'[g] = host[g]
    <3>1. Enabled(host[g]) /\ host[g].tx = t /\ host[g].w = w /\ host[g].r = r
      BY <1>1, <2>7, <2>9
    <3>2. PICK c : c = host[g]
      OBVIOUS
    <3>3. /\ c.pc \in {"clear", "read"} => Finished(t, w, r)
          /\ Prompt = TRUE /\ c.pc = "read" => \A i \in 1..Len(c.got) : c.got[i] = Val("answer", t, i)
      BY <2>6, <3>1, <3>2 DEF FoundInv
    <3> QED
      BY <1>1, <2>6, <2>8, <2>9, <3>2, <3>3, Zenon
  <2>10. CASE host'[g] # host[g]
    <3>1. PICK h \in Hosts : BeginTx(h) \/ I2cProceed(h)
      BY <2>10 DEF I2cNext, Apb, Controller, ApbTake, ApbDone, ApbDerail, ApbWrite,
                   ApbControl, ApbRead, ApbPoll, ApbPolled, I2cStart, I2cAnswer, I2cFail
    <3>2. Enabled(host[g])
      BY <1>1, <1>4, <3>1, EnabledBefore
    <3>3. g = h
      <4>1. CASE BeginTx(h)
        <5>1. PICK x : host' = [host EXCEPT ![h] = x]
          BY <4>1, Zenon DEF BeginTx
        <5> QED
          BY <2>10, <5>1 DEF HostInv
      <4>2. CASE I2cProceed(h)
        <5>1. PICK d \in HostRecords : Outcome(h, d)
          BY <4>2, Outcomes DEF MemoryInv
        <5> QED
          BY <2>10, <4>2, <5>1, HostWas
      <4> QED
        BY <3>1, <4>1, <4>2
    <3>4. I2cProceed(h)
      BY <3>1, <3>2, <3>3 DEF BeginTx, Enabled
    <3>5. PICK d \in HostRecords : Outcome(h, d)
      BY <3>4, Outcomes DEF MemoryInv
    <3>6. host'[g] = d /\ d.tx = host[g].tx /\ d.w = host[g].w /\ d.r = host[g].r
      BY <3>3, <3>4, <3>5, HostWas
    <3>7. host[g].tx = t /\ host[g].w = w /\ host[g].r = r
      BY <2>7, <3>6
    <3>8. d.pc \in {"clear", "read"} => Poll(h) \/ Clear(h) \/ ReadWord(h)
      BY <3>5 DEF Outcome, GoesOn
    <3>9. d.pc \in {"clear", "read"} => Finished(t, w, r)
      <4>1. Clear(h) \/ ReadWord(h) => host[g].pc \in {"clear", "read"}
        BY <3>3, Zenon DEF Clear, ReadWord
      <4>2. host[g].pc \in {"clear", "read"} => Finished(t, w, r)
        BY <2>6, <3>7 DEF FoundInv
      <4>3. Poll(h) => Finished(t, w, r)
        BY <3>3, <3>7, PollFinds
      <4> QED
        BY <3>8, <4>1, <4>2, <4>3
    <3>10. ASSUME Prompt = TRUE, d.pc = "read" PROVE \A i \in 1..Len(d.got) : d.got[i] = Val("answer", t, i)
      <4>1. (Clear(h) /\ d.got = host[h].got) \/ (ReadWord(h) /\ ReadGot(h, d.got))
        BY <3>5, <3>10 DEF Outcome, GoesOn
      <4>2. CASE Clear(h) /\ d.got = host[h].got
        <5>1. host[h].got = <<>>
          BY <4>2, Zenon DEF Clear, HostInv, HostOK, InTx
        <5> QED
          BY <4>2, <5>1
      <4>3. CASE ReadWord(h) /\ ReadGot(h, d.got)
        <5>1. d.got \in Seq(Values)
          BY <3>5 DEF HostRecords
        <5> QED
          BY <2>5, <2>6, <3>10, <4>3, <5>1, ReadAnswers
      <4> QED
        BY <4>1, <4>2, <4>3
    <3> QED
      BY <1>1, <2>6, <2>8, <3>6, <3>9, <3>10, Zenon
  <2> QED
    BY <2>6, <2>9, <2>10, Zenon
<1> QED
  BY <1>3, <1>4, Zenon

\* Without a fault the device is done with the sequence of a host that leaves.
LEMMA DoneOnLeaving ==
    ASSUME Prompt = TRUE, MemoryInv, HostInv, SequenceInv, FoundInv, ~overwritten, repeats = 0,
           NEW h \in Hosts, host[h].pc \in {"clear", "read"}, DeviceReady
    PROVE  queue = 0 /\ ~Busy
<1>1. Enabled(host[h])
  BY DEF Enabled
<1>2. ram # <<>> /\ Finished(host[h].tx, host[h].w, host[h].r)
  BY <1>1 DEF FoundInv
<1>3. PICK t : \E w : \E r : \E n : InMemory(t, w, r, n)
  BY <1>2, Current
<1>4. PICK w : \E r : \E n : InMemory(t, w, r, n)
  BY <1>3
<1>5. PICK r : \E n : InMemory(t, w, r, n)
  BY <1>4
<1>6. PICK n : InMemory(t, w, r, n)
  BY <1>5
<1>7. CurrentInv(t, w, r, n) /\ t \in Txs /\ w \in Nat
  BY <1>6, WordNumbers DEF InMemory, Shaped
<1>8. Finished(t, w, r)
  BY <1>1, <1>2, <1>7, HostCurrent
<1>9. triggers[t] <= 1 /\ triggers[t] \in Nat /\ queue \in Nat
  <2>1. triggers[t] <= 1 + repeats /\ triggers[t] \in Nat
    BY <1>7 DEF HostInv, HistoryInv
  <2> QED
    BY <2>1 DEF MemoryInv, RamInv
<1>10. PICK b : b = Count(Busy /\ n <= w + 5)
  OBVIOUS
<1>11. b \in {0, 1} /\ (Busy /\ n <= w + 5 => b = 1) /\ Count(Finished(t, w, r)) = 1
  BY <1>8, <1>10 DEF Count
<1>12. queue + b + 1 <= triggers[t]
  BY <1>7, <1>10, <1>11 DEF CurrentInv, CountInv
<1>13. queue = 0 /\ ~(Busy /\ n <= w + 5)
  BY <1>9, <1>11, <1>12
<1>14. apb.pc = "poll" => Busy /\ n = w + 5
  <2>1. apb.pc = "poll" => Busy
    BY DEF Busy
  <2>2. Busy => RunInv(t, w, r, n)
    BY <1>7 DEF CurrentInv
  <2> QED
    BY <2>1, <2>2 DEF RunInv, RunData
<1>15. apb.pc # "poll"
  <2>1. w + 5 <= w + 5
    BY <1>7
  <2> QED
    BY <1>13, <1>14, <2>1
<1> QED
  BY <1>13, <1>15 DEF DeviceReady, Busy

LEMMA FaultStep ==
    ASSUME Prompt = TRUE, MemoryInv, HostInv, SequenceInv, FoundInv, FaultInv, I2cNext
    PROVE  FaultInv'
<1>0. /\ repeats \in Nat /\ repeats' \in Nat /\ gave_up \in BOOLEAN /\ gave_up' \in BOOLEAN
      /\ overwritten \in BOOLEAN
  BY HistoryStep DEF HostInv, HistoryInv
<1>1. /\ gave_up => gave_up'
      /\ repeats' = 0 => repeats = 0
  <2>1. ASSUME NEW h \in Hosts, Trigger(h) PROVE repeats' = 0 => repeats = 0
    <3>1. PICK n \in 1..2 : repeats' = repeats + n - 1
      BY <2>1 DEF Trigger
    <3> QED
      BY <1>0, <3>1
  <2>2. ASSUME \A h \in Hosts : ~Trigger(h) PROVE repeats' = repeats
    BY <2>2, Zenon DEF I2cNext, Apb, Controller, I2cProceed, ApbTake, ApbDone, ApbDerail, ApbWrite,
                ApbControl, ApbRead, ApbPoll, ApbPolled, I2cStart, I2cAnswer, I2cFail, BeginTx,
                TakeLock, Enable, Poll, Clear, ReadWord, GiveUp, historyVars
  <2>3. gave_up => gave_up'
    BY Zenon DEF I2cNext, Apb, Controller, I2cProceed, ApbTake, ApbDone, ApbDerail, ApbWrite,
           ApbControl, ApbRead, ApbPoll, ApbPolled, I2cStart, I2cAnswer, I2cFail, BeginTx,
           TakeLock, Enable, Trigger, Poll, Clear, ReadWord, GiveUp, historyVars
  <2> QED
    BY <2>1, <2>2, <2>3
<1>2. OverwrittenOnlyAfterFault'
  <2>1. CASE ~\E h \in Hosts : Enable(h)
    <3>1. overwritten' = overwritten
      BY <2>1, Zenon DEF I2cNext, Apb, Controller, I2cProceed, ApbTake, ApbDone, ApbDerail, ApbWrite,
                  ApbControl, ApbRead, ApbPoll, ApbPolled, I2cStart, I2cAnswer, I2cFail, BeginTx,
                  TakeLock, Trigger, Poll, Clear, ReadWord, GiveUp, historyVars
    <3>2. repeats > 0 => repeats' > 0
      BY <1>0, <1>1
    <3> QED
      BY <1>1, <3>1, <3>2 DEF FaultInv, OverwrittenOnlyAfterFault
  <2>2. CASE \E h \in Hosts : Enable(h)
    <3>1. PICK h \in Hosts : Enable(h)
      BY <2>2
    <3>2. /\ overwritten' <=> (overwritten \/ Busy \/ queue # 0)
          /\ repeats' = repeats /\ host[h].pc = "enable" /\ Locked(host[h])
      BY <3>1, Zenon DEF Enable, Busy, Locked
    <3>3. \A g \in Hosts : ~Enabled(host[g])
      <4>1. ASSUME NEW g \in Hosts, Enabled(host[g]) PROVE FALSE
        <5>1. g = h
          BY <3>2, <4>1, OneHolder DEF Locked
        <5> QED
          BY <3>2, <4>1, <5>1 DEF Enabled
      <4> QED
        BY <4>1
    <3>4. Busy \/ queue # 0 => gave_up \/ repeats > 0
      <4>1. repeats = 0 \/ repeats > 0
        BY <1>0
      <4> QED
        BY <3>3, <4>1 DEF FaultInv
    <3> QED
      BY <1>1, <3>2, <3>4 DEF FaultInv, OverwrittenOnlyAfterFault
  <2> QED
    BY <2>1, <2>2
<1>3. ASSUME ~gave_up', repeats' = 0, \A h \in Hosts : ~Enabled(host'[h])
      PROVE  queue' = 0 /\ ~Busy'
  <2>1. ~gave_up /\ repeats = 0 /\ ~(repeats > 0)
    BY <1>1, <1>3
  <2>2. ~overwritten
    BY <2>1 DEF FaultInv, OverwrittenOnlyAfterFault
  <2>3. ASSUME UNCHANGED <<queue, apb>>, \A g \in Hosts : ~Enabled(host[g])
        PROVE  queue' = 0 /\ ~Busy'
    BY <2>1, <2>3 DEF FaultInv, Busy
  <2>4. CASE Apb
    <3>1. host' = host
      BY <2>4 DEF Apb, ApbTake, ApbDone, ApbDerail, ApbWrite, ApbControl, ApbRead, ApbPoll, ApbPolled
    <3>2. queue = 0 /\ ~Busy
      BY <1>3, <2>1, <3>1 DEF FaultInv
    <3>3. ~Apb
      BY <3>2 DEF Apb, Busy, ApbTake, ApbDone, ApbDerail, ApbWrite, ApbControl, ApbRead, ApbPoll,
                  ApbPolled, ApbAt
    <3> QED
      BY <2>4, <3>3
  <2>5. CASE Controller
    <3>1. UNCHANGED <<host, queue, apb>>
      BY <2>5 DEF Controller, I2cStart, I2cAnswer, I2cFail
    <3> QED
      BY <1>3, <2>3, <3>1
  <2>6. ASSUME NEW h \in Hosts, BeginTx(h) \/ I2cProceed(h) PROVE queue' = 0 /\ ~Busy'
    <3>1. CASE BeginTx(h)
      <4>1. UNCHANGED <<queue, apb>> /\ host[h].pc = "idle"
        BY <3>1 DEF BeginTx, deviceVars
      <4>2. PICK x : host' = [host EXCEPT ![h] = x]
        BY <3>1, Zenon DEF BeginTx
      <4>3. \A g \in Hosts : g # h => host'[g] = host[g]
        BY <4>2 DEF HostInv
      <4>4. \A g \in Hosts : ~Enabled(host[g])
        BY <1>3, <4>1, <4>3 DEF Enabled
      <4> QED
        BY <2>3, <4>1, <4>4
    <3>2. CASE I2cProceed(h)
      <4>1. PICK d \in HostRecords : Outcome(h, d)
        BY <3>2, Outcomes DEF MemoryInv
      <4>2. host'[h] = d /\ \A g \in Hosts : g # h => host'[g] = host[g]
        BY <3>2, <4>1, HostWas
      <4>3. ~Enabled(d)
        BY <1>3, <4>2
      <4>4. TakeLock(h) \/ Clear(h) \/ ReadWord(h)
        BY <1>3, <4>1, <4>3, Zenon DEF Outcome, GoesOn, Enabled
      <4>5. UNCHANGED <<queue, apb>>
        BY <4>4, Zenon DEF TakeLock, Clear, ReadWord, deviceVars
      <4>6. CASE TakeLock(h)
        <5>1. ~Enabled(host[h])
          BY <4>6 DEF TakeLock, Enabled
        <5>2. \A g \in Hosts : ~Enabled(host[g])
          BY <1>3, <4>2, <5>1
        <5> QED
          BY <2>3, <4>5, <5>2
      <4>7. CASE Clear(h) \/ ReadWord(h)
        <5>1. host[h].pc \in {"clear", "read"} /\ DeviceReady
          BY <4>7, Zenon DEF Clear, ReadWord
        <5>2. queue = 0 /\ ~Busy
          BY <2>1, <2>2, <5>1, DoneOnLeaving
        <5> QED
          BY <4>5, <5>2 DEF Busy
      <4> QED
        BY <4>4, <4>6, <4>7
    <3> QED
      BY <2>6, <3>1, <3>2
  <2> QED
    BY <2>4, <2>5, <2>6 DEF I2cNext
<1> QED
  BY <1>2, <1>3 DEF FaultInv

LEMMA WordsStep ==
    ASSUME MemoryInv, HostInv, SequenceInv, FoundInv, OwnWords, I2cNext PROVE OwnWords'
<1>1. SUFFICES ASSUME ~overwritten' PROVE ~wrong'
  BY HistoryStep DEF OwnWords, HistoryInv
<1>2. ~wrong /\ (wrong' <=> wrong)
  BY <1>1, BusSteps DEF OwnWords
<1> QED
  BY <1>2

-----------------------------------------------------------------------------
(* A run is the program of a transaction, and its answer is returned. *)

\* What a transaction is meant to do, and the calls that encode it.
LEMMA ProgramSteps ==
    ASSUME NEW w \in Nat, NEW r \in Nat
    PROVE  /\ Program(w, r) \in Seq(OpNames \X RegisterNames) /\ Len(Program(w, r)) = Calls(w, r)
           /\ Program(w, r)[1] = <<"WR", "control">>
           /\ \A n \in 2..(w + 1) : Program(w, r)[n] = <<"WR", "data">>
           /\ Program(w, r)[w + 2] = <<"WR", "num_bytes">>
           /\ Program(w, r)[w + 3] = <<"WR", "bus_en">>
           /\ Program(w, r)[w + 4] = <<"WR", "control">>
           /\ Program(w, r)[w + 5] = <<"POLL", "status">>
           /\ Program(w, r)[w + 6] = <<"RD", "status">>
           /\ \A n \in (w + 7)..(w + 6 + r) : Program(w, r)[n] = <<"RD", "data">>
           /\ Program(w, r)[w + r + 7] = <<"WR", "control">>
<1>a. PICK A, B, C, D :
        /\ A = <<<<"WR", "control">>>> /\ B = [i \in 1..w |-> <<"WR", "data">>]
        /\ C = <<<<"WR", "num_bytes">>, <<"WR", "bus_en">>, <<"WR", "control">>,
                 <<"POLL", "status">>, <<"RD", "status">>>>
        /\ D = [i \in 1..r |-> <<"RD", "data">>]
  BY Zenon
<1>0. PICK S : S = OpNames \X RegisterNames
  BY Zenon
<1>1. A \in Seq(S) /\ B \in Seq(S) /\ C \in Seq(S) /\ D \in Seq(S)
  BY <1>0, <1>a DEF OpNames, RegisterNames
<1>2. /\ Len(A) = 1 /\ A[1] = <<"WR", "control">>
      /\ Len(B) = w /\ \A i \in 1..w : B[i] = <<"WR", "data">>
  BY <1>a, <1>1
<1>3. /\ Len(C) = 5 /\ C[1] = <<"WR", "num_bytes">> /\ C[2] = <<"WR", "bus_en">>
      /\ C[3] = <<"WR", "control">> /\ C[4] = <<"POLL", "status">> /\ C[5] = <<"RD", "status">>
  BY <1>a
<1>4. Len(D) = r /\ \A i \in 1..r : D[i] = <<"RD", "data">>
  BY <1>a, <1>1
<1>5. Program(w, r) = A \o B \o C \o D \o A
  BY <1>a DEF Program
<1>6. PICK x, y, u, v :
          /\ x \in Seq(S) /\ y \in Seq(S) /\ u \in Seq(S) /\ v \in Seq(S)
          /\ Joined(x, A, B) /\ Joined(y, x, C) /\ Joined(u, y, D) /\ Joined(v, u, A)
          /\ v = Program(w, r)
  <2>1. A \o B \in Seq(S) /\ Joined(A \o B, A, B)
    BY <1>1, Concatenated
  <2>2. A \o B \o C \in Seq(S) /\ Joined(A \o B \o C, A \o B, C)
    BY <1>1, <2>1, Concatenated, Zenon
  <2>3. A \o B \o C \o D \in Seq(S) /\ Joined(A \o B \o C \o D, A \o B \o C, D)
    BY <1>1, <2>2, Concatenated, Zenon
  <2>4. A \o B \o C \o D \o A \in Seq(S) /\ Joined(A \o B \o C \o D \o A, A \o B \o C \o D, A)
    BY <1>1, <2>3, Concatenated, Zenon
  <2> QED
    BY <1>5, <2>1, <2>2, <2>3, <2>4, Zenon
<1>7. Len(x) = w + 1 /\ x[1] = A[1] /\ \A n \in 2..(w + 1) : x[n] = B[n - 1]
  <2>1. /\ Len(x) = Len(A) + Len(B) /\ (\A n \in 1..Len(A) : x[n] = A[n])
        /\ \A n \in (Len(A) + 1)..(Len(A) + Len(B)) : x[n] = B[n - Len(A)]
    BY <1>6, Zenon DEF Joined
  <2> QED
    BY <1>2, <2>1, SMTT(30)
<1>8. /\ Len(y) = w + 6 /\ (\A n \in 1..(w + 1) : y[n] = x[n])
      /\ y[w + 2] = C[1] /\ y[w + 3] = C[2] /\ y[w + 4] = C[3] /\ y[w + 5] = C[4]
      /\ y[w + 6] = C[5]
  <2>1. /\ Len(y) = w + 6 /\ (\A n \in 1..(w + 1) : y[n] = x[n])
        /\ \A n \in (w + 2)..(w + 6) : y[n] = C[n - (w + 1)]
    <3>1. Joined(y, x, C) /\ Len(x) = w + 1 /\ Len(C) = 5
      BY <1>3, <1>6, <1>7
    <3>2. Len(x) + 1 = w + 2 /\ Len(x) + Len(C) = w + 6
      BY <3>1
    <3> QED
      BY <3>1, <3>2, Zenon DEF Joined
  <2>2. /\ w + 2 \in (w + 2)..(w + 6) /\ (w + 2) - (w + 1) = 1
        /\ w + 3 \in (w + 2)..(w + 6) /\ (w + 3) - (w + 1) = 2
        /\ w + 4 \in (w + 2)..(w + 6) /\ (w + 4) - (w + 1) = 3
        /\ w + 5 \in (w + 2)..(w + 6) /\ (w + 5) - (w + 1) = 4
        /\ w + 6 \in (w + 2)..(w + 6) /\ (w + 6) - (w + 1) = 5
    OBVIOUS
  <2>3. y[w + 2] = C[1] /\ y[w + 3] = C[2] /\ y[w + 4] = C[3]
    BY <2>1, <2>2, Zenon
  <2>4. y[w + 5] = C[4] /\ y[w + 6] = C[5]
    BY <2>1, <2>2, Zenon
  <2> QED
    BY <2>1, <2>3, <2>4, Zenon
<1>9. /\ Len(u) = w + 6 + r /\ (\A n \in 1..(w + 6) : u[n] = y[n])
      /\ \A n \in (w + 7)..(w + 6 + r) : u[n] = D[n - (w + 6)]
  <2>1. Joined(u, y, D) /\ (w + 6) + 1 = w + 7
    BY <1>6
  <2> QED
    BY <1>4, <1>8, <2>1 DEF Joined
<1>10. Len(v) = w + r + 7 /\ v[w + r + 7] = A[1] /\ \A n \in 1..(w + 6 + r) : v[n] = u[n]
  <2>1. Joined(v, u, A) /\ (w + 6 + r) + 1 = w + r + 7 /\ (w + r + 7) - (w + 6 + r) = 1
    BY <1>6
  <2>2. Len(v) = w + r + 7 /\ \A n \in 1..(w + 6 + r) : v[n] = u[n]
    BY <1>2, <1>9, <2>1 DEF Joined
  <2>3. v[w + r + 7] = A[(w + r + 7) - (w + 6 + r)]
    BY <1>2, <1>9, <2>1 DEF Joined
  <2> QED
    BY <2>1, <2>2, <2>3
<1>11. v[1] = <<"WR", "control">> /\ v[w + r + 7] = <<"WR", "control">>
  BY <1>2, <1>7, <1>8, <1>9, <1>10
<1>12. ASSUME NEW n \in 2..(w + 1) PROVE v[n] = <<"WR", "data">>
  <2>1. v[n] = y[n]
    BY <1>9, <1>10
  <2>2. y[n] = B[n - 1] /\ n - 1 \in 1..w
    BY <1>7, <1>8
  <2> QED
    BY <1>2, <2>1, <2>2
<1>13. /\ v[w + 2] = C[1] /\ v[w + 3] = C[2] /\ v[w + 4] = C[3] /\ v[w + 5] = C[4]
       /\ v[w + 6] = C[5]
  <2>1. \A n \in (w + 2)..(w + 6) : v[n] = y[n]
    BY <1>9, <1>10
  <2>2. v[w + 2] = y[w + 2] /\ v[w + 3] = y[w + 3] /\ v[w + 4] = y[w + 4] /\ v[w + 5] = y[w + 5]
        /\ v[w + 6] = y[w + 6]
    BY <2>1
  <2> QED
    BY <1>8, <2>2
<1>14. ASSUME NEW n \in (w + 7)..(w + 6 + r) PROVE v[n] = <<"RD", "data">>
  <2>1. v[n] = D[n - (w + 6)] /\ n - (w + 6) \in 1..r
    BY <1>9, <1>10
  <2> QED
    BY <1>4, <2>1
<1>15. v \in Seq(OpNames \X RegisterNames) /\ v = Program(w, r) /\ Len(v) = Calls(w, r)
  BY <1>0, <1>6, <1>10 DEF Calls
<1>16. PICK p : p = Program(w, r)
  OBVIOUS
<1>17. /\ p \in Seq(OpNames \X RegisterNames) /\ Len(p) = Calls(w, r)
       /\ p[1] = <<"WR", "control">> /\ p[w + r + 7] = <<"WR", "control">>
       /\ p[w + 2] = <<"WR", "num_bytes">> /\ p[w + 3] = <<"WR", "bus_en">>
       /\ p[w + 4] = <<"WR", "control">> /\ p[w + 5] = <<"POLL", "status">>
       /\ p[w + 6] = <<"RD", "status">>
  BY <1>3, <1>11, <1>13, <1>15, <1>16, Zenon
<1>18. (\A n \in 2..(w + 1) : p[n] = <<"WR", "data">>)
       /\ \A n \in (w + 7)..(w + 6 + r) : p[n] = <<"RD", "data">>
  BY <1>12, <1>14, <1>15, <1>16, Zenon
<1> QED
  BY <1>16, <1>17, <1>18, Zenon

\* The call of a step of the program.
Does(w, r, m, call) == Program(w, r)[m] = <<call.op, call.r>>

LEMMA CallsDo ==
    ASSUME NEW t, NEW w \in Nat, NEW r \in Nat, NEW m \in 1..Calls(w, r), NEW call,
           call = CallAt(t, w, r, m)
    PROVE  Does(w, r, m, call)
<1>1. CallTable(t, w, r)
  BY EncodedCalls
<1>2. \A op, x, i, v : Call(op, x, i, v).op = op /\ Call(op, x, i, v).r = x
  BY DEF Call
<1>3. CASE m \in {1, w + 2, w + 3, w + 4, w + 5, w + 6, w + r + 7}
  <2>1. /\ CallAt(t, w, r, 1) = Call("WR", "control", 0, Zero)
        /\ CallAt(t, w, r, w + 2) = Call("WR", "num_bytes", 0, Val("bytes", w, r))
        /\ CallAt(t, w, r, w + 3) = Call("WR", "bus_en", 0, Val("bus", 0, 0))
        /\ CallAt(t, w, r, w + 4) = Call("WR", "control", 0, Val("start", t, 0))
        /\ CallAt(t, w, r, w + 5) = Call("POLL", "status", 0, Status({"DONE"}))
        /\ CallAt(t, w, r, w + 6) = Call("RD", "status", 0, Zero)
        /\ CallAt(t, w, r, w + r + 7) = Call("WR", "control", 0, Zero)
    BY <1>1, Zenon DEF CallTable
  <2>2. PICK p : p = Program(w, r)
    OBVIOUS
  <2>3. /\ p[1] = <<"WR", "control">> /\ p[w + r + 7] = <<"WR", "control">>
        /\ p[w + 2] = <<"WR", "num_bytes">> /\ p[w + 3] = <<"WR", "bus_en">>
        /\ p[w + 4] = <<"WR", "control">> /\ p[w + 5] = <<"POLL", "status">>
        /\ p[w + 6] = <<"RD", "status">>
    BY <2>2, ProgramSteps, Zenon
  <2> QED
    BY <1>2, <1>3, <2>1, <2>2, <2>3 DEF Does
<1>4. CASE m \in 2..(w + 1)
  <2>1. call = Call("WR", "data", m - 1, Val("word", t, m - 1))
    BY <1>1, <1>4 DEF CallTable
  <2>2. Program(w, r)[m] = <<"WR", "data">>
    BY <1>4, ProgramSteps, Zenon
  <2> QED
    BY <1>2, <2>1, <2>2 DEF Does
<1>5. CASE m \in (w + 7)..(w + 6 + r)
  <2>1. call = Call("RD", "data", m - (w + 6), NoValue)
    BY <1>1, <1>5 DEF CallTable
  <2>2. Program(w, r)[m] = <<"RD", "data">>
    BY <1>5, ProgramSteps, Zenon
  <2> QED
    BY <1>2, <2>1, <2>2 DEF Does
<1>6. \/ m \in {1, w + 2, w + 3, w + 4, w + 5, w + 6, w + r + 7}
      \/ m \in 2..(w + 1) \/ m \in (w + 7)..(w + 6 + r)
  BY DEF Calls
<1> QED
  BY <1>3, <1>4, <1>5, <1>6

LEMMA RunComplete ==
    ASSUME NEW t, NEW w, NEW r, Shaped(t, w, r), MemoryInv, RunAt(t, w, r, Calls(w, r)),
           Len(ran) = Calls(w, r)
    PROVE  \E shape \in Shapes : ran = Program(shape[1], shape[2])
<1>1. w \in Nat /\ r \in Nat /\ <<w, r>> \in Shapes
  BY WordNumbers DEF Shaped
<1>2. PICK p : p = Program(w, r)
  OBVIOUS
<1>3. p \in Seq(OpNames \X RegisterNames) /\ Len(p) = Calls(w, r)
  BY <1>1, <1>2, ProgramSteps, Zenon
<1>4. ran \in Seq(OpNames \X RegisterNames)
  BY DEF MemoryInv, ApbInv
<1>5. ASSUME NEW m \in 1..Calls(w, r) PROVE ran[m] = p[m]
  <2>1. PICK call : call = CallAt(t, w, r, m)
    OBVIOUS
  <2>2. p[m] = <<call.op, call.r>>
    <3>1. w \in Nat /\ r \in Nat /\ m \in 1..Calls(w, r)
      BY <1>1
    <3>2. Does(w, r, m, call)
      BY <2>1, <3>1, CallsDo, Zenon
    <3> QED
      BY <1>2, <3>2 DEF Does
  <2>3. ran[m] = <<call.op, call.r>>
    BY <2>1 DEF RunAt
  <2> QED
    BY <2>2, <2>3
<1>6. ran = p
  BY <1>3, <1>4, <1>5
<1>7. ran = Program(<<w, r>>[1], <<w, r>>[2])
  BY <1>2, <1>6
<1> QED
  BY <1>1, <1>7

LEMMA EncodedStep ==
    ASSUME MemoryInv, HostInv, SequenceInv, FoundInv, AsEncoded, I2cNext PROVE AsEncoded'
<1>1. SUFFICES ASSUME ~overwritten', apb'.pc = "idle", ran' # <<>>
               PROVE  \E shape \in Shapes : ran' = Program(shape[1], shape[2])
  BY DEF AsEncoded
<1>2. ~overwritten
  BY <1>1, BusSteps
<1>3. CASE UNCHANGED <<apb, ran>>
  BY <1>1, <1>2, <1>3 DEF AsEncoded
<1>4. CASE Apb
  <2>1. apb.pc # "idle" \/ ApbTake
    BY <1>4 DEF Apb, ApbDone, ApbDerail, ApbWrite, ApbControl, ApbRead, ApbPoll, ApbPolled, ApbAt
  <2>2. ~ApbTake /\ ~ApbWrite /\ ~ApbControl /\ ~ApbRead /\ ~ApbPoll /\ ~ApbPolled /\ ~ApbDerail
    <3>1. \A p : [IdleApb EXCEPT !.pc = p].pc = p
      BY DEF IdleApb
    <3>2. ~ApbTake
      BY <1>1 DEF ApbTake, IdleApb
    <3>3. ~ApbDerail /\ ~ApbControl
      <4>1. ApbDerail => apb'.pc = "derailed"
        BY <3>1 DEF ApbDerail
      <4>2. ApbControl => apb'.pc = "aborted" \/ apb'.pc = "command"
        <5>1. Execute(NextCommand, 2, "command") => apb'.pc = "command"
          BY DEF Execute
        <5>2. apb' = [IdleApb EXCEPT !.pc = "aborted"] => apb'.pc = "aborted"
          BY <3>1
        <5> QED
          BY <5>1, <5>2 DEF ApbControl
      <4> QED
        BY <1>1, <4>1, <4>2
    <3>4. ~ApbPolled
      BY <1>1 DEF ApbPolled, MemoryInv, ApbInv
    <3> QED
      BY <1>1, <3>2, <3>3, <3>4 DEF ApbWrite, ApbRead, ApbPoll, Execute
  <2>3. ApbDone /\ Busy /\ ran' = ran
    BY <1>4, <2>1, <2>2 DEF Apb, ApbDone, historyVars, Busy
  <2>4. ram # <<>>
    BY <1>2, <2>3 DEF SequenceInv
  <2>5. PICK t : \E w : \E r : \E n : InMemory(t, w, r, n)
    BY <1>2, <2>4, Current
  <2>6. PICK w : \E r : \E n : InMemory(t, w, r, n)
    BY <2>5
  <2>7. PICK r : \E n : InMemory(t, w, r, n)
    BY <2>6
  <2>8. PICK n : InMemory(t, w, r, n)
    BY <2>7
  <2>9. Shaped(t, w, r) /\ Holds(t, w, r) /\ RunInv(t, w, r, n) /\ n = Len(ran)
    BY <2>3, <2>8 DEF InMemory, CurrentInv
  <2>10. n = Calls(w, r)
    BY <2>3, <2>9, RunEnds
  <2>11. \E shape \in Shapes : ran = Program(shape[1], shape[2])
    BY <2>9, <2>10, RunComplete DEF RunInv
  <2> QED
    BY <2>3, <2>11
<1>5. CASE Controller
  BY <1>3, <1>5 DEF Controller, I2cStart, I2cAnswer, I2cFail, historyVars
<1>6. CASE \E h \in Hosts : BeginTx(h) \/ I2cProceed(h)
  BY <1>3, <1>6, Zenon DEF BeginTx, I2cProceed, TakeLock, Enable, Trigger, Poll, Clear, ReadWord, GiveUp,
                    deviceVars, historyVars
<1> QED
  BY <1>4, <1>5, <1>6 DEF I2cNext

\* A peripheral is never given a transaction less often than before.
LEMMA RunsGrow ==
    ASSUME MemoryInv, HostInv, I2cNext PROVE \A u \in Txs : runs[u] > 0 => runs'[u] > 0
<1>1. runs \in [Txs -> Nat]
  BY DEF HostInv, HistoryInv
<1>2. CASE runs' = runs
  BY <1>2
<1>3. CASE I2cAnswer
  <2>1. ctrl.pc = "execute" /\ runs' = [runs EXCEPT ![ctrl.peripheral] = runs[ctrl.peripheral] + 1]
    BY <1>3 DEF I2cAnswer
  <2>2. ctrl.peripheral \in Txs
    BY <2>1 DEF MemoryInv, ControllerInv
  <2> QED
    BY <1>1, <2>1, <2>2
<1>4. ~I2cAnswer => runs' = runs
  BY Zenon DEF I2cNext, Apb, Controller, I2cProceed, ApbTake, ApbDone, ApbDerail, ApbWrite,
         ApbControl, ApbRead, ApbPoll, ApbPolled, I2cStart, I2cFail, BeginTx,
         TakeLock, Enable, Trigger, Poll, Clear, ReadWord, GiveUp, historyVars
<1> QED
  BY <1>2, <1>3, <1>4

\* The answer c returns is that of its own peripheral.
Own(c) == c.code = "ok" => c.got = [i \in 1..c.r |-> Val("answer", c.tx, i)] /\ runs[c.tx] > 0

LEMMA LeavesWithAnswer ==
    ASSUME Prompt = TRUE, MemoryInv, HostInv, SequenceInv, FoundInv, ~overwritten,
           NEW h \in Hosts, ReadWord(h), NEW d \in HostRecords, ReadGot(h, d.got), Len(d.got) = d.r,
           d.tx = host[h].tx, d.w = host[h].w, d.r = host[h].r
    PROVE  Own(d)
<1>1. host[h].pc = "read" /\ Enabled(host[h])
  BY Zenon DEF ReadWord, Enabled
<1>2. ram # <<>> /\ Finished(host[h].tx, host[h].w, host[h].r)
  BY <1>1 DEF FoundInv
<1>3. PICK t : \E w : \E r : \E n : InMemory(t, w, r, n)
  BY <1>2, Current
<1>4. PICK w : \E r : \E n : InMemory(t, w, r, n)
  BY <1>3
<1>5. PICK r : \E n : InMemory(t, w, r, n)
  BY <1>4
<1>6. PICK n : InMemory(t, w, r, n)
  BY <1>5
<1>7. CurrentInv(t, w, r, n)
  BY <1>6 DEF InMemory
<1>8. d.tx = t /\ d.w = w /\ d.r = r /\ Finished(t, w, r)
  BY <1>1, <1>2, <1>7, HostCurrent
<1>9. runs[t] > 0
  BY <1>7, <1>8 DEF CurrentInv, StoreInv
<1>10. PICK got : got = d.got
  OBVIOUS
<1>11. got \in Seq(Values) /\ Len(got) = r
  BY <1>8, <1>10 DEF HostRecords
<1>12. \A i \in 1..Len(got) : got[i] = Val("answer", t, i)
  BY <1>6, <1>10, <1>11, ReadAnswers
<1>13. got = [i \in 1..r |-> Val("answer", t, i)]
  BY <1>11, <1>12
<1> QED
  BY <1>8, <1>9, <1>10, <1>13 DEF Own

LEMMA AnswerStep ==
    ASSUME Prompt = TRUE, MemoryInv, HostInv, SequenceInv, FoundInv, OwnAnswer, I2cNext
    PROVE  OwnAnswer'
<1>1. SUFFICES ASSUME ~overwritten', NEW g \in Hosts, NEW e, e = host'[g], e.code = "ok"
               PROVE  e.got = [i \in 1..e.r |-> Val("answer", e.tx, i)] /\ runs'[e.tx] > 0
  BY DEF OwnAnswer
<1>2. ~overwritten
  BY <1>1, BusSteps
<1>3. ASSUME NEW c \in HostRecords, c = e, Own(c), c.tx \in Txs
      PROVE  e.got = [i \in 1..e.r |-> Val("answer", e.tx, i)] /\ runs'[e.tx] > 0
  <2>1. c.got = [i \in 1..c.r |-> Val("answer", c.tx, i)] /\ runs[c.tx] > 0
    BY <1>1, <1>3 DEF Own
  <2> QED
    BY <1>3, <2>1, RunsGrow
<1>4. CASE host'[g] = host[g]
  <2>1. PICK c : c = host[g]
    OBVIOUS
  <2>2. c.code = "ok" /\ c = e /\ c \in HostRecords
    BY <1>1, <1>4, <2>1 DEF HostInv
  <2>3. c.tx \in Txs
    BY <2>1, <2>2, HostShaped, Zenon DEF Shaped
  <2>4. Own(c)
    BY <1>2, <2>1, <2>2, Zenon DEF OwnAnswer, Own
  <2> QED
    BY <1>3, <2>2, <2>3, <2>4
<1>5. CASE host'[g] # host[g]
  <2>1. PICK h \in Hosts : BeginTx(h) \/ I2cProceed(h)
    BY <1>5 DEF I2cNext, Apb, Controller, ApbTake, ApbDone, ApbDerail, ApbWrite,
                ApbControl, ApbRead, ApbPoll, ApbPolled, I2cStart, I2cAnswer, I2cFail
  <2>2. CASE BeginTx(h)
    <3>1. PICK x : host' = [host EXCEPT ![h] = x] /\ x.code = "none"
      <4>1. PICK n : n = begun'
        OBVIOUS
      <4>2. PICK shape \in Shapes :
              host' = [host EXCEPT ![h] = [pc |-> "lock", tx |-> n, w |-> shape[1],
                           r |-> shape[2], got |-> <<>>, code |-> "none"]]
        BY <2>2, <4>1, Zenon DEF BeginTx
      <4>3. PICK c : c = [pc |-> "lock", tx |-> n, w |-> shape[1], r |-> shape[2], got |-> <<>>,
                          code |-> "none"]
        BY Zenon
      <4>4. c.code = "none"
        BY <4>3
      <4>5. host' = [host EXCEPT ![h] = c]
        BY <4>2, <4>3, Zenon
      <4> QED
        BY <4>4, <4>5, Zenon
    <3>2. host'[g] = x
      BY <1>5, <3>1 DEF HostInv
    <3> QED
      BY <1>1, <3>1, <3>2
  <2>3. CASE I2cProceed(h)
    <3>1. PICK d \in HostRecords : Outcome(h, d)
      BY <2>3, Outcomes DEF MemoryInv
    <3>2. g = h /\ e = d /\ d.tx = host[h].tx /\ d.w = host[h].w /\ d.r = host[h].r
      BY <1>1, <1>5, <2>3, <3>1, HostWas
    <3>3. InTx(host[h])
      BY <2>3, Zenon DEF I2cProceed, TakeLock, Enable, Trigger, Poll, Clear, ReadWord, GiveUp, InTx
    <3>4. host[h].code = "none" /\ host[h].tx \in Txs
      BY <3>3, HostShaped, Zenon DEF HostInv, HostOK, Shaped
    <3>5. d.code = "ok"
      BY <1>1, <3>2
    <3>6. ReadWord(h) /\ ReadGot(h, d.got) /\ Len(d.got) = d.r
      BY <3>1, <3>4, <3>5 DEF Outcome, GoesOn
    <3>7. Own(d)
      BY <1>2, <3>2, <3>6, LeavesWithAnswer
    <3> QED
      BY <1>3, <3>2, <3>4, <3>7
  <2> QED
    BY <2>1, <2>2, <2>3
<1> QED
  BY <1>4, <1>5

-----------------------------------------------------------------------------
(* The invariant is inductive. *)

LEMMA I2cStarts == ASSUME I2cInit PROVE I2cInv
<1>1. RamInv
  BY DEF I2cInit, RamInv
<1>2. ApbInv
  BY I2cAssumption DEF I2cInit, ApbInv, IdleApb, OpNames, RegisterNames
<1>3. ControllerInv
  <2>1. Val("bytes", 0, 0) \in Values
    BY DEF Values, Word32, Val, Flags, MaxWords
  <2>2. <<>> \in Seq(Values)
    OBVIOUS
  <2> QED
    BY <2>1, <2>2 DEF I2cInit, ControllerInv
<1>4. HostInv
  <2>1. NoTx \in HostRecords
    BY I2cAssumption DEF NoTx, HostRecords, MaxWords
  <2>2. HistoryInv
    <3>1. 0 \in 0..MaxTx /\ 0 \in Nat /\ 1..0 = {} /\ 0 <= 1 + 0
      BY I2cAssumption
    <3>2. /\ begun = 0 /\ asked = [t \in Txs |-> <<0, 0>>] /\ triggers = [t \in Txs |-> 0]
          /\ runs = [t \in Txs |-> 0] /\ repeats = 0
          /\ gave_up = FALSE /\ overwritten = FALSE /\ wrong = FALSE
      BY DEF I2cInit
    <3> QED
      BY <3>1, <3>2, Zenon DEF HistoryInv
  <2>3. \A h \in Hosts : host[h] = NoTx
    BY DEF I2cInit
  <2>4. \A h \in Hosts : HostOK(h, NoTx)
    BY DEF I2cInit, HostOK, NoTx, InTx, Enabled, Locked
  <2>5. ~InTx(NoTx)
    BY DEF InTx, NoTx
  <2>6. host \in [Hosts -> HostRecords] /\ lock \in Hosts \cup {NoHost}
    BY <2>1 DEF I2cInit
  <2> QED
    BY <2>2, <2>3, <2>4, <2>5, <2>6 DEF HostInv
<1>5. SequenceInv
  BY I2cAssumption DEF I2cInit, SequenceInv, Busy, IdleApb
<1>6. FoundInv /\ FaultInv /\ OwnAnswer
  <2>1. \A h \in Hosts : host[h] = NoTx
    BY DEF I2cInit
  <2>2. ~Enabled(NoTx) /\ NoTx.pc = "idle" /\ NoTx.code = "none"
    BY DEF Enabled, NoTx
  <2>3. OwnAnswer
    BY <2>1, <2>2 DEF OwnAnswer
  <2>4. FoundInv
    BY <2>1, <2>2 DEF FoundInv
  <2>5. FaultInv
    BY DEF I2cInit, FaultInv, OverwrittenOnlyAfterFault, Busy, IdleApb
  <2> QED
    BY <2>3, <2>4, <2>5
<1>7. OwnWords /\ AsEncoded
  BY DEF I2cInit, OwnWords, AsEncoded
<1> QED
  BY <1>1, <1>2, <1>3, <1>4, <1>5, <1>6, <1>7 DEF I2cInv, MemoryInv

LEMMA I2cStutters == ASSUME I2cInv, UNCHANGED i2cVars PROVE I2cInv'
<1>0. /\ UNCHANGED <<host, lock, ram, queue, apb, regs, ctrl>>
      /\ UNCHANGED <<begun, asked, triggers, runs, ran, repeats, gave_up, overwritten,
                     wrong>>
  BY DEF i2cVars, deviceVars, historyVars
<1>1. MemoryInv'
  BY <1>0 DEF I2cInv, MemoryInv, RamInv, ApbInv, ControllerInv
<1>2. HostInv'
  BY <1>0, Zenon DEF I2cInv, HostInv, HistoryInv, HostOK
<1>3. SequenceInv'
  <2>1. CASE overwritten \/ ram = <<>>
    BY <1>0, <2>1 DEF I2cInv, SequenceInv, Busy
  <2>2. CASE ~overwritten /\ ram # <<>>
    <3>1. PICK t : \E w : \E r : \E n : InMemory(t, w, r, n)
      BY <2>2, Current DEF I2cInv
    <3>2. PICK w : \E r : \E n : InMemory(t, w, r, n)
      BY <3>1
    <3>3. PICK r : \E n : InMemory(t, w, r, n)
      BY <3>2
    <3>4. PICK n : InMemory(t, w, r, n)
      BY <3>3
    <3>5. \A g \in Hosts : Enabled(host'[g]) => host'[g].tx = t
      BY <1>0, <3>4 DEF InMemory, CurrentInv
    <3>6. begun \in Nat
      BY I2cAssumption DEF I2cInv, HostInv, HistoryInv
    <3>7. InMemory(t, w, r, n)'
      BY <1>0, <3>4, <3>5, <3>6, HostLeavesMemory
    <3>8. \A u \in Txs : runs'[u] <= triggers'[u]
      BY <1>0, <2>2 DEF I2cInv, SequenceInv
    <3> QED
      BY <1>0, <2>2, <3>7, <3>8, CurrentAfter
  <2> QED
    BY <2>1, <2>2
<1>4. FoundInv'
  BY <1>0 DEF I2cInv, FoundInv, Finished, StatusCell
<1>5. OwnWords' /\ AsEncoded'
  BY <1>0 DEF I2cInv, OwnWords, AsEncoded
<1>6. (Prompt = TRUE)' => FaultInv' /\ OwnAnswer'
  BY <1>0 DEF I2cInv, FaultInv, OverwrittenOnlyAfterFault, Busy, OwnAnswer
<1> QED
  BY <1>1, <1>2, <1>3, <1>4, <1>5, <1>6 DEF I2cInv

LEMMA I2cKeeps == ASSUME I2cInv, [I2cNext]_i2cVars PROVE I2cInv'
<1>1. CASE I2cNext
  <2>1. MemoryInv' /\ HostInv' /\ SequenceInv' /\ FoundInv' /\ OwnWords' /\ AsEncoded'
    BY <1>1, MemoryStep, HostStep, SequenceStep, FoundStep, WordsStep, EncodedStep DEF I2cInv
  <2>2. (Prompt = TRUE)' => FaultInv' /\ OwnAnswer'
    BY <1>1, FaultStep, AnswerStep DEF I2cInv
  <2> QED
    BY <2>1, <2>2 DEF I2cInv
<1>2. CASE UNCHANGED i2cVars
  BY <1>2, I2cStutters
<1> QED
  BY <1>1, <1>2

LEMMA IntactOf ==
    ASSUME I2cInv
    PROVE  I2cTypeOK /\ OwnWords /\ OncePerTrigger /\ AsEncoded /\ NeverAborts
<1>1. I2cTypeOK
  <2>1. ASSUME NEW h \in Hosts
        PROVE  /\ host[h].pc \in {"idle", "lock", "enable", "trigger", "poll", "clear", "read"}
               /\ host[h].tx \in 0..MaxTx /\ host[h].got \in Seq(Word32)
               /\ host[h].code \in {"none", "ok", "nak", "error"}
    <3>1. host[h] \in HostRecords
      BY DEF I2cInv, HostInv
    <3>2. host[h].got \in Seq(Values)
      BY <3>1 DEF HostRecords
    <3>3. \A s \in Seq(Values) : s \in Seq(Word32)
      BY DEF Values
    <3> QED
      BY <3>1, <3>2, <3>3 DEF HostRecords
  <2>2. ASSUME NEW i \in DOMAIN ram, ram[i].c = "data" PROVE ram[i].v \in Word32
    <3>1. ram[i] \in Cells
      BY DEF I2cInv, MemoryInv, RamInv
    <3> QED
      BY <2>2, <3>1, CellKinds DEF Values
  <2>3. /\ lock \in Hosts \cup {NoHost} /\ queue \in Nat
        /\ apb.pc \in {"idle", "command", "poll", "derailed", "aborted"}
        /\ regs.status \in SUBSET Flags /\ ctrl.pc \in {"wait", "execute"}
        /\ ctrl.peripheral \in (IF ctrl.cmd THEN Txs ELSE {0})
    BY DEF I2cInv, MemoryInv, RamInv, ApbInv, ControllerInv, HostInv
  <2>4. ASSUME NEW i \in DOMAIN regs.data PROVE regs.data[i] \in Word32
    BY DEF I2cInv, MemoryInv, ControllerInv, Values
  <2>5. /\ begun \in 0..MaxTx /\ asked \in [Txs -> Shapes \cup {<<0, 0>>}]
        /\ triggers \in [Txs -> Nat] /\ runs \in [Txs -> Nat]
    BY DEF I2cInv, HostInv, HistoryInv
  <2> QED
    BY <2>1, <2>2, <2>3, <2>4, <2>5 DEF I2cTypeOK
<1>2. OwnWords /\ AsEncoded
  BY DEF I2cInv
<1>3. OncePerTrigger
  BY DEF I2cInv, SequenceInv, OncePerTrigger
<1>4. NeverAborts
  <2>1. apb.pc # "aborted"
    BY DEF I2cInv, MemoryInv, ApbInv
  <2>2. ASSUME ~overwritten, apb.pc = "derailed" PROVE FALSE
    <3>1. ram # <<>>
      BY <2>2 DEF I2cInv, SequenceInv, Busy
    <3> QED
      BY <2>2, <3>1 DEF I2cInv, SequenceInv, CurrentInv
  <2> QED
    BY <2>1, <2>2 DEF NeverAborts
<1> QED
  BY <1>1, <1>2, <1>3, <1>4

\* The conjuncts of the inductive invariant hold in every state: what the
\* memory, the interpreter, the controller and the hosts hold while a sequence
\* runs, wherever the device's threads are.
THEOREM I2cInvariant == I2cSafety => []I2cInv
<1>1. I2cInit => I2cInv
  BY I2cStarts
<1>2. I2cInv /\ [I2cNext]_i2cVars => I2cInv'
  BY I2cKeeps
<1> QED
  BY <1>1, <1>2, PTL DEF I2cSafety

\* A sequence that was not overwritten is executed as encode_i2c_request
\* encoded it, whatever the lengths of a transaction and the commands in a
\* command word: the peripheral is given the transaction's words, once per
\* trigger and error, and the interpreter never meets a busy controller. So
\* also in the emulator, whose threads may be anywhere when a packet arrives.
THEOREM SequencesRunAsEncoded ==
    I2cSafety => [](I2cTypeOK /\ OwnWords /\ OncePerTrigger /\ AsEncoded /\ NeverAborts)
<1>1. I2cInv => I2cTypeOK /\ OwnWords /\ OncePerTrigger /\ AsEncoded /\ NeverAborts
  BY IntactOf
<1> QED
  BY <1>1, I2cInvariant, PTL

\* With a sequencer that is faster than packets, as the FPGA's, a sequence is
\* moreover overwritten only after a transaction was given up or a trigger
\* repeated.
THEOREM SequencesAreIntact == ASSUME Prompt = TRUE PROVE I2cSafety => []SequencesIntact
<1>1. I2cInv => SequencesIntact
  BY IntactOf DEF I2cInv, FaultInv, SequencesIntact
<1> QED
  BY <1>1, I2cInvariant, PTL

\* And a transaction that succeeds returns the answer of its own peripheral,
\* whatever other hosts did with the bus before, between and after.
THEOREM AnswersAreOwn == ASSUME Prompt = TRUE PROVE I2cSafety => []OwnAnswer
<1>1. I2cInv => OwnAnswer
  BY DEF I2cInv
<1> QED
  BY <1>1, I2cInvariant, PTL
=============================================================================
