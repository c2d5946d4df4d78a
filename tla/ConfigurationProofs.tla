------------------------- MODULE ConfigurationProofs -------------------------
(* What read_config_file accepts, for any set of files. *)
EXTENDS Configuration, TLAPS

LEMMA FileTokens ==
  ASSUME TypeOK
  PROVE  /\ file \in Seq(Token)
         /\ \A i \in DOMAIN file : file[i].value \in Int
BY FilesAssumption DEF TypeOK, Token

(* The values keep their type: a pair holds a number. *)
THEOREM ConfigTypeCorrect == Spec => []TypeOK
<1>1. Init => TypeOK
  BY DEF Init, TypeOK
<1>2. TypeOK /\ [Next]_vars => TypeOK'
  <2> SUFFICES ASSUME TypeOK, [Next]_vars PROVE TypeOK'
    OBVIOUS
  <2>1. CASE StorePair
    <3>1. file[pos + 1].value \in Int
      BY <2>1, FileTokens DEF StorePair, SettingAt, PairAt
    <3> QED BY <2>1, <3>1 DEF StorePair, SettingAt, TypeOK
  <2>2. CASE RefuseUnknownKey
    BY <2>2 DEF RefuseUnknownKey, TypeOK
  <2>3. CASE StopReading
    BY <2>3 DEF StopReading, TypeOK
  <2>4. CASE RefuseInvalid
    BY <2>4 DEF RefuseInvalid, TypeOK
  <2>5. CASE Accept
    <3>1. \A n \in Int : ClampPercentage(n) \in Int
      BY DEF ClampPercentage
    <3>2. config["P_SERV_MIN"] \in Int /\ config["P_SERV_MAX"] \in Int
      BY DEF TypeOK, Keys
    <3> QED BY <2>5, <3>1, <3>2 DEF Accept, TypeOK
  <2>6. CASE UNCHANGED vars
    BY <2>6 DEF vars, TypeOK
  <2> QED BY <2>1, <2>2, <2>3, <2>4, <2>5, <2>6 DEF Next
<1> QED BY <1>1, <1>2, PTL DEF Spec

(* Clamping keeps the order of the two percentages, so the interval the    *)
(* director divides by is never empty.                                     *)
LEMMA ClampMonotone ==
  ASSUME NEW m \in Int, NEW n \in Int, m <= n
  PROVE  /\ ClampPercentage(m) \in 0 .. 100
         /\ ClampPercentage(n) \in 0 .. 100
         /\ ClampPercentage(m) <= ClampPercentage(n)
BY DEF ClampPercentage

(* Whatever the file says, an accepted configuration can be run. *)
THEOREM AcceptedUsable == Spec => []AcceptedIsUsable
<1>1. Init => AcceptedIsUsable
  BY DEF Init, AcceptedIsUsable
<1>2. TypeOK /\ TypeOK' /\ AcceptedIsUsable /\ [Next]_vars => AcceptedIsUsable'
  <2> SUFFICES ASSUME TypeOK, AcceptedIsUsable, [Next]_vars PROVE AcceptedIsUsable'
    OBVIOUS
  <2>1. CASE Accept
    <3> DEFINE lo == config["P_SERV_MIN"]
               hi == config["P_SERV_MAX"]
    <3>1. lo \in Int /\ hi \in Int /\ lo <= hi
      BY <2>1 DEF Accept, Valid, TypeOK, Keys
    <3>2. /\ ClampPercentage(lo) \in 0 .. 100
          /\ ClampPercentage(hi) \in 0 .. 100
          /\ ClampPercentage(lo) <= ClampPercentage(hi)
      BY <3>1, ClampMonotone
    <3>3. /\ config'["P_SERV_MIN"] = ClampPercentage(lo)
          /\ config'["P_SERV_MAX"] = ClampPercentage(hi)
          /\ \A k \in Positive : config'[k] = config[k]
      BY <2>1 DEF Accept, TypeOK, Keys, Positive
    <3>4. \A k \in Positive : config'[k] > 0
      BY <2>1, <3>3 DEF Accept, Valid
    <3>5. Interval' > 0 /\ Interval' \in Int
      BY <3>2, <3>3 DEF Interval
    <3>6. (GoProbabilities \subseteq 0 .. 100)'
      BY <3>2, <3>3 DEF Interval, GoProbabilities
    <3> QED BY <3>4, <3>5, <3>6 DEF AcceptedIsUsable
  <2>2. CASE StorePair
    BY <2>2 DEF StorePair, AcceptedIsUsable
  <2>3. CASE RefuseUnknownKey \/ StopReading \/ RefuseInvalid
    BY <2>3 DEF RefuseUnknownKey, StopReading, RefuseInvalid, AcceptedIsUsable
  <2>4. CASE UNCHANGED vars
    BY <2>4 DEF vars, AcceptedIsUsable, Interval, GoProbabilities
  <2> QED BY <2>1, <2>2, <2>3, <2>4 DEF Next
<1> QED BY <1>1, <1>2, ConfigTypeCorrect, PTL DEF Spec

(* No two semaphores share a number, whatever the number of counters.      *)
LEMMA SemaphoresDistinct ==
  ASSUME NEW n \in Nat \ {0},
         NEW k \in SemKinds, NEW i \in 0 .. HowMany(n)[k] - 1,
         NEW l \in SemKinds, NEW j \in 0 .. HowMany(n)[l] - 1
  PROVE  /\ SemNumber(n, k, i) \in 0 .. TotalSems(n) - 1
         /\ SemNumber(n, k, i) = SemNumber(n, l, j) => k = l /\ i = j
BY ServicesAssumption DEF SemKinds, HowMany, FirstSem, SemNumber, TotalSems

(* Each semaphore keeps to itself, for any number of counters and services *)
THEOREM SemaphoresAreApart == Spec => []SemaphoresApart
<1>1. TypeOK /\ AcceptedIsUsable => SemaphoresApart
  <2> SUFFICES ASSUME TypeOK, AcceptedIsUsable, status = "accepted"
               PROVE  SemaphoresApart
    BY DEF SemaphoresApart
  <2>1. config["NOF_WORKER_SEATS"] \in Nat \ {0}
    BY DEF TypeOK, AcceptedIsUsable, Keys, Positive
  <2> QED BY <2>1, SemaphoresDistinct DEF SemaphoresApart
<1> QED BY <1>1, ConfigTypeCorrect, AcceptedUsable, PTL

(* The place read next is odd: a pair is two tokens. *)
ReadInv == TypeOK /\ pos % 2 = 1 /\ ConfigFromFile

(* One more pair read adds its own place to those of its key. *)
LEMMA OneMoreSetting ==
  ASSUME TypeOK, pos % 2 = 1, SettingAt(pos), NEW k \in Keys
  PROVE  /\ pos \in 1 .. Len(file) /\ pos + 1 \in 1 .. Len(file)
         /\ Settings(k, pos + 2)
              = Settings(k, pos) \cup (IF file[pos].word = k THEN {pos} ELSE {})
<1>1. /\ pos \in Nat \ {0} /\ pos + 1 \in 1 .. Len(file)
      /\ Len(file) \in Nat
  BY FileTokens DEF TypeOK, SettingAt, PairAt
<1>2. (pos + 1) % 2 = 0
  BY <1>1
<1>3. \A i \in 1 .. pos + 1 : i \in 1 .. pos - 1 \/ i = pos \/ i = pos + 1
  BY <1>1
<1> QED BY <1>1, <1>2, <1>3 DEF Settings

LEMMA StoreKeepsReadInv ==
  ASSUME ReadInv, TypeOK', StorePair
  PROVE  ReadInv'
<1>1. /\ file' = file /\ status' = status /\ status = "reading"
      /\ pos' = pos + 2 /\ pos \in Nat \ {0} /\ SettingAt(pos)
      /\ config' = [config EXCEPT ![file[pos].word] = file[pos + 1].value]
  BY DEF StorePair, ReadInv, TypeOK
<1>2. pos' % 2 = 1
  BY <1>1 DEF ReadInv
<1>3. \A p : SettingAt(p)' <=> SettingAt(p)
  BY <1>1 DEF SettingAt, PairAt
<1>4. ASSUME NEW p \in 1 .. pos' - 1, p % 2 = 1
      PROVE  SettingAt(p)
  <2>1. p \in 1 .. pos - 1 \/ p = pos \/ p = pos + 1
    BY <1>1, <1>4
  <2>2. (pos + 1) % 2 = 0
    BY <1>1 DEF ReadInv
  <2> QED BY <2>1, <2>2, <1>1, <1>4 DEF ReadInv, ConfigFromFile
<1>5. ASSUME NEW k \in Keys
      PROVE  \E v \in {0} \cup {file[i].value : i \in DOMAIN file} :
               ValueFromFile(k, v)' /\ config'[k] = v
  <2>1. /\ pos \in 1 .. Len(file) /\ pos + 1 \in 1 .. Len(file)
        /\ Settings(k, pos + 2)
             = Settings(k, pos) \cup (IF file[pos].word = k THEN {pos} ELSE {})
    BY <1>1, OneMoreSetting DEF ReadInv
  <2>2. /\ Settings(k, pos)' = Settings(k, pos + 2)
        /\ \A i \in Settings(k, pos) : i \in Nat /\ i < pos
    BY <1>1 DEF Settings
  <2>3. DOMAIN file = 1 .. Len(file)
    BY FileTokens DEF ReadInv
  <2>4. CASE file[pos].word = k
    <3>1. config'[k] = file[pos + 1].value
      BY <1>1, <2>4 DEF ReadInv, TypeOK
    <3>2. pos \in Settings(k, pos)' /\ \A j \in Settings(k, pos)' : j <= pos
      BY <2>1, <2>2, <2>4, <1>1
    <3>3. \A v : v = file[pos + 1].value => ValueFromFile(k, v)'
      BY <3>2, <1>1 DEF ValueFromFile
    <3> QED BY <3>1, <3>3, <2>1, <2>3
  <2>5. CASE file[pos].word # k
    <3>1. config'[k] = config[k]
      BY <1>1, <2>5 DEF ReadInv, TypeOK
    <3>2. Settings(k, pos)' = Settings(k, pos)
      BY <2>1, <2>2, <2>5
    <3>3. \A v : ValueFromFile(k, v) => ValueFromFile(k, v)'
      BY <3>2, <1>1 DEF ValueFromFile
    <3> QED BY <3>1, <3>3, <1>1 DEF ReadInv, ConfigFromFile
  <2> QED BY <2>4, <2>5
<1>6. ConfigFromFile'
  BY <1>1, <1>3, <1>4, <1>5 DEF ConfigFromFile
<1> QED BY <1>2, <1>6 DEF ReadInv

(* The accepted values are the file's. *)
THEOREM ValuesFromFile == Spec => []ConfigFromFile
<1>1. Init => ReadInv
  <2> SUFFICES ASSUME Init PROVE ReadInv
    OBVIOUS
  <2>1. TypeOK /\ pos % 2 = 1
    BY DEF Init, TypeOK
  <2>2. \A k : Settings(k, pos) = {}
    BY DEF Init, Settings
  <2> QED BY <2>1, <2>2 DEF Init, ReadInv, ConfigFromFile, ValueFromFile
<1>2. ReadInv /\ TypeOK' /\ [Next]_vars => ReadInv'
  <2> SUFFICES ASSUME ReadInv, TypeOK', [Next]_vars PROVE ReadInv'
    OBVIOUS
  <2>1. CASE StorePair
    BY <2>1, StoreKeepsReadInv
  <2>2. CASE ~StorePair
    <3>1. file' = file /\ pos' = pos
      BY <2>2 DEF Next, RefuseUnknownKey, StopReading, RefuseInvalid, Accept, vars
    <3>2. /\ \A p : SettingAt(p)' <=> SettingAt(p)
          /\ \A k, v : ValueFromFile(k, v)' <=> ValueFromFile(k, v)
      BY <3>1 DEF SettingAt, PairAt, ValueFromFile, Settings
    <3>3. status' \in {"checking", "accepted"} => ~SettingAt(pos)
      BY <2>2 DEF Next, RefuseUnknownKey, StopReading, RefuseInvalid, Accept, vars,
                 ReadInv, ConfigFromFile, SettingAt
    <3>4. ASSUME NEW k \in Keys
          PROVE  \E v \in {0} \cup {file[i].value : i \in DOMAIN file} :
                   /\ ValueFromFile(k, v)
                   /\ config'[k] = IF status' = "accepted" /\ k \in {"P_SERV_MIN", "P_SERV_MAX"}
                                   THEN ClampPercentage(v) ELSE v
      <4>1. CASE Accept
        BY <4>1 DEF Accept, ReadInv, ConfigFromFile, TypeOK, Keys
      <4>2. CASE ~Accept
        BY <4>2, <2>2 DEF Next, RefuseUnknownKey, StopReading, RefuseInvalid, vars,
                          ReadInv, ConfigFromFile
      <4> QED BY <4>1, <4>2
    <3> QED BY <3>1, <3>2, <3>3, <3>4 DEF ReadInv, ConfigFromFile
  <2> QED BY <2>1, <2>2
<1>3. ReadInv => ConfigFromFile
  BY DEF ReadInv
<1> QED BY <1>1, <1>2, <1>3, ConfigTypeCorrect, PTL DEF Spec
=============================================================================
