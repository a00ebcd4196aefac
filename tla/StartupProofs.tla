---------------------------- MODULE StartupProofs ----------------------------
(***************************************************************************)
(* Startup, for every vocabulary of keys and values and files of any size. *)
(***************************************************************************)
EXTENDS Startup, TLAPS

(***************************************************************************)
(* The table of reads.                                                     *)
(***************************************************************************)
(* No field is filled from two keys.                                       *)
LEMMA OneKeyPerField ==
    ASSUME NEW i \in DOMAIN Reads, NEW j \in DOMAIN Reads, Reads[i][2] = Reads[j][2]
    PROVE  i = j
  BY SMTT(60) DEF Reads

LEMMA ReadsAField ==
    ASSUME NEW i \in DOMAIN Reads
    PROVE  Reads[i][2] \in Field
  BY DEF Field

LEMMA HttpEnabledRead ==
    /\ 4 \in DOMAIN Reads
    /\ Reads[4][1] = "http/enabled" /\ Reads[4][2] = "http_enabled" /\ Reads[4][3] = "bool"
  BY SMTT(60) DEF Reads

LEMMA ReadsBefore == \A i \in DOMAIN Reads : \A j \in 1..i : j \in DOMAIN Reads
  <1>1. DOMAIN Reads = 1..32
    BY DEF Reads
  <1>2. QED BY <1>1

(* What an empty directory becomes does not decide what can be converted.  *)
LEMMA ConvertedEither ==
    ASSUME NEW as, NEW v, NEW e \in {"", "/"}
    PROVE  Converted(as, v, e) = Nothing <=> Converted(as, v, "") = Nothing
  <1>0. \A t : Str(t) # Nothing
    BY DEF Str, Nothing
  <1>1. CASE as = "directory" /\ v.type = "string"
    <2>1. \A x : \E t : Converted(as, v, x) = Str(t)
      BY <1>1 DEF Converted
    <2>2. QED BY <1>0, <2>1
  <1>2. CASE as = "directory" /\ v.type # "string"
    BY <1>2 DEF Converted
  <1>3. CASE as # "directory"
    BY <1>3 DEF Converted
  <1>4. QED BY <1>1, <1>2, <1>3

LEMMA BoolValue ==
    ASSUME NEW v \in Value \cup {Nothing}, v.type = "bool"
    PROVE  v = Bool(TRUE) \/ v = Bool(FALSE)
  <1>1. \A n, t : Num(n).type = "number" /\ Str(t).type = "string"
    BY DEF Num, Str
  <1>2. Nothing.type = "nothing"
    BY DEF Nothing
  <1>3. ~ \E n \in Number : v = Num(n)
    BY <1>1
  <1>4. ~ \E t \in Text : v = Str(t)
    BY <1>1
  <1>5. v \notin [type : {"array", "object"}, number : {0}, text : {"members"}]
    OBVIOUS
  <1>6. v \in {Bool(b) : b \in BOOLEAN}
    BY <1>2, <1>3, <1>4, <1>5 DEF Value
  <1>7. PICK b \in BOOLEAN : v = Bool(b)
    BY <1>6
  <1>8. CASE b = TRUE
    BY <1>7, <1>8
  <1>9. CASE b = FALSE
    BY <1>7, <1>9
  <1>10. QED BY <1>8, <1>9

Integers64 == {n \in Int : 0 - LongHalf <= n /\ n < 2 * LongHalf}
Signed64 == {n \in Int : 0 - LongHalf <= n /\ n < LongHalf}

LEMMA Widths == UintRange \in Nat \ {0} /\ LongHalf \in Nat /\ LongHalf > 0
  <1>1. UintRange \in Nat \ {0} /\ LongHalf \in Nat \ {0}
    BY StartupAssumption, Zenon DEF StartupAssumption
  <1>2. QED BY <1>1

LEMMA NumberValue ==
    ASSUME NEW v \in Value, v.type \in {"bool", "number"}
    PROVE  v.number \in Int /\ v.number \in Integers64
  <1>1. CASE v.type = "bool"
    <2>1. v = Bool(TRUE) \/ v = Bool(FALSE)
      BY <1>1, BoolValue
    <2>2. Bool(TRUE).number = 1 /\ Bool(FALSE).number = 0
      BY DEF Bool
    <2>3. v.number = 1 \/ v.number = 0
      BY <2>1, <2>2
    <2>4. 1 \in Integers64 /\ 0 \in Integers64
      BY Widths DEF Integers64
    <2>5. QED BY <2>3, <2>4
  <1>2. CASE v.type = "number"
    <2>1. \A b : Bool(b).type = "bool"
      BY DEF Bool
    <2>2. \A t : Str(t).type = "string"
      BY DEF Str
    <2>3. v \in {Num(n) : n \in Number}
      BY <1>2, <2>1, <2>2 DEF Value
    <2>4. PICK n \in Number : v = Num(n)
      BY <2>3
    <2>5. v.number = n
      BY <2>4 DEF Num
    <2>6. n \in Int /\ n \in Integers64
      BY StartupAssumption DEF Integers64
    <2>7. QED BY <2>5, <2>6
  <1>3. QED BY <1>1, <1>2

LEMMA StringValue ==
    ASSUME NEW v \in Value, v.type = "string"
    PROVE  Str(v.text) = v
  <1>1. \A b, n : Bool(b).type = "bool" /\ Num(n).type = "number"
    BY DEF Bool, Num
  <1>2. v \in {Str(t) : t \in Text}
    BY <1>1 DEF Value
  <1>3. PICK t \in Text : v = Str(t)
    BY <1>2
  <1>4. v.text = t
    BY <1>3 DEF Str
  <1>5. QED BY <1>3, <1>4

(* What a division leaves is cut to a width, and is the number itself if   *)
(* that fits.                                                              *)
LEMMA CutToWidth ==
    ASSUME NEW n \in Int, NEW m \in Nat \ {0}
    PROVE  n % m \in 0 .. (m - 1) /\ (n \in 0 .. (m - 1) => n % m = n)
  OBVIOUS

LEMMA CutToSixteen ==
    ASSUME NEW n \in Int
    PROVE  /\ Sixteen(n) \in 0 .. (PortRange - 1)
           /\ n \in 0 .. (PortRange - 1) => Sixteen(n) = n
  <1>1. PortRange \in Nat \ {0}
    BY DEF PortRange
  <1>2. QED BY <1>1, CutToWidth DEF Sixteen

LEMMA CutToMilliseconds ==
    ASSUME NEW n \in Integers64
    PROVE  Milliseconds(n) \in Signed64 /\ (n \in Signed64 => Milliseconds(n) = n)
  BY Widths DEF Integers64, Signed64, Milliseconds

(* A value that can be converted is followed by what it becomes.           *)
LEMMA NumberFollowed ==
    ASSUME NEW as \in {"uint", "uint16", "milliseconds"}, NEW v \in Value, NEW e,
           Converted(as, v, e) # Nothing
    PROVE  FollowsNumber(as, v, Converted(as, v, e))
  <1>0. \A n : Num(n).type = "number" /\ Num(n).number = n
    BY DEF Num
  <1>1. CASE as = "uint"
    <2>1. v.type \in {"bool", "number"} /\ Converted(as, v, e) = Num(Unsigned(v.number))
      BY <1>1 DEF Converted
    <2>2. v.number \in Int
      BY <2>1, NumberValue
    <2>3. /\ Unsigned(v.number) \in 0 .. (UintRange - 1)
          /\ v.number \in 0 .. (UintRange - 1) => Unsigned(v.number) = v.number
      BY <2>2, CutToWidth, Widths DEF Unsigned
    <2>4. Held(as) = 0 .. (UintRange - 1)
      BY <1>1 DEF Held
    <2>5. /\ Num(Unsigned(v.number)).type = "number"
          /\ Num(Unsigned(v.number)).number = Unsigned(v.number)
      BY <1>0
    <2>6. QED BY <1>1, <2>1, <2>3, <2>4, <2>5 DEF FollowsNumber
  <1>2. CASE as = "uint16"
    <2>1. v.type \in {"bool", "number"} /\ Converted(as, v, e) = Num(Sixteen(v.number))
      BY <1>2 DEF Converted
    <2>2. v.number \in Int
      BY <2>1, NumberValue
    <2>3. /\ Sixteen(v.number) \in 0 .. (PortRange - 1)
          /\ v.number \in 0 .. (PortRange - 1) => Sixteen(v.number) = v.number
      BY <2>2, CutToSixteen
    <2>4. Held(as) = 0 .. (PortRange - 1)
      BY <1>2 DEF Held
    <2>5. /\ Num(Sixteen(v.number)).type = "number"
          /\ Num(Sixteen(v.number)).number = Sixteen(v.number)
      BY <1>0
    <2>6. QED BY <1>2, <2>1, <2>3, <2>4, <2>5 DEF FollowsNumber
  <1>3. CASE as = "milliseconds"
    <2>1. v.type = "number" /\ Converted(as, v, e) = Num(Milliseconds(v.number))
      BY <1>3 DEF Converted
    <2>2. v.number \in Int /\ v.number \in Integers64
      BY <2>1, NumberValue
    <2>3. /\ Milliseconds(v.number) \in Signed64
          /\ v.number \in Signed64 => Milliseconds(v.number) = v.number
      BY <2>2, CutToMilliseconds
    <2>4. Held(as) = Signed64
      BY <1>3 DEF Held, Signed64
    <2>5. /\ Num(Milliseconds(v.number)).type = "number"
          /\ Num(Milliseconds(v.number)).number = Milliseconds(v.number)
      BY <1>0
    <2>6. QED BY <1>3, <2>1, <2>3, <2>4, <2>5 DEF FollowsNumber
  <1>4. QED BY <1>1, <1>2, <1>3

LEMMA DirectoryFollowed ==
    ASSUME NEW v \in Value, NEW e \in {"", "/"}, Converted("directory", v, e) # Nothing
    PROVE  FollowsDirectory(v, Converted("directory", v, e))
  <1>1. v.type = "string" /\ Converted("directory", v, e) = Str(WithSlash(v.text, e))
    BY DEF Converted
  <1>2. Str(v.text) = v
    BY <1>1, StringValue
  <1>3. CASE v.text = ""
    <2>1. WithSlash(v.text, e) = e
      BY <1>3 DEF WithSlash
    <2>2. Converted("directory", v, e) \in {Str(""), Str("/")}
      BY <1>1, <2>1
    <2>3. QED BY <1>1, <1>3, <2>2 DEF FollowsDirectory
  <1>4. CASE v.text # ""
    <2>1. WithSlash(v.text, e) = IF v.text \in SlashEnded THEN v.text ELSE v.text \o "/"
      BY <1>4 DEF WithSlash
    <2>2. Converted("directory", v, e) = IF v.text \in SlashEnded THEN v ELSE Str(v.text \o "/")
      BY <1>1, <1>2, <2>1
    <2>3. QED BY <1>1, <1>4, <2>2, Zenon DEF FollowsDirectory
  <1>5. QED BY <1>3, <1>4

LEMMA ConvertedFollows ==
    ASSUME NEW as, NEW v \in Value, NEW e \in {"", "/"}, Converted(as, v, e) # Nothing
    PROVE  Follows(as, v, Converted(as, v, e))
  <1>1. CASE as \in {"uint", "uint16", "milliseconds"}
    BY <1>1, NumberFollowed DEF Follows
  <1>2. CASE as = "directory"
    BY <1>2, DirectoryFollowed DEF Follows
  <1>3. CASE as \in {"bool", "string", "uri", "map", "set"}
    BY <1>3 DEF Follows, Converted
  <1>4. CASE as \notin {"uint", "uint16", "milliseconds", "directory", "bool", "string", "uri",
                        "map", "set"}
    BY <1>4 DEF Converted
  <1>5. QED BY <1>1, <1>2, <1>3, <1>4

LEMMA BoolsDiffer == Bool(TRUE) # Bool(FALSE) /\ Bool(TRUE) # Nothing /\ Bool(FALSE) # Nothing
  <1> DEFINE yes == Bool(TRUE)
             no == Bool(FALSE)
  <1>1. yes.number = 1 /\ no.number = 0
    BY DEF Bool
  <1>2. yes.type = "bool" /\ no.type = "bool" /\ Nothing.type = "nothing"
    BY DEF Bool, Nothing
  <1> HIDE DEF yes, no
  <1>3. yes # no /\ yes # Nothing /\ no # Nothing
    BY <1>1, <1>2
  <1>4. QED BY <1>3 DEF yes, no

(* What a file gives is the same as long as the file is.                   *)
LEMMA FileKept ==
    ASSUME file' = file
    PROVE  \A i \in DOMAIN Reads :
              /\ Given(i)' <=> Given(i)
              /\ \A e \in {"", "/"} : Result(i, e)' = Result(i, e)
              /\ Throws(i)' <=> Throws(i)
  BY DEF Given, Result, Throws, KeyOf, Version

(***************************************************************************)
(* The inductive invariant: what is known at each stage.                   *)
(***************************************************************************)
Stage ==
    {"entered", "reading", "libraries", "settings", "factories", "starting", "serving",
     "leaving", "left"}

(* set_config came to its end. *)
Configured == {"libraries", "settings", "factories", "starting", "serving"}

NoError == readable /\ \A i \in DOMAIN Reads : ~ Throws(i)

Applied ==
    \A i \in DOMAIN Reads : Given(i) =>
        \E empty \in {"", "/"} :
            Result(i, empty) # Nothing /\ cfg[Reads[i][2]] = Result(i, empty)

HttpOff == ~ Given(4) => cfg["http_enabled"] = Bool(FALSE)

Handed ==
    [plain |-> [f \in Plain |-> cfg[f]],
     secure |-> IF cfg["https_enabled"] = Bool(TRUE) THEN {[f \in Secure |-> cfg[f]]} ELSE {},
     http_disabled |-> HttpDisabled]

Listened ==
    {p \in {"http", "https"} :
        IF p = "https" THEN settings.secure # {}
        ELSE settings.secure = {} \/ settings.http_disabled = Bool(FALSE)}

FileInv == file \in [FileKey -> Value \cup {Nothing}]

StageInv == stage \in Stage

ConfigInv ==
    /\ stage \in {"entered", "reading"} => cfg["http_enabled"] = Bool(FALSE)
    /\ stage \in Configured => NoError /\ Applied /\ HttpOff

SettingsInv ==
    /\ stage \in {"settings", "factories", "starting", "serving"} => curlReady
    /\ stage \in {"factories", "starting", "serving"} => settings = Handed
    /\ stage \in {"starting", "serving"} => signers # {}

ServedInv == IF stage = "serving" THEN served = Listened ELSE served = {}

LeftInv ==
    /\ stage = "left" => crypto = "cleaned"
    /\ stage \notin {"leaving", "left"} => exitCode = "EXIT_SUCCESS" /\ ended = "no"
    /\ stage \in {"leaving", "left"} => ((exitCode = "EXIT_SUCCESS") <=> (ended = "stopped"))
    /\ ended = "stopped" => NoError /\ curlReady /\ settings # Nothing /\ signers # {}

IInv == FileInv /\ StageInv /\ ConfigInv /\ SettingsInv /\ ServedInv /\ LeftInv

(***************************************************************************)
(* The beginning.                                                          *)
(***************************************************************************)
LEMMA HttpStartsDisabled == Constructed["http_enabled"] = Bool(FALSE)
  <1>1. "http_enabled" \in Field
    BY HttpEnabledRead DEF Field
  <1>2. (CHOOSE j \in DOMAIN Reads : Reads[j][2] = "http_enabled") = 4
    BY HttpEnabledRead, OneKeyPerField
  <1>3. Constructed["http_enabled"] = Unset("http_enabled", "bool")
    BY <1>1, <1>2, HttpEnabledRead DEF Constructed
  <1>4. Unset("http_enabled", "bool") = Bool(FALSE)
    BY DEF Unset, Bool
  <1>5. QED BY <1>3, <1>4

LEMMA InitIInv == Init => IInv
  <1> SUFFICES ASSUME Init PROVE IInv
    OBVIOUS
  <1>1. FileInv
    <2>1. PICK keys \in SUBSET FileKey : \E given \in [keys -> Value] :
            file = [k \in FileKey |-> IF k \in keys THEN given[k] ELSE Nothing]
      BY DEF Init
    <2>2. PICK given \in [keys -> Value] :
            file = [k \in FileKey |-> IF k \in keys THEN given[k] ELSE Nothing]
      BY <2>1
    <2>3. \A k \in keys : given[k] \in Value
      OBVIOUS
    <2>4. QED BY <2>2, <2>3 DEF FileInv
  <1>2. cfg["http_enabled"] = Bool(FALSE)
    <2>1. PICK garbage \in BOOLEAN :
            cfg = [Constructed EXCEPT !["verify_host"] = Bool(garbage)]
      BY DEF Init
    <2>2. "http_enabled" \in DOMAIN Constructed
      BY HttpEnabledRead DEF Constructed, Field
    <2>3. QED BY <2>1, <2>2, HttpStartsDisabled
  <1>3. stage = "entered" /\ served = {} /\ exitCode = "EXIT_SUCCESS" /\ ended = "no"
    BY DEF Init
  <1>4. QED
    BY <1>1, <1>2, <1>3 DEF IInv, StageInv, Stage, ConfigInv, Configured, SettingsInv,
                            ServedInv, LeftInv

(***************************************************************************)
(* Each step.                                                              *)
(***************************************************************************)
(* set_config, when no value throws.                                       *)
LEMMA SetConfigApplies ==
    ASSUME NoError, cfg["http_enabled"] = Bool(FALSE), file' = file,
           NEW empty \in {"", "/"}, cfg' = [f \in Field |-> Assign(f, empty)]
    PROVE  Applied' /\ HttpOff'
  <1>1. \A i \in DOMAIN Reads : i \in Effective <=> Given(i)
    BY ReadsBefore DEF NoError, Effective
  <1>2. ASSUME NEW i \in DOMAIN Reads, Given(i)
        PROVE  Result(i, empty) # Nothing /\ cfg'[Reads[i][2]] = Result(i, empty)
    <2>1. Result(i, "") # Nothing
      BY <1>2 DEF NoError, Throws
    <2>2. Result(i, empty) # Nothing
      BY <2>1, ConvertedEither DEF Result
    <2>3. i \in Effective /\ \A j \in Effective : Reads[j][2] = Reads[i][2] => j = i
      BY <1>1, <1>2, OneKeyPerField DEF Effective
    <2>4. (CHOOSE j \in Effective : Reads[j][2] = Reads[i][2]) = i
      BY <2>3
    <2>5. Assign(Reads[i][2], empty) = Result(i, empty)
      BY <2>3, <2>4 DEF Assign
    <2>6. QED BY <2>2, <2>5, ReadsAField
  <1>3. Applied'
    BY <1>2, FileKept DEF Applied
  <1>4. HttpOff'
    <2>1. ASSUME ~ Given(4) PROVE cfg'["http_enabled"] = Bool(FALSE)
      <3>1. "http_enabled" \in Field
        BY HttpEnabledRead, ReadsAField
      <3>2. \A i \in Effective : Reads[i][2] # "http_enabled"
        <4>1. SUFFICES ASSUME NEW i \in Effective, Reads[i][2] = "http_enabled" PROVE FALSE
          OBVIOUS
        <4>2. i \in DOMAIN Reads /\ Given(i)
          BY DEF Effective
        <4>3. i = 4
          BY <4>1, <4>2, HttpEnabledRead, OneKeyPerField
        <4>4. QED BY <4>2, <4>3, <2>1
      <3>3. Assign("http_enabled", empty) = Bool(FALSE)
        BY <3>2 DEF Assign
      <3>4. QED BY <3>1, <3>3
    <2>2. QED BY <2>1, HttpEnabledRead, FileKept DEF HttpOff
  <1>5. QED BY <1>3, <1>4

(* Steps that leave file, configuration and settings alone keep what is    *)
(* known of them.                                                          *)
LEMMA Untouched ==
    ASSUME file' = file, cfg' = cfg, readable' = readable
    PROVE  /\ FileInv => FileInv'
           /\ NoError => NoError'
           /\ Applied => Applied'
           /\ HttpOff => HttpOff'
           /\ Handed' = Handed
  <1>1. FileInv => FileInv'
    BY DEF FileInv
  <1>2. NoError => NoError'
    BY FileKept DEF NoError
  <1>3. Applied => Applied'
    BY FileKept DEF Applied
  <1>4. HttpOff => HttpOff'
    BY FileKept, HttpEnabledRead DEF HttpOff
  <1>5. Handed' = Handed
    BY DEF Handed, HttpDisabled
  <1>6. QED BY <1>1, <1>2, <1>3, <1>4, <1>5

LEMMA HandedIsSomething == Handed # Nothing
  BY DEF Handed, Nothing

(***************************************************************************)
(* A step keeps the invariant: one step per action.                        *)
(***************************************************************************)
LEMMA NextIInv == IInv /\ [Next]_vars => IInv'
  <1> SUFFICES ASSUME IInv, [Next]_vars PROVE IInv'
    OBVIOUS
  <1> USE DEF IInv, StageInv, ConfigInv, SettingsInv, ServedInv, LeftInv, Stage, Configured
  <1>1. CASE InitCrypto
    BY <1>1, Untouched DEF InitCrypto
  <1>2. CASE ReadFails
    BY <1>2, Untouched DEF ReadFails, InitializationFails, SetExitCode
  <1>3. CASE SetConfig
    <2>1. FileInv'
      BY <1>3 DEF SetConfig, FileInv
    <2>2. CASE \E i \in DOMAIN Reads : Throws(i)
      <3>1. /\ stage' = "leaving" /\ exitCode' = "EXIT_FAILURE" /\ served' = {}
            /\ ended' = "initialization"
        BY <1>3, <2>2 DEF SetConfig, InitializationFails, SetExitCode
      <3>2. QED BY <2>1, <3>1
    <2>3. CASE ~ \E i \in DOMAIN Reads : Throws(i)
      <3>1. /\ stage' = "libraries" /\ served' = {} /\ NoError /\ file' = file
            /\ exitCode' = "EXIT_SUCCESS" /\ ended' = "no"
        BY <1>3, <2>3 DEF SetConfig, NoError
      <3>2. NoError'
        BY <1>3, <3>1, FileKept DEF NoError, SetConfig
      <3>3. PICK empty \in {"", "/"} : cfg' = [f \in Field |-> Assign(f, empty)]
        BY <1>3 DEF SetConfig
      <3>4. cfg["http_enabled"] = Bool(FALSE)
        BY <1>3 DEF SetConfig
      <3>5. Applied' /\ HttpOff'
        BY <3>1, <3>3, <3>4, SetConfigApplies
      <3>6. QED BY <2>1, <3>1, <3>2, <3>5
    <2>4. QED BY <2>2, <2>3
  <1>4. CASE InitLibraries
    BY <1>4, Untouched DEF InitLibraries
  <1>5. CASE GetSettings
    <2>1. settings' = Handed
      BY <1>5 DEF GetSettings, Handed
    <2>2. QED BY <1>5, <2>1, Untouched DEF GetSettings
  <1>6. CASE RegisterSigner
    BY <1>6, Untouched DEF RegisterSigner
  <1>7. CASE ServiceStarts
    <2>1. served' = Listened' /\ stage' = "serving"
      BY <1>7 DEF ServiceStarts, Listened
    <2>2. QED BY <1>7, <2>1, Untouched DEF ServiceStarts
  <1>8. CASE ServiceFails
    BY <1>8, Untouched DEF ServiceFails, ServiceHandler, SetExitCode
  <1>9. CASE ServiceStops
    <2>1. /\ stage' = "leaving" /\ served' = {} /\ ended' = "stopped"
          /\ exitCode' = "EXIT_SUCCESS"
      BY <1>9 DEF ServiceStops
    <2>2. NoError' /\ curlReady' /\ settings' # Nothing /\ signers' # {}
      BY <1>9, Untouched, HandedIsSomething DEF ServiceStops
    <2>3. QED BY <1>9, <2>1, <2>2, Untouched DEF ServiceStops
  <1>10. CASE Leave
    <2>1. stage' = "left" /\ crypto' = "cleaned" /\ served' = {}
      BY <1>10 DEF Leave
    <2>2. ended = "stopped" => NoError' /\ curlReady' /\ settings' # Nothing /\ signers' # {}
      BY <1>10, Untouched DEF Leave
    <2>3. QED BY <1>10, <2>1, <2>2, Untouched DEF Leave
  <1>11. CASE UNCHANGED vars
    BY <1>11, Untouched DEF vars, Listened
  <1>12. QED
    BY <1>1, <1>2, <1>3, <1>4, <1>5, <1>6, <1>7, <1>8, <1>9, <1>10, <1>11 DEF Next, Main

THEOREM Inductive == Spec => []IInv
  <1>1. Init => IInv
    BY InitIInv
  <1>2. IInv /\ [Next]_vars => IInv'
    BY NextIInv
  <1>3. QED BY <1>1, <1>2, PTL DEF Spec

(***************************************************************************)
(* The safety properties of Startup.                                       *)
(***************************************************************************)
(* A service that is up works from all of its file: set_config and         *)
(* get_restbed_settings leave no key out, whatever the keys and values and *)
(* whatever the widths; every field is the value in the file as far as its *)
(* type can hold it, and every value is of a type the field takes.         *)
THEOREM RunsOnWholeFile == Spec => []RunsOnTheWholeFile
  <1>1. IInv => RunsOnTheWholeFile
    <2> SUFFICES ASSUME IInv, stage = "serving", NEW i \in DOMAIN Reads, Given(i)
                 PROVE  LET f == Reads[i][2]
                        IN  /\ Follows(Reads[i][3], file[KeyOf(i)], cfg[f])
                            /\ f \in Plain => settings.plain[f] = cfg[f]
                            /\ f \in Secure => \A s \in settings.secure : s[f] = cfg[f]
      BY DEF RunsOnTheWholeFile
    <2>1. Applied /\ settings = Handed /\ FileInv
      BY DEF IInv, ConfigInv, SettingsInv, Configured
    <2>2. Follows(Reads[i][3], file[KeyOf(i)], cfg[Reads[i][2]])
      <3>1. PICK empty \in {"", "/"} :
              Result(i, empty) # Nothing /\ cfg[Reads[i][2]] = Result(i, empty)
        BY <2>1 DEF Applied
      <3>2. file[KeyOf(i)] \in Value
        BY <2>1 DEF Given, FileInv
      <3>3. QED BY <3>1, <3>2, ConvertedFollows DEF Result
    <2>3. Reads[i][2] \in Plain => settings.plain[Reads[i][2]] = cfg[Reads[i][2]]
      BY <2>1 DEF Handed
    <2>4. Reads[i][2] \in Secure => \A s \in settings.secure : s[Reads[i][2]] = cfg[Reads[i][2]]
      <3>1. \A s \in settings.secure : s = [f \in Secure |-> cfg[f]]
        BY <2>1 DEF Handed
      <3>2. QED BY <3>1
    <2>5. QED BY <2>2, <2>3, <2>4
  <1>2. QED BY <1>1, Inductive, PTL

(* With https on, plain http is served exactly if the file says so, though *)
(* get_restbed_settings negates the flag and restbed negates it back.      *)
THEOREM PlainHttp == Spec => []PlainHttpAsConfigured
  <1>1. IInv => PlainHttpAsConfigured
    <2> SUFFICES ASSUME IInv, stage = "serving", "https" \in served
                 PROVE  "http" \in served <=> /\ "http/enabled" \in FileKey
                                              /\ file["http/enabled"] = Bool(TRUE)
      BY DEF PlainHttpAsConfigured
    <2>1. NoError /\ Applied /\ HttpOff /\ settings = Handed /\ served = Listened /\ FileInv
      BY DEF IInv, ConfigInv, SettingsInv, ServedInv, Configured
    <2>2. "http" \in served <=> HttpDisabled = Bool(FALSE)
      <3>1. settings.secure # {}
        BY <2>1 DEF Listened
      <3>2. settings.http_disabled = HttpDisabled
        BY <2>1 DEF Handed
      <3>3. QED BY <2>1, <3>1, <3>2 DEF Listened
    <2>3. HttpDisabled = Bool(FALSE) <=> cfg["http_enabled"] # Bool(FALSE)
      <3>1. CASE cfg["http_enabled"] = Bool(FALSE)
        <4>1. HttpDisabled = Bool(TRUE)
          BY <3>1 DEF HttpDisabled, Bool
        <4>2. QED BY <3>1, <4>1, BoolsDiffer
      <3>2. CASE cfg["http_enabled"] # Bool(FALSE)
        <4>1. HttpDisabled = Bool(FALSE)
          BY <3>2 DEF HttpDisabled, Bool
        <4>2. QED BY <3>2, <4>1
      <3>3. QED BY <3>1, <3>2
    <2>4. KeyOf(4) = "http/enabled"
      BY HttpEnabledRead DEF KeyOf
    <2>5. CASE Given(4)
      <3>1. \E empty \in {"", "/"} :
              Result(4, empty) # Nothing /\ cfg["http_enabled"] = Result(4, empty)
        BY <2>1, <2>5, HttpEnabledRead DEF Applied
      <3>2. \A empty : Result(4, empty) = IF file["http/enabled"].type = "bool"
                                          THEN file["http/enabled"] ELSE Nothing
        BY <2>4, HttpEnabledRead DEF Result, Converted
      <3>3. "http/enabled" \in FileKey /\ file["http/enabled"] \in Value \cup {Nothing}
        BY <2>1, <2>4, <2>5 DEF Given, FileInv
      <3>4. file["http/enabled"].type = "bool" /\ cfg["http_enabled"] = file["http/enabled"]
        BY <3>1, <3>2
      <3>5. file["http/enabled"] = Bool(TRUE) \/ file["http/enabled"] = Bool(FALSE)
        BY <3>3, <3>4, BoolValue
      <3>6. QED BY <2>2, <2>3, <3>3, <3>4, <3>5, BoolsDiffer
    <2>6. CASE ~ Given(4)
      <3>1. cfg["http_enabled"] = Bool(FALSE)
        BY <2>1, <2>6 DEF HttpOff
      <3>2. ~ ("http/enabled" \in FileKey /\ file["http/enabled"] = Bool(TRUE))
        BY <2>4, <2>6, BoolsDiffer DEF Given
      <3>3. QED BY <2>2, <2>3, <3>1, <3>2
    <2>7. QED BY <2>5, <2>6
  <1>2. QED BY <1>1, Inductive, PTL

(* When main has returned nothing is served, and EXIT_SUCCESS stands for a *)
(* service that was stopped: no handler caught anything, every key of the  *)
(* file was read and every step before the start taken.                    *)
THEOREM ExitCode == Spec => []ExitCodeTells
  <1>1. IInv => ExitCodeTells
    BY DEF IInv, ServedInv, LeftInv, NoError, ExitCodeTells
  <1>2. QED BY <1>1, Inductive, PTL
=============================================================================
