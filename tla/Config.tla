------------------------------- MODULE Config -------------------------------
(***************************************************************************)
(* The layered configuration (config/loader.cpp, config.h): the defaults,  *)
(* the TOML file, the environment and the flags, each later one over the   *)
(* earlier, then Validate; and ToToml, which writes a configuration as the *)
(* file that loads back into it.                                           *)
(*                                                                         *)
(* A text is the sequence of its pieces between commas, so that a list and *)
(* the text it is given as are told apart; Numeral gives the integers that *)
(* pieces read as.  The widths of integers are scaled down.                *)
(***************************************************************************)
EXTENDS Integers, Sequences, FiniteSets, Concat

CONSTANTS
  Piece,     \* the strings without a comma
  Numeral,   \* piece -> integer; one piece per integer
  U32Max, I64Max, U64Max

ASSUME NumeralAssumption ==
  /\ DOMAIN Numeral \subseteq Piece \ {""}
  /\ \A p \in DOMAIN Numeral : Numeral[p] \in Int
  /\ {U32Max, I64Max, U64Max} \subseteq Nat
  /\ U32Max <= I64Max /\ I64Max <= U64Max
  /\ \A p \in DOMAIN Numeral :
       I64Max < Numeral[p] => \E q \in DOMAIN Numeral : Numeral[q] = Numeral[p] - U64Max - 1

\* The words of the program are pieces; the integers of the defaults have numerals
\* and are within the widths.
ASSUME WordAssumption ==
  {"", "true", "false", "token", "mtls", "none", "json", "text", "info", "/var/lib/opaquedb",
   "/opaquedb/leader", "http://127.0.0.1:2379", "0.0.0.0:50051", "0.0.0.0:9090",
   "/etc/opaquedb/tokens"} \subseteq Piece

ASSUME DefaultAssumption ==
  /\ 67108864 <= U32Max
  /\ \A n \in {16, 20, 49, 60, 128, 2000, 16384, 67108864} : \E p \in DOMAIN Numeral : Numeral[p] = n

TextKeys ==
  {"node.id", "node.data_dir", "cluster.leader_key", "cluster.etcd_username",
   "cluster.etcd_password", "cluster.etcd_ca_cert", "cluster.etcd_client_cert",
   "cluster.etcd_client_key", "cluster.etcd_tls_name", "cluster.listen", "cluster.advertise",
   "cluster.tls_cert", "cluster.tls_key", "cluster.ca_cert", "server.listen",
   "server.advertise", "server.tls_cert", "server.tls_key", "client.ca_cert",
   "client.tls_cert", "client.tls_key", "client.server_name", "storage.epoch_dir",
   "auth.token_file", "auth.ca_cert", "keyring.path", "metrics.listen", "logging.level",
   "logging.file"}
BoolKeys ==
  {"cluster.enabled", "cluster.allow_insecure", "client.allow_insecure", "auth.enable_insecure"}
U32Keys ==
  {"server.rate_limit_per_second", "server.rate_limit_burst", "crypto.poly_modulus_degree",
   "crypto.plain_modulus_bits", "crypto.key_bits", "crypto.result_buckets",
   "storage.record_bytes"}
U64Keys == {"server.max_message_bytes"}
IntListKeys == {"crypto.coeff_modulus_bits"}
TextListKeys == {"cluster.etcd_endpoints", "auth.admin_identities"}

\* kKeys.
Keys == TextKeys \cup BoolKeys \cup U32Keys \cup U64Keys \cup IntListKeys \cup TextListKeys
        \cup {"auth.mode", "logging.format"}

EmptyText == <<"">>

\* The member initializers of Config.
Default ==
  [k \in Keys |->
    CASE k = "node.data_dir"                -> <<"/var/lib/opaquedb">>
      [] k = "cluster.leader_key"           -> <<"/opaquedb/leader">>
      [] k = "cluster.etcd_endpoints"       -> <<"http://127.0.0.1:2379">>
      [] k = "server.listen"                -> <<"0.0.0.0:50051">>
      [] k = "metrics.listen"               -> <<"0.0.0.0:9090">>
      [] k = "auth.token_file"              -> <<"/etc/opaquedb/tokens">>
      [] k = "logging.level"                -> <<"info">>
      [] k = "logging.format"               -> "json"
      [] k = "auth.mode"                    -> "token"
      [] k = "auth.admin_identities"        -> <<>>
      [] k = "server.max_message_bytes"     -> 67108864
      [] k = "server.rate_limit_per_second" -> 2000
      [] k = "server.rate_limit_burst"      -> 2000
      [] k = "crypto.poly_modulus_degree"   -> 16384
      [] k = "crypto.plain_modulus_bits"    -> 20
      [] k = "crypto.coeff_modulus_bits"    -> <<60, 60, 60, 60, 60, 49>>
      [] k = "crypto.key_bits"              -> 16
      [] k = "crypto.result_buckets"        -> 16
      [] k = "storage.record_bytes"         -> 128
      [] k \in BoolKeys                     -> FALSE
      [] OTHER                              -> EmptyText]

-----------------------------------------------------------------------------
(* ApplyKeyValue.                                                          *)

IsTrue(text) == text \in {<<"true">>, <<"1">>, <<"yes">>, <<"on">>}
IsFalse(text) == text \in {<<"false">>, <<"0">>, <<"no">>, <<"off">>}

IsNumber(text, max) ==
  Len(text) = 1 /\ text[1] \in DOMAIN Numeral /\ Numeral[text[1]] \in 0 .. max

\* A text that the parser of the key takes.
Readable(key, text) ==
  /\ key \in BoolKeys => IsTrue(text) \/ IsFalse(text)
  /\ key \in U32Keys => IsNumber(text, U32Max)
  /\ key \in U64Keys => IsNumber(text, U64Max)
  /\ key \in IntListKeys =>
       text = EmptyText \/ \A i \in DOMAIN text :
         text[i] \in DOMAIN Numeral /\ 2 * Numeral[text[i]] \in -U32Max - 1 .. U32Max
  /\ key = "auth.mode" => text \in {<<"token">>, <<"mtls">>, <<"none">>}
  /\ key = "logging.format" => text \in {<<"json">>, <<"text">>}

\* ParseStringList: an empty text is an empty list.
ListOf(text) == IF text = EmptyText THEN <<>> ELSE text

\* The value that ApplyKeyValue sets.
ValueAt(key, text) ==
  CASE key \in TextKeys           -> text
    [] key \in BoolKeys           -> IsTrue(text)
    [] key \in U32Keys \cup U64Keys -> Numeral[text[1]]
    [] key \in IntListKeys        -> LET list == ListOf(text)
                                     IN  [i \in DOMAIN list |-> Numeral[list[i]]]
    [] key \in TextListKeys       -> ListOf(text)
    [] OTHER                      -> text[1]

\* A layer: texts for some keys.  The first that cannot be read fails the load.
LayerReadable(layer) == \A k \in DOMAIN layer \cap Keys : Readable(k, layer[k])

ApplyLayer(config, layer) ==
  [k \in Keys |-> IF k \in DOMAIN layer THEN ValueAt(k, layer[k]) ELSE config[k]]

-----------------------------------------------------------------------------
(* The file.                                                               *)

\* A node is the texts of its elements; a scalar has one.
Scalar(text) == <<text>>

\* Mutant of TomlNodeToString: an array is read as its first element.
TomlNodeFirst(node) == IF node = <<>> THEN EmptyText ELSE node[1]

\* TomlNodeToString: the elements of an array are joined with commas.
TomlNodeToString(node) == IF node = <<>> THEN EmptyText ELSE Concat(node)

\* The keys of the file that are known; any other is not looked at.
FileLayer(file) == [k \in DOMAIN file.nodes \cap Keys |-> TomlNodeToString(file.nodes[k])]

\* ApplyTomlFile: a file that is missing or not TOML, `bad`, may be left out.
FileApplies(file, optional) == IF file.bad THEN optional ELSE LayerReadable(FileLayer(file))

ApplyTomlFile(config, file) == IF file.bad THEN config ELSE ApplyLayer(config, FileLayer(file))

-----------------------------------------------------------------------------
(* Validate.                                                               *)

IsPowerOfTwo(n) == \E e \in 0 .. 29 : n = 2 ^ e

Log2(n) == CHOOSE e \in 0 .. 29 : n = 2 ^ e

ValidCrypto(c) ==
  LET degree == c["crypto.poly_modulus_degree"]
      primes == c["crypto.coeff_modulus_bits"]
      key_bits == c["crypto.key_bits"]
      buckets == c["crypto.result_buckets"]
  IN  /\ IsPowerOfTwo(degree) /\ degree \in 1024 .. 32768
      /\ c["crypto.plain_modulus_bits"] \in 2 .. 60
      /\ primes # <<>> /\ \A i \in DOMAIN primes : primes[i] \in 1 .. 60
      /\ IsPowerOfTwo(key_bits) /\ key_bits <= 64 /\ key_bits <= degree \div 2
      /\ 1 + Log2(key_bits) <= Len(primes)
      /\ IsPowerOfTwo(buckets) /\ buckets <= (degree \div 2) \div key_bits

Set(c, key) == c[key] # EmptyText

ValidClient(c) ==
  /\ Set(c, "client.tls_cert") = Set(c, "client.tls_key")
  /\ Set(c, "client.tls_cert") => Set(c, "client.ca_cert")

ValidCluster(c) ==
  LET server_tls == Set(c, "server.tls_cert") /\ Set(c, "server.tls_key")
      cluster_tls == /\ Set(c, "cluster.tls_cert") /\ Set(c, "cluster.tls_key")
                     /\ Set(c, "cluster.ca_cert")
  IN  c["cluster.enabled"] =>
        /\ cluster_tls \/ server_tls \/ c["cluster.allow_insecure"]
        /\ Set(c, "cluster.tls_cert") => cluster_tls

ValidAuth(c) ==
  /\ c["auth.mode"] = "none" => c["auth.enable_insecure"]
  /\ c["auth.mode"] = "mtls" =>
       Set(c, "server.tls_cert") /\ Set(c, "server.tls_key") /\ Set(c, "auth.ca_cert")

Validate(c) ==
  /\ ValidCrypto(c)
  /\ \A k \in {"storage.record_bytes", "server.max_message_bytes",
               "server.rate_limit_per_second", "server.rate_limit_burst"} : c[k] > 0
  /\ ValidClient(c) /\ ValidCluster(c) /\ ValidAuth(c)
  /\ c["logging.level"] \in
       {<<l>> : l \in {"trace", "debug", "info", "warn", "error", "critical", "off"}}

-----------------------------------------------------------------------------
(* Load and ToToml.                                                        *)

Text == Seq(Piece) \ {<<>>}

\* LoadOptions, with the file it names.
IsLoadOptions(o) ==
  /\ DOMAIN o = {"file", "optional", "env", "flags"}
  /\ \A k \in DOMAIN o.file.nodes : o.file.nodes[k] \in Seq(Text)
  /\ \A layer \in {o.env, o.flags} : \A k \in DOMAIN layer : layer[k] \in Text

\* Load; a flag with an unknown key is an error.
Load(o) ==
  LET config == ApplyLayer(ApplyLayer(ApplyTomlFile(Default, o.file), o.env), o.flags)
  IN  IF /\ FileApplies(o.file, o.optional)
         /\ LayerReadable(o.env)
         /\ DOMAIN o.flags \subseteq Keys /\ LayerReadable(o.flags)
         /\ Validate(config)
        THEN [ok |-> TRUE, config |-> config] ELSE [ok |-> FALSE]

LoadFileOnly(file) ==
  LET config == ApplyTomlFile(Default, file)
  IN  IF FileApplies(file, FALSE) /\ Validate(config)
        THEN [ok |-> TRUE, config |-> config] ELSE [ok |-> FALSE]

\* The integer as TOML's 64 bits, signed.
Printed(n) ==
  LET m == IF n > I64Max THEN n - U64Max - 1 ELSE n
  IN  <<CHOOSE p \in DOMAIN Numeral : Numeral[p] = m>>

ToToml(c) ==
  [bad |-> FALSE,
   nodes |-> [k \in Keys |->
     CASE k \in TextKeys     -> Scalar(c[k])
       [] k \in BoolKeys     -> Scalar(IF c[k] THEN <<"true">> ELSE <<"false">>)
       [] k \in U32Keys \cup U64Keys -> Scalar(Printed(c[k]))
       [] k \in IntListKeys  -> [i \in DOMAIN c[k] |-> Printed(c[k][i])]
       [] k \in TextListKeys -> [i \in DOMAIN c[k] |-> <<c[k][i]>>]
       [] OTHER              -> Scalar(<<c[k]>>)]]

\* CryptoConfig::BytesPerSlot.
BytesPerSlot(c) ==
  LET bits == c["crypto.plain_modulus_bits"]
  IN  IF bits <= 8 THEN 1 ELSE IF bits > 57 THEN 7 ELSE (bits - 1) \div 8
=============================================================================
