---------------------------- MODULE ProgramOptions ----------------------------
(***************************************************************************)
(* The configuration of a hub: ProgramOptions.h and                         *)
(* management/program_options_parser.cpp. What the administrator has set is *)
(* a function from the settings that are given to their texts, whether they *)
(* stand in the ini file or in the environment; the two parsers keep their  *)
(* own lists of settings and defaults.                                     *)
(***************************************************************************)
EXTENDS Integers, Sequences

\* The digits and letters a text begins with, by their values: 0 to 9, and 10
\* to 35 for the letters of either case. A sign before them is left out.
CONSTANT Numeral

ASSUME NumeralAssumption ==
    /\ \A text \in DOMAIN Numeral : Numeral[text] \in Seq(0 .. 35)
    /\ "" \notin DOMAIN Numeral
    /\ {"0", "1"} \subseteq DOMAIN Numeral
    /\ Numeral["0"] = <<0>> /\ Numeral["1"] = <<1>>

\* The text begins with a number.
Numeric(text) ==
    text \in DOMAIN Numeral /\ Numeral[text] # <<>> /\ Numeral[text][1] < 10

\* The number that the digits of a base in front of a numeral spell.
Value(base, numeral) ==
    LET read == {n \in DOMAIN numeral : \A i \in 1 .. n : numeral[i] < base}
        upto[n \in 0 .. Len(numeral)] ==
            IF n = 0 THEN 0
            ELSE IF n \in read THEN base * upto[n - 1] + numeral[n]
            ELSE upto[n - 1]
    IN  upto[Len(numeral)]

\* The letter x, between a zero and a digit of base 16.
Hexadecimal(numeral) ==
    Len(numeral) > 2 /\ numeral[1] = 0 /\ numeral[2] = 33 /\ numeral[3] < 16

\* strtol() with base 0 reads the base off the text; atoi() reads decimals.
Strtol(numeral) ==
    CASE Hexadecimal(numeral) -> Value(16, SubSeq(numeral, 3, Len(numeral)))
      [] ~Hexadecimal(numeral) /\ numeral[1] = 0 -> Value(8, numeral)
      [] numeral[1] # 0 -> Value(10, numeral)

Atoi(numeral) == Value(10, numeral)

\* Settings go by the name of the field of ProgramOptions they fill; these are
\* the integers among them.
IntegerSettings == {"http_service_port", "http_management_port",
                    "logger_max_file_size", "logger_max_files"}

Get(settings, name, default) ==
    IF name \in DOMAIN settings THEN settings[name] ELSE default

\* The tables of names: operator[] of a std::map answers a name it does not
\* know with the first value of the enumeration.
AuthenticatorType(text) ==
    IF text \in {"access_file", "cpm_hub_auth"} THEN text ELSE "unauthenticated"

KpiSinkType(text) == IF text = "influxdb" THEN text ELSE "none"

BitsRepositoryType(text) == IF text = "sqlite" THEN text ELSE "filesystem"

\* INIReader calls strtol() with base 0, and falls back to the default when no
\* character was read.
GetInteger(settings, name, default) ==
    LET text == Get(settings, name, "")
    IN  IF Numeric(text) THEN Strtol(Numeral[text]) ELSE default

GetBoolean(settings, name, default) ==
    LET text == Get(settings, name, "")
    IN  IF text \in {"true", "yes", "on", "1"} THEN TRUE
        ELSE IF text \in {"false", "no", "off", "0"} THEN FALSE ELSE default

\* A text without a number is zero to atoi().
EnvInt(settings, name, default) ==
    IF name \in DOMAIN settings
    THEN IF Numeric(settings[name]) THEN Atoi(Numeral[settings[name]]) ELSE 0
    ELSE default

EnvBool(settings, name, default) ==
    IF name \in DOMAIN settings THEN EnvInt(settings, name, 0) # 0 ELSE default

ParseIniFile(ini) ==
    [bits_directory |-> Get(ini, "bits_directory", "."),
     sqlite_database |-> Get(ini, "sqlite_database", "bits.db"),
     bits_repository_type |->
         BitsRepositoryType(Get(ini, "bits_repository_type", "filesystem")),
     http_service_ip |-> Get(ini, "http_service_ip", "127.0.0.1"),
     http_service_port |-> GetInteger(ini, "http_service_port", 8000),
     authenticator_type |->
         AuthenticatorType(Get(ini, "authenticator_type", "unauthenticated")),
     cpm_hub_url |-> Get(ini, "cpm_hub_url", "http://localhost:1234"),
     http_management_ip |-> Get(ini, "http_management_ip", "127.0.0.1"),
     http_management_port |-> GetInteger(ini, "http_management_port", 8001),
     security_enabled |-> GetBoolean(ini, "security_enabled", FALSE),
     certificate_file |-> Get(ini, "certificate_file", "certificate.pem"),
     key_file |-> Get(ini, "key_file", "key.pem"),
     access_file |-> Get(ini, "access_file", ".access"),
     logger_file |-> Get(ini, "logger_file", "cpmhub.log"),
     logger_max_file_size |-> GetInteger(ini, "logger_max_file_size", 1048576),
     logger_max_files |-> GetInteger(ini, "logger_max_files", 10),
     kpi_sink |-> KpiSinkType(Get(ini, "kpi_sink", "none")),
     influxdb_url |-> Get(ini, "influxdb_url", "http://localhost:1234"),
     influxdb_db |-> Get(ini, "influxdb_db", "mydb")]

\* Mutant of ParseEnvironmentVariables: the service's port for the management's.
ParseOnePort(env) ==
    [ParseIniFile(env) EXCEPT
        !.http_management_port = EnvInt(env, "http_service_port", 8001)]

ParseEnvironmentVariables(env) ==
    [bits_directory |-> Get(env, "bits_directory", "."),
     sqlite_database |-> Get(env, "sqlite_database", "cpmhub.db"),
     bits_repository_type |->
         BitsRepositoryType(Get(env, "bits_repository_type", "sqlite")),
     http_service_ip |-> Get(env, "http_service_ip", "127.0.0.1"),
     http_service_port |-> EnvInt(env, "http_service_port", 8000),
     authenticator_type |->
         AuthenticatorType(Get(env, "authenticator_type", "unauthenticated")),
     cpm_hub_url |-> Get(env, "cpm_hub_url", "http://localhost:1234"),
     http_management_ip |-> Get(env, "http_management_ip", "127.0.0.1"),
     http_management_port |-> EnvInt(env, "http_management_port", 8001),
     security_enabled |-> EnvBool(env, "security_enabled", FALSE),
     certificate_file |-> Get(env, "certificate_file", "certificate.pem"),
     key_file |-> Get(env, "key_file", "key.pem"),
     access_file |-> Get(env, "access_file", ".access"),
     logger_file |-> Get(env, "logger_file", "cpmhub.log"),
     logger_max_file_size |-> EnvInt(env, "logger_max_file_size", 1048576),
     logger_max_files |-> EnvInt(env, "logger_max_files", 10),
     kpi_sink |-> KpiSinkType(Get(env, "kpi_sink", "none")),
     influxdb_url |-> Get(env, "influxdb_url", "http://localhost:1234"),
     influxdb_db |-> Get(env, "influxdb_db", "mydb")]

\* --ini on the command line chooses the file, else the environment is read.
ParseProgramOptions(configuration) ==
    IF configuration.source = "ini" THEN ParseIniFile(configuration.settings)
    ELSE ParseEnvironmentVariables(configuration.settings)

\* A number both conversions take for a decimal one: 010 is 8 in the ini file
\* and 10 in the environment, 0x50 is 80 and 0.
Decimal(text) ==
    Numeric(text) /\ (Numeral[text][1] # 0 \/ Numeral[text] = <<0>>)

\* What the two sources read apart: two defaults, integers that are not in
\* decimals, and a switch that is no digit.
ReadApart(settings) ==
    ({"sqlite_database", "bits_repository_type"} \ DOMAIN settings)
    \cup {name \in IntegerSettings \cap DOMAIN settings : ~Decimal(settings[name])}
    \cup {name \in {"security_enabled"} : Get(settings, name, "0") \notin {"0", "1"}}

===============================================================================
