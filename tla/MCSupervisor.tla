----------------------------- MODULE MCSupervisor -----------------------------
(***************************************************************************)
(* A small instance of Supervisor: what administrators set, and the         *)
(* numerals among the texts they use.                                      *)
(***************************************************************************)
EXTENDS Supervisor, TLC

Numerals ==
    "0" :> <<0>> @@ "1" :> <<1>> @@ "010" :> <<0, 1, 0>> @@ "0x50" :> <<0, 33, 5, 0>> @@
    "9000" :> <<9, 0, 0, 0>> @@ "9001" :> <<9, 0, 0, 1>> @@
    "70000" :> <<7, 0, 0, 0, 0>> @@ "http" :> <<17, 29, 29, 25>>

Everything ==
    [bits_directory |-> "bits", sqlite_database |-> "hub.db",
     bits_repository_type |-> "sqlite", http_service_ip |-> "0.0.0.0",
     http_service_port |-> "9000", authenticator_type |-> "cpm_hub_auth",
     cpm_hub_url |-> "http://auth", http_management_ip |-> "::1",
     http_management_port |-> "9001", security_enabled |-> "1",
     certificate_file |-> "hub.pem", key_file |-> "hub.key",
     access_file |-> "access", logger_file |-> "", logger_max_file_size |-> "1",
     logger_max_files |-> "0", kpi_sink |-> "influxdb",
     influxdb_url |-> "http://kpi", influxdb_db |-> "kpi"]

Ini(settings) == [source |-> "ini", settings |-> settings]

Environment(settings) == [source |-> "environment", settings |-> settings]

\* Two numerals the sources read apart, and defaults; every setting; an integer
\* and a name that cannot be read, the first of which the environment takes for
\* port 0; a port no address has.
SomeConfigurations ==
    {Ini([http_management_port |-> "0x50", logger_max_files |-> "010"]),
     Ini(Everything),
     Environment([http_service_port |-> "http", http_management_port |-> "0x50",
                  authenticator_type |-> "ldap"]),
     Environment([http_service_port |-> "70000", logger_file |-> ""])}

HubFiles == {"hub.pem", "hub.key"}

===============================================================================
