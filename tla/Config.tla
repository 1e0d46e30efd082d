-------------------------------- MODULE Config --------------------------------
(***************************************************************************)
(* quick::Config (include/quick/io/Config.hh), which owns a TomlParser:    *)
(* parse_config is its load(), and the getters read section network.       *)
(***************************************************************************)
EXTENDS TomlParser

\* parse_config(): any error is false.
parse_config == result = "true"

get_market_ip ==
  IF Has(<<"network">>, <<"ip">>) THEN get_value(<<"network">>, <<"ip">>) ELSE <<>>

\* static_cast<std::uint16_t>
Uint16(n) == n % 65536

\* A missing, unreadable or negative port is 0.
get_market_port_mut ==
  LET value == get_value(<<"network">>, <<"port">>)
  IN  IF Has(<<"network">>, <<"port">>) /\ IsNumber(value) THEN Uint16(stoi(value)) ELSE 0
get_market_port ==
  LET value == get_value(<<"network">>, <<"port">>)
  IN  IF Has(<<"network">>, <<"port">>) /\ IsNumber(value) /\ stoi(value) >= 0
      THEN Uint16(stoi(value)) ELSE 0

-----------------------------------------------------------------------------
(* Properties.                                                             *)

\* After a first load of the whole file the address is the one that the file
\* names, the port is the number, and 0 if it names none (45-73), as for
\* TomlParser's get_int.  Nothing is said of a number of more than 16 bits, which
\* the cast at 65 makes another, nor of get_int for a value in two pairs of
\* quotes, of which it strips both.
AddressIsMeant ==
  parse_config /\ got = disk /\ before = <<>> =>
    LET said == Says(disk)
        named(key) == IF <<<<"network">>, key>> \in DOMAIN said
                      THEN said[<<<<"network">>, key>>] ELSE <<>>
        value == named(<<"port">>)
        port == IF IsNumber(value) THEN stoi(value) ELSE 0
    IN  /\ get_market_ip = named(<<"ip">>)
        /\ 0 <= port /\ port <= 65535 => get_market_port = port
        /\ port < 0 => get_market_port = 0
        /\ Unquote(value) = value => get_int(<<"network", ".", "port">>) = port

=============================================================================
