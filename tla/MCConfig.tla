------------------------------- MODULE MCConfig -------------------------------
(* Lines for a configuration file, and what each is to say.                *)
EXTENDS Config, TLC

Section(name)     == [kind |-> "section", name |-> name]
Entry(key, value) == [kind |-> "entry", key |-> <<key>>, value |-> value]
Nothing           == [kind |-> "nothing"]
Bad               == [kind |-> "bad"]

MCMeaning ==
     (<<" ">> :> Nothing)
  @@ (<<" ", "#", "[", "x", "=">> :> Nothing)
  @@ (<<"[", "network", "]">> :> Section(<<"network">>))
  @@ (<<"[", " ", "x", " ", "]", " ", "#", "y">> :> Section(<<"x">>))
  @@ (<<"[", "]">> :> Section(<<>>))
  @@ (<<"port", " ", "=", " ", "80">> :> Entry("port", <<"80">>))
  @@ (<<" ", "port", "=", "QUOTE", "443", "QUOTE", " ", "#", "'">> :> Entry("port", <<"443">>))
  @@ (<<"port", "=", "65617">> :> Entry("port", <<"65617">>))
  @@ (<<"port", "=", "'", "-1", "'">> :> Entry("port", <<"-1">>))
  @@ (<<"port", "=">> :> Entry("port", <<>>))
  @@ (<<"port", "=", "'", " ", "80", "'">> :> Entry("port", <<" ", "80">>))
  @@ (<<"port", "=", "QUOTE", "'", "80", "'", "QUOTE">> :> Entry("port", <<"'", "80", "'">>))
  @@ (<<"ip", "=", "host">> :> Entry("ip", <<"host">>))
  @@ (<<"port">> :> Bad)
  \* Three that TOML reads otherwise: a number sign in quotes starts a comment,
  \* a bracket anywhere makes the line a section.
  @@ (<<"port", "=", "'", "80", "#", "'">> :> Entry("port", <<"'", "80">>))
  @@ (<<"port", "=", "[", "80", "]">> :> Section(<<"80">>))
  @@ (<<"port", "=", "80", "#", "[", "x">> :> Section(<<"x">>))

MCLines == DOMAIN MCMeaning

MCNumeral == ("80" :> 80) @@ ("443" :> 443) @@ ("65617" :> 65617) @@ ("-1" :> -1)

=============================================================================
