-------------------------- MODULE MCQueryLanguage --------------------------
(* Health with a number, Position with another, Name that is not filtered. *)
EXTENDS QueryLanguage

MCFieldsOf == [c \in Components |->
    CASE c = "Health" -> {Number(0), Number(1), Number(2), Null, Text}
      [] c = "Position" -> {Number(0), Number(2)}
      [] OTHER -> {Text}]

HealthIs(op) == Compare("Health", op, Number(1))
Left         == Compare("Position", "<", Number(1))
Named        == Compare("Name", "=", Text)

MCFilters ==
    {HealthIs(op) : op \in {"=", "!=", "<", ">=", "in"}}
        \cup {Left, Named, KeyIs("=", {"k1"}), KeyIs("!=", {"k1"}), Compare("Health", "=", Null)}
        \cup {And(HealthIs(">"), Left), Or(HealthIs(">"), Left), Or(HealthIs("="), HealthIs(">"))}

MCAlternatives ==
    {[withs |-> {"Health"}, withouts |-> {}], [withs |-> {"Name"}, withouts |-> {}],
     [withs |-> {"Health", "Position"}, withouts |-> {}],
     [withs |-> {"Position"}, withouts |-> {"Name"}], [withs |-> {}, withouts |-> {"Health"}]}

=============================================================================
