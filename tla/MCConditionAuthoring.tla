------------------------- MODULE MCConditionAuthoring -------------------------
EXTENDS ConditionAuthoring

CONSTANTS amount, member

MCOption == {<<"p">>, <<"q">>}
MCCode == {<<"r">>, <<"r", "c">>, <<"r", "c", "b">>, <<"s">>}
MCTexts == {<<"a">>, <<"b">>, <<"a", "b">>}
MCColumn == {amount, member}
MCColumnType == (amount :> "NUMBER") @@ (member :> "BOOLEAN")
Cells == [MCColumn -> {None}] \cup
         {(amount :> Num(n)) @@ (member :> Bool(b)) : n \in {0, 26}, b \in BOOLEAN}
MCRowSet == {<<r>> : r \in Cells} \cup {<<r, s>> : r \in Cells, s \in Cells}
=============================================================================
