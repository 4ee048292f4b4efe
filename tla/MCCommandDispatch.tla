------------------------ MODULE MCCommandDispatch ------------------------
\* Devices 1 and 2 on the first driver, 3 on the second, 9 nowhere.
EXTENDS CommandDispatch

CONSTANTS c1, c2

MCMaxCalls == [c \in Client |-> IF c = c1 THEN 2 ELSE 1]

Good(device) == [device |-> device, encodable |-> TRUE]
Bad(device) == [device |-> device, encodable |-> FALSE]

MCDriverOf == <<1, 1, 2>>

MCCall == {<<Good(1), Good(3), Good(2)>>, <<Good(9), Good(1)>>,
           <<Good(1), Good(2), Good(1)>>, <<Bad(2), Good(3)>>}
=============================================================================
