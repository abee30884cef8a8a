CONSTANTS
    Users = {u1, u2}
    Orders = {o1}
    t1 = t1
    t2 = t2
    s1 = s1
    s2 = s2
    Transactions = {t1, t2}
    NoTransaction = NoTransaction
    Supplies = {s1, s2}
    Recipe <- CrossedRecipe
    MaxLog = 7
CHECK_DEADLOCK FALSE
SPECIFICATION Spec
PROPERTY TransitionsAllowed
