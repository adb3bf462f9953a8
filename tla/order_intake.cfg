SPECIFICATION WeighingSpec
CONSTANTS
  Requests = {r1, r2}
  Tenants = {t1, t2}
  Subscribers = {s1}
  MaxCustomers = 3
  MaxAddresses = 2
  MaxOrders = 1
  RegisterForms = {"0"}
  OrderForms = {"62", "8", "0-"}
  NamedLegs = {{}, {"pickup"}}
  Scopes = {"customers", "orders"}
  Asks <- MCAsks
  InitialServices <- MCServices
  InitialDiscounts <- MCDiscounts
  ServiceRows <- MCServiceRows
  ServiceEdits <- MCServiceEdits
  DiscountRows <- MCDiscountRows
  DiscountEdits <- MCDiscountEdits
  Memberships <- MCMemberships
  CourierRules <- MCRules
  MaxEdits = 2
  Grain = 2
  Weights <- MCWeights
SYMMETRY Symmetry
INVARIANTS
  RegistryTypeOK
  OrderIsForItsCustomer
  OneCustomerPerNumber
  QuotesAreHonest
  ItemsMatchOrder
CHECK_DEADLOCK FALSE
