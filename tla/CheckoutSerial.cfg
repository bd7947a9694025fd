CONSTANTS
  ann = ann
  bob = bob
  sam = sam
  pen = pen
  tea = tea
  NoTerms = NoTerms
  NoLine = NoLine
  NoCoupon = NoCoupon
  Unlimited = Unlimited
  Users = {ann, bob, sam}
  Admins = {}
  Products = {pen, tea}
  SellerOf <- MCSellerOf
  Baskets = {}
  InitialStock <- MCStock
  Goals = {}
  OrderIds = {o1, o2}
  Requests = {}
  LineIds = {l1, l2}
  Quantities = {1}
  Coupons = {c1}
  CouponBy <- MCCouponBy
  Limits = {1, Unlimited}
  Tills = {t1, t2}
SPECIFICATION ShopSerialSpec
SYMMETRY Symmetry
INVARIANTS
  OneLinePerProduct
  RedemptionsAreOrders
  NoUnitLost
PROPERTIES
  CartIsOrdered
